------------------------------- MODULE Surfaces -------------------------------
(***************************************************************************)
(* One operation of the engine as its callers spell it: the commands of    *)
(* __main__.py, the methods of client.py with the routes of daemon.py, and *)
(* the tools of mcp_server.py.  A question is what the engine is asked:    *)
(* the value of every parameter of the operation, under the engine's name. *)
(*                                                                         *)
(* A value is text ("none" when absent); numbers are written as text and   *)
(* flags as "true" and "false".  A list is a sequence of names, and a name *)
(* the sequence of what its commas separate.  A path is written without    *)
(* its slash.                                                              *)
(***************************************************************************)
EXTENDS Naturals, Sequences, FiniteSets, SequencesExt

\* One table beside another.
Beside(f, g) == [x \in DOMAIN f \cup DOMAIN g |-> IF x \in DOMAIN f THEN f[x] ELSE g[x]]

Numbers == {"token_budget", "limit", "max_hops", "max_fanout", "min_similarity"}
Flags == {"staged", "full", "force", "near_global", "include_call_pattern",
          "doc_only", "include_low_confidence", "persist", "check_freshness"}
Lists == {"focus_symbols", "focus_files", "tags"}
IsText(p) == p \notin Flags \cup Lists

\* What the engine takes for a parameter it is not given.
Default(op, p) ==
  CASE p \in {"include_low_confidence", "persist"} -> "true"
    [] p \in Flags \ {"include_low_confidence", "persist"} -> "false"
    [] p \in Lists -> <<>>
    [] p = "token_budget" -> CASE op = "get_map" -> "2000"
                               [] op = "preflight" -> "1200"
                               [] OTHER -> "1500"
    [] p = "direction" -> "both"
    [] p = "resolve" -> "auto"
    [] OTHER -> "none"

Truthy == {"1", "true", "True", "yes", "on"}

\* _normalize_resolve
Normalized(v) == CASE v \in Truthy -> "on"
                   [] v \in {"0", "false", "False", "no", "off"} -> "off"
                   [] OTHER -> "auto"

-----------------------------------------------------------------------------
(* client.py: the method, the path and what each name of the request holds. *)

ClientQueries ==
  [get_symbols |-> <<"GET", "get_symbols", [file |-> "file"]>>,
   get_map |-> <<"GET", "get_map", [budget |-> "token_budget",
                 focus_symbols |-> "focus_symbols", focus_files |-> "focus_files"]>>,
   preflight |-> <<"GET", "preflight", [file |-> "target", symbol |-> "symbol",
                   budget |-> "token_budget", resolve |-> "resolve"]>>,
   check |-> <<"GET", "check", [base |-> "base", staged |-> "staged",
               budget |-> "token_budget", resolve |-> "resolve"]>>,
   guards |-> <<"GET", "guards", [base |-> "base", staged |-> "staged",
                target |-> "target", symbol |-> "symbol", full |-> "full",
                budget |-> "token_budget", limit |-> "limit"]>>,
   status |-> <<"GET", "status", [fresh |-> "check_freshness"]>>]

ClientScans ==
  [find_references |-> <<"POST", "find_references", [symbol |-> "symbol",
      def_path |-> "def_path", src_root |-> "src_root",
      include_low_confidence |-> "include_low_confidence", persist |-> "persist"]>>,
   index_project |-> <<"POST", "reindex", [force |-> "force"]>>,
   find_deadcode |-> <<"GET", "deadcode", [file |-> "scope_file", lang |-> "lang"]>>,
   find_ai_usage |-> <<"GET", "ai_usage", [file |-> "scope_file"]>>,
   find_unwired |-> <<"GET", "find_unwired", [max_fanout |-> "max_fanout"]>>]

ClientComments ==
  [get_comment_overview |-> <<"GET", "comment_overview", [file |-> "scope_file"]>>,
   find_comment_tags |-> <<"GET", "comment_tags", [file |-> "scope_file", tags |-> "tags"]>>,
   get_comments |-> <<"GET", "get_comments", [file |-> "file", scope |-> "scope",
                      tag |-> "tag", doc_only |-> "doc_only"]>>,
   find_duplicates |-> <<"GET", "find_duplicates", [file |-> "scope_file",
      near_global |-> "near_global", min_similarity |-> "min_similarity",
      calls |-> "include_call_pattern"]>>,
   call_hierarchy |-> <<"POST", "call_hierarchy", [symbol |-> "symbol",
      direction |-> "direction", max_hops |-> "max_hops",
      def_path |-> "def_path", src_root |-> "src_root"]>>,
   impact |-> <<"POST", "impact", [symbol |-> "symbol", max_hops |-> "max_hops",
                def_path |-> "def_path", src_root |-> "src_root"]>>]

\* Mutant: a flag that is off is not sent.
SentWhenTrue(p, v) == CASE p \in Flags -> IF v = "true" THEN "1" ELSE "none"
                        [] p \in Lists -> FlattenSeq(v)
                        [] IsText(p) /\ v \in {"", "0"} -> "none"
                        [] OTHER -> v

\* The query string drops what is None and the daemon what is blank; a flag is
\* sent only when it is set, a list joined by commas.
Sent(p, v) == CASE p \in Flags -> IF v = "true" THEN "1" ELSE "none"
                [] p \in Lists -> FlattenSeq(v)
                [] IsText(p) /\ v = "" -> "none"
                [] OTHER -> v

-----------------------------------------------------------------------------
(* daemon.py: the routes of each method of HTTP that ask the engine, and   *)
(* under which name an endpoint reads each parameter of the engine.        *)

RoutesGet == {"get_symbols", "get_map", "status", "deadcode", "ai_usage", "find_unwired",
              "get_health", "comment_overview", "comment_tags", "get_comments",
              "find_duplicates", "preflight", "check", "guards"}
RoutesPost == {"find_references", "reindex", "call_hierarchy", "impact"}

EndpointQueries ==
  [get_symbols |-> [file |-> "file"],
   find_references |-> [symbol |-> "symbol", def_path |-> "def_path",
      src_root |-> "src_root", include_low_confidence |-> "include_low_confidence",
      persist |-> "persist"],
   get_map |-> [token_budget |-> "budget", focus_symbols |-> "focus_symbols",
                focus_files |-> "focus_files"],
   reindex |-> [force |-> "force"],
   status |-> [check_freshness |-> "fresh"]]

\* The route of call_hierarchy also takes build_edges, which no surface sends.
EndpointScans ==
  [deadcode |-> [scope_file |-> "file", lang |-> "lang"],
   ai_usage |-> [scope_file |-> "file"],
   call_hierarchy |-> [symbol |-> "symbol", direction |-> "direction",
      max_hops |-> "max_hops", def_path |-> "def_path", src_root |-> "src_root"],
   impact |-> [symbol |-> "symbol", max_hops |-> "max_hops",
               def_path |-> "def_path", src_root |-> "src_root"],
   find_unwired |-> [max_fanout |-> "max_fanout"]]

EndpointReviews ==
  [preflight |-> [target |-> "file", symbol |-> "symbol",
                  token_budget |-> "budget", resolve |-> "resolve"],
   check |-> [base |-> "base", staged |-> "staged",
              token_budget |-> "budget", resolve |-> "resolve"],
   guards |-> [base |-> "base", staged |-> "staged", target |-> "target",
      symbol |-> "symbol", full |-> "full", token_budget |-> "budget",
      limit |-> "limit"]]

EndpointComments ==
  [comment_overview |-> [scope_file |-> "file"],
   comment_tags |-> [tags |-> "tags", scope_file |-> "file"],
   get_comments |-> [file |-> "file", scope |-> "scope", doc_only |-> "doc_only",
                     tag |-> "tag"],
   find_duplicates |-> [scope_file |-> "file", near_global |-> "near_global",
      min_similarity |-> "min_similarity", include_call_pattern |-> "calls"]]

Client == Beside(ClientQueries, Beside(ClientScans, ClientComments))
Endpoint == Beside(Beside(EndpointQueries, EndpointScans),
                   Beside(EndpointReviews, EndpointComments))
Operations == DOMAIN Client
Params(op) == DOMAIN Endpoint[Client[op][2]]
\* engine.py refuses to do without it, and so do the routes and the tools.
Required(op) == CASE op = "preflight" -> {"target"}
                  [] op \in {"find_references", "call_hierarchy", "impact"} -> {"symbol"}
                  [] OTHER -> {}

Read(op, p, v) == CASE p \in Lists -> [i \in DOMAIN v |-> <<v[i]>>]
                    [] p \in Flags -> IF v \in Truthy THEN "true" ELSE "false"
                    [] IsText(p) /\ v = "none" -> Default(op, p)
                    [] OTHER -> v

\* The question the engine is asked when the client is called with args.  What
\* does not fit the route is no question.
ByDaemon(op, args) ==
  LET post == Client[op][1] = "POST"
      names == Client[op][3]
      reads == Endpoint[Client[op][2]]
      value(p) == IF reads[p] \notin DOMAIN names THEN Default(op, p)
                  ELSE LET q == names[reads[p]]
                       IN IF post THEN args[q] ELSE Read(op, p, Sent(q, args[q]))
  IN IF \/ Client[op][2] \notin (IF post THEN RoutesPost ELSE RoutesGet)
        \/ \E p \in Required(op) : value(p) \in {"", "none"}
     THEN <<>>
     ELSE [p \in Params(op) |-> IF p = "resolve" THEN Normalized(value(p)) ELSE value(p)]

-----------------------------------------------------------------------------
(* __main__.py: the parameters a command sets; the parser gives the others *)
(* their defaults.                                                         *)

CommandsFirst == [index_project |-> {"force"}, get_symbols |-> {"file"},
  find_references |-> {"symbol", "def_path", "src_root", "include_low_confidence"},
  get_map |-> {"token_budget"}]
CommandsReview == [preflight |-> {"target", "symbol", "token_budget", "resolve"},
  guards |-> {"base", "staged", "target", "symbol", "full", "token_budget", "limit"}]
CommandsAfter == [check |-> {"base", "staged", "token_budget"}]
CommandsStatus == [status |-> {}]
CommandsScan == [find_deadcode |-> {"scope_file", "lang"},
  find_ai_usage |-> {"scope_file"}, find_unwired |-> {"max_fanout"}]
CommandsComments == [get_comment_overview |-> {"scope_file"},
  find_comment_tags |-> {"scope_file", "tags"},
  get_comments |-> {"file", "scope", "doc_only", "tag"},
  find_duplicates |-> {"scope_file", "near_global", "min_similarity",
                       "include_call_pattern"}]
CommandsCalls == [call_hierarchy |-> {"symbol", "direction", "max_hops", "src_root", "def_path"},
  impact |-> {"symbol", "max_hops", "src_root", "def_path"}]
Commands == Beside(Beside(Beside(CommandsFirst, CommandsReview),
                          Beside(CommandsAfter, CommandsStatus)),
                   Beside(CommandsScan, Beside(CommandsComments, CommandsCalls)))

\* What the parser gives a parameter: a list is one argument with commas.
Parsed(op, p, v) == IF p \in Lists THEN [i \in DOMAIN FlattenSeq(v) |-> <<FlattenSeq(v)[i]>>]
                    ELSE IF v = "none" THEN Default(op, p) ELSE v

ByCommand(op, args) ==
  [p \in Params(op) |->
    LET v == IF p \in Commands[op] THEN Parsed(op, p, args[p]) ELSE Default(op, p)
    IN IF p = "resolve" THEN Normalized(v) ELSE v]

\* What the caller means, on whatever surface.
Meant(op, args) ==
  [p \in Params(op) |->
    CASE p = "resolve" -> Normalized(args[p])
      [] p \in Lists -> args[p]
      [] p \notin Lists \cup {"resolve"} /\ args[p] \in {"", "none"} -> Default(op, p)
      [] OTHER -> args[p]]

\* Known gap: a list travels joined by commas, so a name with a comma falls apart.
Splits(args) == \E p \in DOMAIN args \cap Lists :
                  \E i \in DOMAIN args[p] : Len(args[p][i]) > 1
===============================================================================
