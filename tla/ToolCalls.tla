------------------------------ MODULE ToolCalls ------------------------------
(***************************************************************************)
(* mcp_server.py: one call of a tool after the other, answered by the      *)
(* shared daemon or, when that is not possible, in this process, and after *)
(* the index of the project has been built when there is none.  The        *)
(* commands and the client's methods ask the same engine without this      *)
(* machinery.                                                              *)
(***************************************************************************)
EXTENDS Surfaces

CONSTANT Calls  \* the arguments callers may give each operation

\* A flag is set or not, a direction one of the choices, a list a sequence of
\* names that are not empty, and everything else a text.
WellFormed(op, args) ==
  /\ DOMAIN args = Params(op)
  /\ \A p \in Params(op) :
       CASE p \in Flags -> args[p] \in {"true", "false"}
         [] p \in Lists -> args[p] \in Seq(Seq(STRING \ {""}) \ {<<>>})
         [] p \in Numbers -> args[p] \in STRING \ {""}
         [] p = "direction" -> args[p] \in {"both", "up", "down"}
         [] OTHER -> args[p] \in STRING

ASSUME ToolsAssumption ==
  \A op \in Operations : \A args \in Calls[op] : WellFormed(op, args)

VARIABLES
  server,   \* the server: initialized, its client, why it works in process,
            \* the project it has indexed, the notes of the next answer
  index,    \* the project has an index
  tool,     \* the call in hand
  reply,    \* the last reply
  untold    \* history: the degradations no reply has told of

toolVars == <<server, index, tool, reply, untold>>

\* What each tool of TOOLS passes on of its arguments.
ToolsReview ==
  [preflight |-> {"target", "symbol", "token_budget", "resolve"},
   check |-> {"base", "staged", "token_budget"},
   guards |-> {"target", "symbol", "base", "staged", "full", "token_budget", "limit"}]
ToolsScan ==
  [get_map |-> {"token_budget", "focus_files", "focus_symbols"},
   find_references |-> {"symbol", "def_path"},
   impact |-> {"symbol", "max_hops", "def_path"},
   get_symbols |-> {"file"},
   find_duplicates |-> {"scope_file", "near_global", "min_similarity"},
   index_project |-> {"force"},
   status |-> {}]
Tools == Beside(ToolsReview, ToolsScan)

\* What a caller gives that does not set a parameter.
Unset(op, p) == CASE p \in Flags \cup Lists -> Default(op, p)
                  [] p = "direction" -> "both"
                  [] OTHER -> "none"

\* The arguments of a surface that lets its callers set these parameters.
Settable(op, parameters) ==
  {args \in Calls[op] : \A p \in Params(op) \ parameters : args[p] = Unset(op, p)}

\* The coercions: an empty string is no string, a limit of zero no limit, and
\* a required string must not be blank.
Coerced(op, args) ==
  [p \in Params(op) |->
     CASE p = "check_freshness" -> "true"
       [] p = "limit" /\ args[p] = "0" -> "none"
       [] p \notin Lists \cup {"resolve", "check_freshness"} /\ args[p] = "" -> "none"
       [] OTHER -> args[p]]
Refused(op, args) == \E p \in Required(op) : args[p] \in {"", "none"}

\* The engine called in this process.
Direct(op, args) ==
  [p \in Params(op) |->
     CASE p = "resolve" -> Normalized(args[p])
       [] p \notin Lists \cup {"resolve"} /\ args[p] = "none" -> Default(op, p)
       [] OTHER -> args[p]]

\* find_duplicates and impact raise where there is no index; the others build
\* it or say in a note that there is none.
Raises == {"impact", "find_duplicates"}

NoTool == [at |-> "none"]
NoReply == [by |-> "none"]

ToolsInit ==
  /\ \E direct \in {"no", "chosen"} :
       server = [ready |-> FALSE, client |-> FALSE, direct |-> direct,
                 indexed |-> FALSE, notes |-> {}]
  /\ index \in BOOLEAN
  /\ tool = NoTool /\ reply = NoReply /\ untold = {}

\* One message is answered before the next is read.
Free == tool = NoTool /\ reply = NoReply

Fresh(op, args) == [at |-> "ask", op |-> op, args |-> args, asked |-> <<>>,
                    by |-> "none", error |-> FALSE]

-----------------------------------------------------------------------------
(* The other surfaces, used without empty strings.                         *)

Plain(args) == ~Splits(args) /\ \A p \in DOMAIN args \ Lists : args[p] # ""

Command(op, args) ==
  /\ Free
  /\ Plain(args) /\ ~Refused(op, args)
  /\ "resolve" \in DOMAIN args => args["resolve"] \in {"none", "auto", "yes", "no"}
  /\ reply' = [by |-> "command", op |-> op, args |-> args, asked |-> ByCommand(op, args)]
  /\ UNCHANGED <<server, index, tool, untold>>

Method(op, args) ==
  /\ Free
  /\ Plain(args) /\ ~Refused(op, args)
  /\ reply' = [by |-> "method", op |-> op, args |-> args, asked |-> ByDaemon(op, args)]
  /\ UNCHANGED <<server, index, tool, untold>>

-----------------------------------------------------------------------------
(* The server.                                                             *)

Initialize ==
  /\ Free /\ ~server.ready
  /\ server' = [server EXCEPT !.ready = TRUE]
  /\ UNCHANGED <<index, tool, reply, untold>>

\* A call before initialize, of an unknown tool or with arguments the tool
\* refuses is a protocol error: nothing is asked.
RefuseCall(op, args) ==
  /\ Free
  /\ ~server.ready \/ Refused(op, args)
  /\ reply' = [by |-> "refused"]
  /\ UNCHANGED <<server, index, tool, untold>>

CallTool(op, args) ==
  /\ Free /\ server.ready /\ ~Refused(op, args)
  /\ tool' = Fresh(op, Coerced(op, args))
  /\ UNCHANGED <<server, index, reply, untold>>

\* _fall_back: for the rest of its life the server works in this process.
FellBack(s) == [s EXCEPT !.client = FALSE, !.direct = "fell",
                         !.notes = @ \cup {"in process"}]

Attempting == tool.at \in {"ask", "build", "again"}
ByClient == Attempting /\ server.direct = "no" /\ server.client

\* _daemon: the first call starts the daemon, or finds that it does not start.
Connect ==
  /\ Attempting /\ server.direct = "no" /\ ~server.client
  /\ \/ server' = [server EXCEPT !.client = TRUE] /\ UNCHANGED untold
     \/ server' = FellBack(server) /\ untold' = untold \cup {"in process"}
  /\ UNCHANGED <<index, tool, reply>>

\* The daemon is not heard, is outdated or refuses the proof: it is given up.
\* An answer and a timeout, which means that it is alive and busy, are not this.
Lose ==
  /\ ByClient
  /\ server' = FellBack(server)
  /\ untold' = untold \cup {"in process"}
  /\ UNCHANGED <<index, tool, reply>>

Asked == IF ByClient THEN ByDaemon(tool.op, tool.args) ELSE Direct(tool.op, tool.args)
Place == IF ByClient THEN "daemon" ELSE "process"
Can == Attempting /\ (ByClient \/ server.direct # "no")

Answer ==
  /\ Can /\ tool.at # "build"
  /\ tool.op \in Raises => index
  /\ tool' = [tool EXCEPT !.at = "reply", !.asked = Asked, !.by = Place]
  /\ index' \in IF tool.op \in Raises \cup {"status"} THEN {index} ELSE {index, TRUE}
  /\ UNCHANGED <<server, reply, untold>>

\* No, from the daemon or the engine; a timeout of the daemon.
Fail ==
  /\ Can
  /\ tool' = [tool EXCEPT !.at = "reply", !.by = Place, !.error = TRUE]
  /\ UNCHANGED <<server, index, reply, untold>>

\* The project has never been indexed: it is indexed once, here or there.
Unindexed ==
  /\ Can /\ tool.at # "build" /\ tool.op \in Raises /\ ~index
  /\ IF tool.at = "ask" /\ ~server.indexed
     THEN /\ server' = [server EXCEPT !.indexed = TRUE]
          /\ tool' = [tool EXCEPT !.at = "build"]
     ELSE /\ tool' = [tool EXCEPT !.at = "reply", !.by = Place, !.error = TRUE]
          /\ UNCHANGED server
  /\ UNCHANGED <<index, reply, untold>>

Build ==
  /\ Can /\ tool.at = "build"
  /\ index' = TRUE
  /\ server' = [server EXCEPT !.notes = @ \cup {"indexed"}]
  /\ untold' = untold \cup {"indexed"}
  /\ tool' = [tool EXCEPT !.at = "again"]
  /\ UNCHANGED reply

\* Mutant: an error carries no notes.
ReplyWithoutNotesOfErrors ==
  /\ tool.at = "reply"
  /\ LET told == IF tool.error THEN {} ELSE server.notes
     IN /\ reply' = [by |-> tool.by, op |-> tool.op, args |-> tool.args,
                     asked |-> tool.asked, error |-> tool.error, notes |-> told]
        /\ untold' = untold \ told
  /\ server' = [server EXCEPT !.notes = {}]
  /\ tool' = NoTool
  /\ UNCHANGED index

\* take_notes: the answer, or the reason why there is none, carries the notes.
Reply ==
  /\ tool.at = "reply"
  /\ reply' = [by |-> tool.by, op |-> tool.op, args |-> tool.args,
               asked |-> tool.asked, error |-> tool.error, notes |-> server.notes]
  /\ untold' = untold \ server.notes
  /\ server' = [server EXCEPT !.notes = {}]
  /\ tool' = NoTool
  /\ UNCHANGED index

Deliver ==
  /\ reply # NoReply
  /\ reply' = NoReply
  /\ UNCHANGED <<server, index, tool, untold>>

\* Another process collects the index of the project, or builds it.
Elsewhere ==
  /\ Free
  /\ index' = ~index
  /\ UNCHANGED <<server, tool, reply, untold>>

ServerStep == Initialize \/ Connect \/ Lose \/ Answer \/ Fail \/ Unindexed \/ Build
              \/ Reply \/ Deliver \/ Elsewhere

\* The calls of each surface.
ToolArguments == [op \in DOMAIN Tools |-> Settable(op, Tools[op])]
CommandArguments == [op \in DOMAIN Commands |-> Settable(op, Commands[op])]
MethodArguments == [op \in Operations |-> Settable(op, Params(op))]

ToolsNext ==
  \/ ServerStep
  \/ \E op \in DOMAIN Tools : \E args \in ToolArguments[op] :
       CallTool(op, args) \/ RefuseCall(op, args)
  \/ \E op \in DOMAIN Commands : \E args \in CommandArguments[op] : Command(op, args)
  \/ \E op \in Operations : \E args \in MethodArguments[op] : Method(op, args)

ToolsSpec == ToolsInit /\ [][ToolsNext]_toolVars

-----------------------------------------------------------------------------
(* Properties.                                                             *)

\* Whatever surface a question comes from, and whether the daemon or this
\* process answers it, also after a fall-back or a first index, the engine is
\* asked the same: no parameter is lost, renamed or given another default on
\* the way.  (A name with a comma in a focus list is the known exception: the
\* query string joins lists by commas.)  What a tool is called with counts as it
\* is after the tool's own reading of it: that a limit of 0 means the default to
\* the tool of guards (`or None`) and 1 to its command is not seen here.
SameQuestion ==
  \/ reply.by \in {"none", "refused"}
  \/ reply.by \in {"daemon", "process"} /\ reply.error
  \/ Splits(reply.args) /\ reply.by = "daemon"
  \/ reply.asked = Meant(reply.op, reply.args)

\* mcp_server.py promises never to degrade silently: when a reply has gone out,
\* every fall-back into this process and every first index so far has been told
\* in a reply, also one that reports an error.
DegradationIsSaid == tool = NoTool => untold = {}
===============================================================================
