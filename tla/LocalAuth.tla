------------------------------ MODULE LocalAuth ------------------------------
(***************************************************************************)
(* local_auth.py and the part of daemon.py in front of the routes: the     *)
(* secret that the processes of one home share, created by whichever needs *)
(* it first, the proof a request carries, the cache of the proofs that     *)
(* were used, and the one-time codes and sessions of the dashboard.        *)
(*                                                                         *)
(* A proof is the time it was signed and its nonce, a number.  The clocks  *)
(* of the client and the daemon are one clock, which does not go back.     *)
(* The secret is asked for anew by each proof that is made or checked; of  *)
(* one process the model follows one such call at a time.                  *)
(***************************************************************************)
EXTENDS Naturals, FiniteSets

CONSTANTS Processes,  \* that create or read the secret
          Tokens,     \* the secrets that can be drawn, no two alike
          Daemon,     \* the one that answers
          Handlers,   \* its threads
          Skew, ReplayCap, CodeTtl, SessionTtl, CodeCap, SessionCap,
          MaxProofs, MaxAuthClock  \* bounds of the checks

ASSUME AuthAssumption ==
  /\ Daemon \in Processes /\ {"none", "partial"} \cap Tokens = {}
  /\ {Skew, ReplayCap, CodeTtl, SessionTtl, CodeCap, SessionCap} \subseteq Nat \ {0}

VARIABLES
  authClock,
  secret,   \* the file: "none", "partial", or the secret it holds
  process,  \* of each process: its step in get_or_create_token, what it got
  drawn,    \* the secrets that were drawn for a file
  withdrawn, \* history: those that were readable and then removed again
  used,     \* _ReplayCache: nonce and expiry of the proofs accepted
  browser,  \* codes and sessions with their expiry
  handling, \* the request of each handler
  signed,   \* proofs made so far
  accepted, \* history: nonce and signing time of the proofs accepted
  refused   \* history: the last proof the cache refused, and when

secretVars == <<secret, process, drawn, withdrawn>>
wireVars == <<used, browser, handling, signed, accepted, refused>>
authVars == <<authClock, secretVars, wireVars>>

Nobody == [at |-> "idle", has |-> "none"]
NoRequest == [kind |-> "none"]

AuthInit ==
  /\ authClock = 0
  /\ secret = "none"
  /\ process = [p \in Processes |-> Nobody]
  /\ drawn = {} /\ withdrawn = {}
  /\ used = {}
  /\ browser = [codes |-> {}, sessions |-> {}]
  /\ handling = [h \in Handlers |-> NoRequest]
  /\ signed = 0
  /\ accepted = {} /\ refused = NoRequest

AuthTick ==
  /\ authClock < MaxAuthClock
  /\ authClock' = authClock + 1
  /\ UNCHANGED <<secretVars, wireVars>>

-----------------------------------------------------------------------------
(* get_or_create_token.                                                    *)

Proceed(p, step) == process' = [process EXCEPT ![p].at = step]
Raised(p) == process' = [process EXCEPT ![p] = [at |-> "failed", has |-> "none"]]
Got(p, token) == process' = [process EXCEPT ![p] = [at |-> "done", has |-> token]]

\* secrets.token_urlsafe: a secret that no file has held.
Draw == CHOOSE t \in Tokens : t \notin drawn

\* A complete secret is taken; where there is no file one is made; a file that
\* is not complete yet is read again, a bounded number of times.
ReadSecret(p) ==
  /\ process[p].at = "idle"
  /\ CASE secret = "none" -> Proceed(p, "publish")
       [] secret = "partial" -> UNCHANGED process \/ Raised(p)
       [] OTHER -> Got(p, secret)
  /\ UNCHANGED <<authClock, secret, drawn, withdrawn, wireVars>>

\* Mutant: the name is taken over from another process.
PublishOver(p) ==
  /\ process[p].at = "publish" /\ drawn # Tokens
  /\ secret' = Draw /\ Got(p, Draw) /\ drawn' = drawn \cup {Draw}
  /\ UNCHANGED <<authClock, withdrawn, wireVars>>

\* os.link: the complete temporary file gets the name, unless it is taken.
Publish(p) ==
  /\ process[p].at = "publish" /\ drawn # Tokens
  /\ IF secret = "none"
     THEN secret' = Draw /\ Got(p, Draw) /\ drawn' = drawn \cup {Draw}
     ELSE Proceed(p, "idle") /\ UNCHANGED <<secret, drawn>>
  /\ UNCHANGED <<authClock, withdrawn, wireVars>>

\* Without hard links the file is created under its own name and then written.
CreateDirect(p) ==
  /\ process[p].at = "publish" /\ drawn # Tokens
  /\ IF secret = "none"
     THEN /\ process' = [process EXCEPT ![p] = [at |-> "write", has |-> Draw]]
          /\ secret' = "partial" /\ drawn' = drawn \cup {Draw}
     ELSE Proceed(p, "idle") /\ UNCHANGED <<secret, drawn>>
  /\ UNCHANGED <<authClock, withdrawn, wireVars>>

\* From here the file is complete to every reader.
WriteDirect(p) ==
  /\ process[p].at = "write"
  /\ secret' = process[p].has /\ Proceed(p, "sync")
  /\ UNCHANGED <<authClock, drawn, withdrawn, wireVars>>

\* os.fsync returns.
SyncDirect(p) ==
  /\ process[p].at = "sync"
  /\ Proceed(p, "done")
  /\ UNCHANGED <<authClock, secret, drawn, withdrawn, wireVars>>

\* The temporary file cannot be made, or the file cannot be created.
PublishFails(p) ==
  /\ process[p].at = "publish"
  /\ Raised(p)
  /\ UNCHANGED <<authClock, secret, drawn, withdrawn, wireVars>>

\* Writing or synchronising fails, and the file is removed if that succeeds:
\* after the writing others may have read it.
DirectFails(p) ==
  /\ process[p].at \in {"write", "sync"}
  /\ secret' \in {"none", secret}
  /\ withdrawn' = IF process[p].at = "sync" /\ secret' = "none"
                  THEN withdrawn \cup {secret} ELSE withdrawn
  /\ Raised(p)
  /\ UNCHANGED <<authClock, drawn, wireVars>>

\* The call raised; another one follows.
CallAgain(p) ==
  /\ process[p].at = "failed"
  /\ process' = [process EXCEPT ![p] = Nobody]
  /\ UNCHANGED <<authClock, secret, drawn, withdrawn, wireVars>>

\* A process ends, also between creating the file and writing it, and starts
\* again; what the daemon keeps in memory goes with it.
End(p) ==
  /\ process[p].at \in {"write", "sync", "done", "failed"}
  /\ process' = [process EXCEPT ![p] = Nobody]
  /\ IF p = Daemon
     THEN /\ handling' = [h \in Handlers |-> NoRequest]
          /\ used' = {} /\ browser' = [codes |-> {}, sessions |-> {}]
     ELSE UNCHANGED <<handling, used, browser>>
  /\ accepted' = IF p = Daemon THEN {} ELSE accepted
  /\ refused' = NoRequest
  /\ UNCHANGED <<authClock, secret, drawn, withdrawn, signed>>

-----------------------------------------------------------------------------
(* Requests.                                                               *)

Posts == {"post", "issue", "stop", "page"}
\* What may be wrong with a request before it reaches a route.
Forms == {"fine", "host", "length", "origin", "json", "deadline"}

\* request_headers: the proof is made anew for every attempt, with the secret
\* as it was read for it.
TakeRequest(h, kind, form) ==
  /\ handling[h] = NoRequest /\ signed < MaxProofs
  /\ \E p \in Processes \ {Daemon} :
       /\ process[p].at = "done"
       /\ handling' = [handling EXCEPT ![h] =
            [kind |-> kind, form |-> form, by |-> process[p].has,
             nonce |-> signed, at |-> authClock, now |-> authClock, step |-> "read"]]
       /\ process' = [process EXCEPT ![p] = Nobody]
  /\ signed' = signed + 1
  /\ UNCHANGED <<authClock, secret, drawn, withdrawn, used, browser, accepted, refused>>

\* What the checks before a route look at: the host the request names; the
\* length of the body it announces; where a browser says it comes from; the
\* body itself; and the deadline it asks for.
HostRefused(r) == r.form = "host"
LengthRefused(r) == r.kind \in Posts /\ r.form = "length"
OriginRefused(r) == r.kind \in Posts /\ r.form = "origin"
BodyRefused(r) == r.kind \in Posts /\ r.form = "json"
DeadlineRefused(r) == r.form = "deadline"

\* What do_GET and do_POST answer, in the order of their checks.
Response(r, proven) ==
  IF HostRefused(r) THEN 421
  ELSE IF LengthRefused(r) THEN 400
  ELSE IF ~proven THEN 401
  ELSE IF OriginRefused(r) THEN 403
  ELSE IF BodyRefused(r) \/ DeadlineRefused(r) THEN 400 ELSE 200

\* verify_request reads the time and compares the proof before it asks the
\* cache; the daemon reads the secret as everybody does, for each proof that is
\* fresh.
Examine(h) ==
  LET r == handling[h]
      fresh == Response(r, FALSE) = 401 /\ authClock - r.at <= Skew
      mine == process[Daemon].at = "done" /\ process[Daemon].has = r.by
  IN /\ r # NoRequest /\ r.step = "read" /\ r.kind # "page"
     /\ fresh => process[Daemon].at \in {"done", "failed"}
     /\ process' = IF fresh THEN [process EXCEPT ![Daemon] = Nobody] ELSE process
     /\ handling' = [handling EXCEPT ![h] =
          IF fresh /\ mine THEN [r EXCEPT !.step = "accept", !.now = authClock]
                           ELSE NoRequest]
     /\ UNCHANGED <<authClock, secret, drawn, withdrawn, used, browser, signed, accepted, refused>>

\* Mutant: expired proofs stay.
PrunedNever(now) == used
Pruned(now) == {u \in used : u.expires >= now}

\* A bounded store makes room by dropping what expires first.
RoomIn(s, cap) == IF Cardinality(s) < cap THEN s
                  ELSE s \ {CHOOSE x \in s : \A y \in s : x.expires <= y.expires}
Live(s) == {x \in s : x.expires >= authClock}

\* BrowserSessionStore.issue, by the route of the dashboard's code.
Issued(r) ==
  IF r.kind = "issue" /\ Response(r, TRUE) = 200
  THEN [codes |-> RoomIn(Live(browser.codes), CodeCap)
                  \cup {[id |-> r.nonce, expires |-> authClock + CodeTtl]},
        sessions |-> Live(browser.sessions)]
  ELSE browser

\* _ReplayCache.accept, then the checks that follow and the route.
Accept(h) ==
  LET r == handling[h]
      kept == Pruned(r.now)
      ok == Cardinality(kept) < ReplayCap /\ \A u \in kept : u.nonce # r.nonce
  IN /\ r # NoRequest /\ r.step = "accept"
     /\ used' = IF ok THEN kept \cup {[nonce |-> r.nonce, expires |-> r.at + Skew]}
                ELSE kept
     /\ accepted' = IF ok THEN accepted \cup {[nonce |-> r.nonce, at |-> r.at]} ELSE accepted
     /\ refused' = IF ok THEN NoRequest ELSE r
     /\ browser' = IF ok THEN Issued(r) ELSE browser
     /\ handling' = [handling EXCEPT ![h] = NoRequest]
     /\ UNCHANGED <<authClock, secretVars, signed>>

\* GET /_session: the code is used up and becomes a session.
Consume(code) ==
  /\ \E c \in browser.codes : c.id = code
  /\ LET known == {c \in Live(browser.codes) : c.id = code}
     IN browser' = [codes |-> Live(browser.codes) \ known,
                    sessions |-> IF known = {} THEN Live(browser.sessions)
                                 ELSE RoomIn(Live(browser.sessions), SessionCap)
                                      \cup {[id |-> code, expires |-> authClock + SessionTtl]}]
  /\ UNCHANGED <<authClock, secretVars, used, handling, signed, accepted, refused>>

\* A request of the page: the session is good for another while, also when the
\* request is refused by a later check.
Page(session, form) ==
  /\ \E s \in browser.sessions : s.id = session
  /\ Response([kind |-> "page", form |-> form], TRUE) # 421
  /\ browser' = [codes |-> Live(browser.codes),
                 sessions |-> {[s EXCEPT !.expires = IF s.id = session
                                  THEN authClock + SessionTtl ELSE @] :
                               s \in Live(browser.sessions)}]
  /\ UNCHANGED <<authClock, secretVars, used, handling, signed, accepted, refused>>

AuthNext ==
  \/ AuthTick
  \/ \E p \in Processes :
       \/ ReadSecret(p) \/ Publish(p) \/ PublishFails(p) \/ CreateDirect(p)
       \/ WriteDirect(p) \/ SyncDirect(p) \/ DirectFails(p) \/ CallAgain(p) \/ End(p)
  \/ \E h \in Handlers :
       \/ Examine(h) \/ Accept(h)
       \/ \E kind \in {"get", "post", "issue", "stop"}, form \in Forms : TakeRequest(h, kind, form)
  \/ \E n \in 0..(MaxProofs - 1) : Consume(n) \/ \E form \in {"fine", "host"} : Page(n, form)

AuthSpec == AuthInit /\ [][AuthNext]_authVars

-----------------------------------------------------------------------------
(* Properties.                                                             *)

\* _publish_token: "Publish one complete secret without replacing a concurrent
\* winner": all processes that got a secret got the one in the file, however
\* many created it at the same time or ended while they did.  Known gap: a
\* secret written in place was readable before it failed and was removed.
OneSecret ==
  \A p \in Processes :
    process[p].at = "done" => process[p].has = secret \/ process[p].has \in withdrawn

\* A fresh proof made with the shared secret is refused only when the cache is
\* full of proofs that could still be sent again: what has expired makes room.
RefusedOnlyWhenFull ==
  refused # NoRequest =>
    Cardinality({a \in accepted : a.at + Skew >= refused.now}) >= ReplayCap
===============================================================================
