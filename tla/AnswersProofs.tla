---------------------------- MODULE AnswersProofs ----------------------------
(***************************************************************************)
(* Theorems about the parts that make and deliver one answer: the local    *)
(* authentication, the reference edges, the search for duplicates, the     *)
(* calls of the tools and the questions they ask, the co-change counts,    *)
(* the map cache and the reviews.  They share no state and each has its    *)
(* own specification; the theorems hold for any number of processes and    *)
(* calls and any values of the limits.  Where one is about sequences of    *)
(* any length, induction is taken from the least element of a set.         *)
(***************************************************************************)
EXTENDS LocalAuth, ReferenceEdges, Duplicates, ToolCalls, CoChange, MapCache,
        Review, Integers, FiniteSetTheorems, SequenceTheorems, WellFoundedInduction, TLAPS

(***************************************************************************)
(* LocalAuth: one secret, and refusals only when the replay cache is full. *)
(***************************************************************************)
-----------------------------------------------------------------------------
(* The secret.                                                             *)

SecretSteps == {"idle", "publish", "write", "sync", "done", "failed"}
Writers == {p \in Processes : process[p].at \in {"write", "sync"}}

\* A process that has created the file in place is alone until it has synchronised
\* it or failed, and what a process has taken is what the file holds or held.
SecretInv ==
  /\ process \in [Processes -> [at : SecretSteps, has : Tokens \cup {"none"}]]
  /\ secret \in Tokens \cup {"none", "partial"}
  /\ drawn \subseteq Tokens
  /\ \A p \in Processes :
       /\ process[p].at = "write" => secret = "partial"
       /\ process[p].at = "sync" => secret = process[p].has
       /\ process[p].at \in {"write", "sync", "done"} => process[p].has \in Tokens
       /\ process[p].at = "done" => process[p].has = secret \/ process[p].has \in withdrawn
  /\ \A p, q \in Writers : p = q

\* The secret that is drawn is one.
LEMMA DrawIsToken == SecretInv /\ drawn # Tokens => Draw \in Tokens
BY DEF SecretInv, Draw

\* Only the process p moves, into a step that does not write, and the file stays.
LEMMA SecretStays ==
  ASSUME SecretInv, NEW p \in Processes, UNCHANGED <<secret, drawn, withdrawn>>,
         NEW r \in [at : SecretSteps, has : Tokens \cup {"none"}],
         process' = [process EXCEPT ![p] = r],
         r.at \notin {"write", "sync"},
         r.at = "done" => r.has \in Tokens /\ (r.has = secret \/ r.has \in withdrawn)
  PROVE  SecretInv'
<1>1. \A q \in Processes : process'[q] = IF q = p THEN r ELSE process[q]
  BY DEF SecretInv
<1>2. process' \in [Processes -> [at : SecretSteps, has : Tokens \cup {"none"}]]
  BY DEF SecretInv
<1>3. Writers' \subseteq Writers
  BY <1>1 DEF Writers
<1>q. QED BY <1>1, <1>2, <1>3 DEF SecretInv

LEMMA StepKeepsSecret == SecretInv /\ [AuthNext]_authVars => SecretInv'
<1>. SUFFICES ASSUME SecretInv, [AuthNext]_authVars PROVE SecretInv'
  OBVIOUS
<1>. USE AuthAssumption
<1>a. Nobody \in [at : SecretSteps, has : Tokens \cup {"none"}] /\ Nobody.at = "idle"
  BY DEF Nobody, SecretSteps
<1>b. ASSUME NEW p \in Processes, UNCHANGED <<secret, drawn, withdrawn>>,
             process' = [process EXCEPT ![p] = Nobody]
      PROVE  SecretInv'
  BY <1>a, <1>b, SecretStays
<1>c. ASSUME NEW p \in Processes, UNCHANGED <<secret, drawn, withdrawn>>,
             Raised(p) \/ (\E step \in {"idle", "publish"} : Proceed(p, step))
      PROVE  SecretInv'
  <2>1. CASE Raised(p)
    BY <1>c, <2>1, SecretStays DEF Raised, SecretSteps
  <2>2. ASSUME NEW step \in {"idle", "publish"}, Proceed(p, step) PROVE SecretInv'
    <3>. DEFINE r == [process[p] EXCEPT !.at = step]
    <3>1. r \in [at : SecretSteps, has : Tokens \cup {"none"}] /\ r.at = step
      BY DEF SecretInv, SecretSteps
    <3>2. process' = [process EXCEPT ![p] = r]
      BY <2>2 DEF Proceed
    <3>q. QED BY <1>c, <3>1, <3>2, SecretStays
  <2>q. QED BY <1>c, <2>1, <2>2
<1>1. CASE UNCHANGED secretVars
  BY <1>1 DEF SecretInv, secretVars, Writers
<1>2. ASSUME NEW p \in Processes, ReadSecret(p) PROVE SecretInv'
  <2>1. CASE secret = "none"
    BY <1>2, <1>c, <2>1 DEF ReadSecret
  <2>2. CASE secret = "partial"
    <3>1. CASE UNCHANGED process
      BY <1>2, <1>1, <2>2, <3>1 DEF ReadSecret, secretVars
    <3>q. QED BY <1>2, <1>c, <2>2, <3>1 DEF ReadSecret
  <2>3. CASE secret \notin {"none", "partial"}
    <3>1. process' = [process EXCEPT ![p] = [at |-> "done", has |-> secret]]
      BY <1>2, <2>3 DEF ReadSecret, Got
    <3>2. secret \in Tokens /\ UNCHANGED <<secret, drawn, withdrawn>>
      BY <1>2, <2>3 DEF ReadSecret, SecretInv
    <3>q. QED BY <3>1, <3>2, SecretStays DEF SecretSteps
  <2>q. QED BY <2>1, <2>2, <2>3
<1>3. ASSUME NEW p \in Processes, Publish(p) PROVE SecretInv'
  <2>1. CASE secret = "none"
    <3>1. process' = [process EXCEPT ![p] = [at |-> "done", has |-> Draw]] /\ secret' = Draw
          /\ drawn' = drawn \cup {Draw} /\ UNCHANGED withdrawn /\ Draw \in Tokens
      BY <1>3, <2>1, DrawIsToken DEF Publish, Got
    <3>2. Writers = {} /\ \A q \in Processes : process[q].at = "done" => process[q].has \in withdrawn
      BY <2>1 DEF SecretInv, Writers
    <3>3. \A q \in Processes : process'[q] = IF q = p THEN [at |-> "done", has |-> Draw] ELSE process[q]
      BY <3>1 DEF SecretInv
    <3>4. process' \in [Processes -> [at : SecretSteps, has : Tokens \cup {"none"}]]
      BY <3>1 DEF SecretInv, SecretSteps
    <3>5. Writers' = {}
      BY <3>2, <3>3 DEF Writers
    <3>q. QED BY <3>1, <3>2, <3>3, <3>4, <3>5 DEF SecretInv, Writers
  <2>2. CASE secret # "none"
    BY <1>3, <1>c, <2>2 DEF Publish
  <2>q. QED BY <2>1, <2>2
<1>4. ASSUME NEW p \in Processes, CreateDirect(p) PROVE SecretInv'
  <2>1. CASE secret = "none"
    <3>1. process' = [process EXCEPT ![p] = [at |-> "write", has |-> Draw]] /\ secret' = "partial"
          /\ drawn' = drawn \cup {Draw} /\ UNCHANGED withdrawn /\ Draw \in Tokens
      BY <1>4, <2>1, DrawIsToken DEF CreateDirect
    <3>2. Writers = {} /\ \A q \in Processes : process[q].at = "done" => process[q].has \in withdrawn
      BY <2>1 DEF SecretInv, Writers
    <3>3. \A q \in Processes : process'[q] = IF q = p THEN [at |-> "write", has |-> Draw] ELSE process[q]
      BY <3>1 DEF SecretInv
    <3>4. process' \in [Processes -> [at : SecretSteps, has : Tokens \cup {"none"}]]
      BY <3>1 DEF SecretInv, SecretSteps
    <3>5. Writers' = {p}
      BY <3>2, <3>3 DEF Writers
    <3>q. QED BY <3>1, <3>2, <3>3, <3>4, <3>5 DEF SecretInv, Writers
  <2>2. CASE secret # "none"
    BY <1>4, <1>c, <2>2 DEF CreateDirect
  <2>q. QED BY <2>1, <2>2
<1>5. ASSUME NEW p \in Processes, WriteDirect(p) PROVE SecretInv'
  <2>1. p \in Writers /\ secret = "partial" /\ process[p].has \in Tokens
    BY <1>5 DEF WriteDirect, SecretInv, Writers
  <2>2. \A q \in Processes : process'[q] = IF q = p THEN [process[p] EXCEPT !.at = "sync"] ELSE process[q]
    BY <1>5 DEF WriteDirect, Proceed, SecretInv
  <2>3. process' \in [Processes -> [at : SecretSteps, has : Tokens \cup {"none"}]]
    BY <1>5 DEF WriteDirect, Proceed, SecretInv, SecretSteps
  <2>4. \A q \in Processes : /\ process[q].at = "done" => process[q].has \in withdrawn
                            /\ q # p => process[q].at \notin {"write", "sync"}
    BY <2>1 DEF SecretInv, Writers
  <2>5. Writers' \subseteq {p}
    BY <2>2, <2>4 DEF Writers
  <2>6. secret' = process[p].has /\ UNCHANGED <<drawn, withdrawn>>
    BY <1>5 DEF WriteDirect
  <2>7. process'[p].at = "sync" /\ process'[p].has = process[p].has
    BY <2>2 DEF SecretInv
  <2>q. QED BY <2>1, <2>2, <2>3, <2>4, <2>5, <2>6, <2>7 DEF SecretInv
<1>6. ASSUME NEW p \in Processes, SyncDirect(p) PROVE SecretInv'
  <2>. DEFINE r == [process[p] EXCEPT !.at = "done"]
  <2>1. r \in [at : SecretSteps, has : Tokens \cup {"none"}] /\ r.at = "done" /\ r.has = process[p].has
    BY DEF SecretInv, SecretSteps
  <2>2. process' = [process EXCEPT ![p] = r] /\ UNCHANGED <<secret, drawn, withdrawn>>
    BY <1>6 DEF SyncDirect, Proceed
  <2>3. r.has \in Tokens /\ r.has = secret
    BY <1>6, <2>1 DEF SyncDirect, SecretInv
  <2>q. QED BY <2>1, <2>2, <2>3, SecretStays
<1>7. ASSUME NEW p \in Processes, DirectFails(p) PROVE SecretInv'
  <2>1. p \in Writers /\ process[p].at \in {"write", "sync"}
    BY <1>7 DEF DirectFails, Writers
  <2>2. \A q \in Processes : process'[q] = IF q = p THEN [at |-> "failed", has |-> "none"] ELSE process[q]
    BY <1>7 DEF DirectFails, Raised, SecretInv
  <2>3. process' \in [Processes -> [at : SecretSteps, has : Tokens \cup {"none"}]]
    BY <1>7 DEF DirectFails, Raised, SecretInv, SecretSteps
  <2>4. \A q \in Processes : q # p => process[q].at \notin {"write", "sync"}
    BY <2>1 DEF SecretInv, Writers
  <2>5. Writers' = {}
    BY <2>2, <2>4 DEF Writers
  <2>6. \A q \in Processes : process'[q].at = "done" =>
          process'[q].has = secret' \/ process'[q].has \in withdrawn'
    BY <1>7, <2>1, <2>2 DEF DirectFails, SecretInv
  <2>7. secret' \in Tokens \cup {"none", "partial"} /\ drawn' = drawn
    BY <1>7 DEF DirectFails, SecretInv
  <2>q. QED BY <2>2, <2>3, <2>4, <2>5, <2>6, <2>7 DEF SecretInv
<1>8. ASSUME NEW p \in Processes, CallAgain(p) \/ End(p) PROVE SecretInv'
  BY <1>8, <1>b DEF CallAgain, End
<1>9. ASSUME NEW p \in Processes, PublishFails(p) PROVE SecretInv'
  BY <1>9, <1>c DEF PublishFails
<1>10. ASSUME NEW h \in Handlers, NEW kind, NEW form, TakeRequest(h, kind, form) PROVE SecretInv'
  BY <1>10, <1>b DEF TakeRequest
<1>11. ASSUME NEW h \in Handlers, Examine(h) PROVE SecretInv'
  <2>1. CASE UNCHANGED process
    BY <1>1, <1>11, <2>1 DEF Examine, secretVars
  <2>2. CASE process' = [process EXCEPT ![Daemon] = Nobody]
    BY <1>b, <1>11, <2>2 DEF Examine
  <2>q. QED BY <1>11, <2>1, <2>2 DEF Examine
<1>12. ASSUME AuthTick \/ (\E h \in Handlers : Accept(h))
              \/ \E n \in 0..(MaxProofs - 1) : Consume(n) \/ \E form \in {"fine", "host"} : Page(n, form)
       PROVE  SecretInv'
  BY <1>12, <1>1 DEF AuthTick, Accept, Consume, Page
<1>13. CASE UNCHANGED authVars
  BY <1>1, <1>13 DEF authVars
<1>q. QED BY <1>2, <1>3, <1>4, <1>5, <1>6, <1>7, <1>8, <1>9, <1>10, <1>11, <1>12, <1>13 DEF AuthNext

\* Whatever secret a process was given is the one in the file, whoever creates it, with
\* hard links or without, and whenever processes end; or it was removed again when
\* writing it in place failed.
THEOREM OneSecretCorrect == AuthSpec => []OneSecret
<1>1. AuthInit => SecretInv
  BY DEF AuthInit, SecretInv, Nobody, SecretSteps, Writers
<1>2. SecretInv => OneSecret
  BY DEF SecretInv, OneSecret
<1>q. QED BY <1>1, <1>2, StepKeepsSecret, PTL DEF AuthSpec

-----------------------------------------------------------------------------
(* The cache of used proofs.                                               *)

ProofRequest ==
  [kind : {"get"} \cup Posts, form : Forms, by : Tokens \cup {"none"}, nonce : Nat,
   at : Nat, now : Nat, step : {"read", "accept"}]

\* The proofs of the cache are proofs that were accepted; no nonce is made twice; the
\* histories are finite.
ReplayInv ==
  /\ authClock \in Nat /\ signed \in Nat
  /\ handling \in [Handlers -> ProofRequest \cup {NoRequest}]
  /\ accepted \subseteq [nonce : Nat, at : Nat] /\ IsFiniteSet(accepted)
  /\ used \subseteq [nonce : Nat, expires : Nat]
  /\ \A u \in used : \E a \in accepted : a.nonce = u.nonce /\ a.at + Skew = u.expires
  /\ \A u \in used : u.nonce < signed
  /\ \A h \in Handlers : handling[h] # NoRequest =>
       /\ handling[h].nonce < signed
       /\ \A u \in used : u.nonce # handling[h].nonce
       /\ \A g \in Handlers \ {h} : handling[g] # NoRequest => handling[g].nonce # handling[h].nonce
  /\ \A h \in Handlers : handling[h] # NoRequest => handling[h] \in ProofRequest
  /\ RefusedOnlyWhenFull

LEMMA RequestIsNot == NoRequest \notin ProofRequest
BY DEF NoRequest, ProofRequest, Posts

\* Pruned to time t, the cache has no more proofs than were accepted and are still good.
LEMMA CacheCounts ==
  ASSUME ReplayInv, NEW t \in Nat
  PROVE  LET kept == Pruned(t)
             good == {a \in accepted : a.at + Skew >= t}
         IN  /\ IsFiniteSet(kept) /\ IsFiniteSet(good)
             /\ Cardinality(kept) <= Cardinality(good)
<1>. DEFINE kept == Pruned(t)
            good == {a \in accepted : a.at + Skew >= t}
            origin == [u \in kept |-> CHOOSE a \in good : a.nonce = u.nonce /\ a.at + Skew = u.expires]
<1>1. IsFiniteSet(good)
  BY FS_Subset DEF ReplayInv
<1>2. \A u \in kept : /\ origin[u] \in good /\ origin[u].nonce = u.nonce
                      /\ origin[u].at + Skew = u.expires
  BY DEF Pruned, ReplayInv
<1>3. \A u, v \in kept : origin[u] = origin[v] => u = v
  <2>1. kept \subseteq [nonce : Nat, expires : Nat]
    BY DEF Pruned, ReplayInv
  <2>2. \A u, v \in kept : u.nonce = v.nonce /\ u.expires = v.expires => u = v
    BY <2>1
  <2>q. QED BY <1>2, <2>2
<1>4. origin \in Injection(kept, good)
  BY <1>2, <1>3 DEF Injection, IsInjective
<1>q. QED BY <1>1, <1>4, FS_Injection

LEMMA AcceptKeepsReplay ==
  ASSUME ReplayInv, NEW h \in Handlers, Accept(h)
  PROVE  ReplayInv'
<1>. USE AuthAssumption
<1>. DEFINE r == handling[h]
            kept == Pruned(r.now)
            ok == Cardinality(kept) < ReplayCap /\ \A u \in kept : u.nonce # r.nonce
            fresh == [nonce |-> r.nonce, expires |-> r.at + Skew]
            proof == [nonce |-> r.nonce, at |-> r.at]
<1>1. r \in ProofRequest /\ r # NoRequest /\ r.nonce < signed /\ \A u \in used : u.nonce # r.nonce
  BY DEF Accept, ReplayInv
<1>2. kept \subseteq used
  BY DEF Pruned
<1>3. /\ handling' = [handling EXCEPT ![h] = NoRequest]
      /\ UNCHANGED <<authClock, signed>>
  BY DEF Accept
<1>4. /\ used' \subseteq kept \cup {fresh} /\ accepted \subseteq accepted'
      /\ accepted' \subseteq accepted \cup {proof}
      /\ fresh \in used' => proof \in accepted' \/ fresh \in kept
  BY DEF Accept
<1>5. fresh \in [nonce : Nat, expires : Nat] /\ proof \in [nonce : Nat, at : Nat]
  BY <1>1 DEF ProofRequest
<1>6. IsFiniteSet(accepted')
  BY <1>4, FS_AddElement, FS_Subset DEF ReplayInv
<1>7. \A g \in Handlers : handling'[g] # NoRequest => g # h /\ handling'[g] = handling[g]
  BY <1>3 DEF ReplayInv
<1>8. RefusedOnlyWhenFull'
  <2>1. CASE ok
    <3>1. refused' = NoRequest
      BY <2>1 DEF Accept
    <3>q. QED BY <3>1 DEF RefusedOnlyWhenFull
  <2>2. CASE ~ok
    <3>1. refused' = r /\ accepted' = accepted
      BY <2>2 DEF Accept
    <3>2. r.now \in Nat
      BY <1>1 DEF ProofRequest
    <3>3. /\ IsFiniteSet(kept) /\ IsFiniteSet({a \in accepted : a.at + Skew >= r.now})
          /\ Cardinality(kept) <= Cardinality({a \in accepted : a.at + Skew >= r.now})
      BY <3>2, CacheCounts
    <3>4. ~(Cardinality(kept) < ReplayCap)
      BY <1>1, <1>2, <2>2
    <3>5. Cardinality(kept) \in Nat /\ Cardinality({a \in accepted : a.at + Skew >= r.now}) \in Nat
      BY <3>3, FS_CardinalityType
    <3>6. Cardinality({a \in accepted : a.at + Skew >= r.now}) >= ReplayCap
      BY <3>3, <3>4, <3>5
    <3>q. QED BY <3>1, <3>6 DEF RefusedOnlyWhenFull
  <2>q. QED BY <2>1, <2>2
<1>9. /\ accepted' \subseteq [nonce : Nat, at : Nat]
      /\ used' \subseteq [nonce : Nat, expires : Nat]
  BY <1>2, <1>4, <1>5 DEF ReplayInv
<1>10. \A u \in used' : \E a \in accepted' : a.nonce = u.nonce /\ a.at + Skew = u.expires
  <2>1. ASSUME NEW u \in used', u \in kept
        PROVE  \E a \in accepted' : a.nonce = u.nonce /\ a.at + Skew = u.expires
    BY <1>2, <1>4, <2>1 DEF ReplayInv
  <2>2. ASSUME fresh \in used', fresh \notin kept
        PROVE  \E a \in accepted' : a.nonce = fresh.nonce /\ a.at + Skew = fresh.expires
    BY <1>4, <2>2
  <2>q. QED BY <1>4, <2>1, <2>2
<1>11. \A u \in used' : u.nonce < signed' /\ (u \in used \/ u.nonce = r.nonce)
  BY <1>1, <1>2, <1>3, <1>4 DEF ReplayInv
<1>12. \A g \in Handlers : handling'[g] # NoRequest =>
         /\ handling'[g].nonce < signed'
         /\ \A u \in used' : u.nonce # handling'[g].nonce
         /\ \A i \in Handlers \ {g} :
              handling'[i] # NoRequest => handling'[i].nonce # handling'[g].nonce
  BY <1>1, <1>3, <1>7, <1>11 DEF ReplayInv
<1>13. /\ handling' \in [Handlers -> ProofRequest \cup {NoRequest}]
       /\ \A g \in Handlers : handling'[g] # NoRequest => handling'[g] \in ProofRequest
  BY <1>3, <1>7 DEF ReplayInv
<1>q. QED BY <1>3, <1>6, <1>8, <1>9, <1>10, <1>11, <1>12, <1>13 DEF ReplayInv

\* The handler h takes the request r, or is free again.
LEMMA Handled ==
  ASSUME ReplayInv, NEW h \in Handlers, NEW r \in ProofRequest \cup {NoRequest},
         handling' = [handling EXCEPT ![h] = r],
         signed' \in Nat, signed' >= signed, UNCHANGED <<authClock, used, accepted, refused>>,
         r # NoRequest => /\ r.nonce < signed'
                          /\ \A u \in used : u.nonce # r.nonce
                          /\ \A g \in Handlers \ {h} :
                               handling[g] # NoRequest => handling[g].nonce # r.nonce
  PROVE  ReplayInv'
<1>1. \A g \in Handlers : handling'[g] = IF g = h THEN r ELSE handling[g]
  BY DEF ReplayInv
<1>2. \A g \in Handlers : handling[g] # NoRequest => handling[g].nonce < signed'
  BY DEF ReplayInv, ProofRequest
<1>3. \A g \in Handlers : handling'[g] # NoRequest =>
        /\ handling'[g].nonce < signed'
        /\ \A u \in used' : u.nonce # handling'[g].nonce
        /\ \A i \in Handlers \ {g} :
             handling'[i] # NoRequest => handling'[i].nonce # handling'[g].nonce
  BY <1>1, <1>2 DEF ReplayInv
<1>4. \A u \in used' : u.nonce < signed'
  BY DEF ReplayInv
<1>5. /\ handling' \in [Handlers -> ProofRequest \cup {NoRequest}]
      /\ \A g \in Handlers : handling'[g] # NoRequest => handling'[g] \in ProofRequest
  BY <1>1 DEF ReplayInv
<1>q. QED BY <1>3, <1>4, <1>5 DEF ReplayInv, RefusedOnlyWhenFull

LEMMA StepKeepsReplay == SecretInv /\ ReplayInv /\ [AuthNext]_authVars => ReplayInv'
<1>. SUFFICES ASSUME SecretInv, ReplayInv, [AuthNext]_authVars PROVE ReplayInv'
  OBVIOUS
<1>. USE AuthAssumption
<1>1. CASE UNCHANGED <<used, handling, signed, accepted, refused>> /\ authClock' \in Nat
  BY <1>1 DEF ReplayInv, RefusedOnlyWhenFull
<1>2. ASSUME NEW p \in Processes, End(p) PROVE ReplayInv'
  <2>1. CASE p = Daemon
    <3>1. handling' = [h \in Handlers |-> NoRequest] /\ used' = {} /\ accepted' = {}
          /\ refused' = NoRequest /\ UNCHANGED <<authClock, signed>>
      BY <1>2, <2>1 DEF End
    <3>q. QED BY <3>1, FS_EmptySet DEF ReplayInv, RefusedOnlyWhenFull
  <2>2. CASE p # Daemon
    <3>1. UNCHANGED <<handling, used, accepted, authClock, signed>> /\ refused' = NoRequest
      BY <1>2, <2>2 DEF End
    <3>q. QED BY <3>1 DEF ReplayInv, RefusedOnlyWhenFull
  <2>q. QED BY <2>1, <2>2
<1>3. ASSUME NEW h \in Handlers, NEW kind \in {"get", "post", "issue", "stop"}, NEW form \in Forms,
             TakeRequest(h, kind, form)
      PROVE  ReplayInv'
  <2>1. PICK p \in Processes \ {Daemon} :
          /\ process[p].at = "done"
          /\ handling' = [handling EXCEPT ![h] =
               [kind |-> kind, form |-> form, by |-> process[p].has,
                nonce |-> signed, at |-> authClock, now |-> authClock, step |-> "read"]]
    BY <1>3 DEF TakeRequest
  <2>. DEFINE r == [kind |-> kind, form |-> form, by |-> process[p].has, nonce |-> signed,
                    at |-> authClock, now |-> authClock, step |-> "read"]
  <2>2. r \in ProofRequest /\ r.nonce = signed
    BY <2>1 DEF ProofRequest, Posts, SecretInv, ReplayInv
  <2>3. /\ signed' = signed + 1 /\ UNCHANGED <<authClock, used, accepted, refused>>
        /\ handling' = [handling EXCEPT ![h] = r]
    BY <1>3, <2>1 DEF TakeRequest
  <2>4. \A u \in used : u.nonce # signed
    BY DEF ReplayInv
  <2>5. \A g \in Handlers : handling[g] # NoRequest => handling[g].nonce # signed
    BY DEF ReplayInv
  <2>6. signed' \in Nat /\ signed' > signed /\ signed' >= signed
    BY <2>3 DEF ReplayInv
  <2>. HIDE DEF r
  <2>q. QED BY <2>2, <2>3, <2>4, <2>5, <2>6, Handled
<1>4. ASSUME NEW h \in Handlers, Examine(h) PROVE ReplayInv'
  <2>1. handling[h] \in ProofRequest /\ UNCHANGED <<authClock, used, accepted, refused, signed>>
    BY <1>4 DEF Examine, ReplayInv
  <2>. DEFINE s == [handling[h] EXCEPT !.step = "accept", !.now = authClock]
  <2>2. s \in ProofRequest /\ s.nonce = handling[h].nonce
    BY <2>1 DEF ProofRequest, ReplayInv
  <2>3. handling' = [handling EXCEPT ![h] = s] \/ handling' = [handling EXCEPT ![h] = NoRequest]
    BY <1>4 DEF Examine
  <2>4. handling[h] # NoRequest /\ signed' \in Nat /\ signed' >= signed
    BY <1>4, <2>1 DEF Examine, ReplayInv
  <2>. HIDE DEF s
  <2>5. CASE handling' = [handling EXCEPT ![h] = s]
    <3>1. /\ s.nonce < signed' /\ \A u \in used : u.nonce # s.nonce
          /\ \A g \in Handlers \ {h} : handling[g] # NoRequest => handling[g].nonce # s.nonce
      BY <2>1, <2>2, <2>4 DEF ReplayInv
    <3>q. QED BY <2>1, <2>2, <2>4, <2>5, <3>1, Handled
  <2>6. CASE handling' = [handling EXCEPT ![h] = NoRequest]
    BY <2>1, <2>4, <2>6, Handled
  <2>q. QED BY <2>3, <2>5, <2>6
<1>5. CASE AuthTick
  BY <1>1, <1>5 DEF AuthTick, wireVars, ReplayInv
<1>6. ASSUME NEW p \in Processes,
             \/ ReadSecret(p) \/ Publish(p) \/ PublishFails(p) \/ CreateDirect(p)
             \/ WriteDirect(p) \/ SyncDirect(p) \/ DirectFails(p) \/ CallAgain(p)
      PROVE  ReplayInv'
  <2>1. UNCHANGED <<authClock, wireVars>>
    BY <1>6 DEF ReadSecret, Publish, PublishFails, CreateDirect, WriteDirect, SyncDirect,
                DirectFails, CallAgain
  <2>q. QED BY <1>1, <2>1 DEF wireVars, ReplayInv
<1>7. ASSUME NEW n, Consume(n) \/ \E form \in {"fine", "host"} : Page(n, form) PROVE ReplayInv'
  BY ZenonT(30), <1>1, <1>7 DEF Consume, Page, ReplayInv
<1>8. CASE UNCHANGED authVars
  BY <1>1, <1>8 DEF authVars, wireVars, ReplayInv
<1>q. QED BY <1>2, <1>3, <1>4, <1>5, <1>6, <1>7, <1>8, AcceptKeepsReplay DEF AuthNext

\* A good proof is turned away only for want of room: as many proofs as the cache holds
\* have been accepted and could still be sent again.
THEOREM RefusalsCorrect == AuthSpec => []RefusedOnlyWhenFull
<1>1. AuthInit => SecretInv /\ ReplayInv
  BY FS_EmptySet, AuthAssumption
     DEF AuthInit, SecretInv, SecretSteps, Writers, Nobody, ReplayInv, RefusedOnlyWhenFull
<1>2. ReplayInv => RefusedOnlyWhenFull
  BY DEF ReplayInv
<1>q. QED BY <1>1, <1>2, StepKeepsSecret, StepKeepsReplay, PTL DEF AuthSpec

(***************************************************************************)
(* ReferenceEdges: the generation fence of replace_refs_for_symbol and the *)
(* deletions of the indexer keep every stored edge on the rows it was      *)
(* resolved against.                                                       *)
(***************************************************************************)

\* An index transaction is announced before the bound is used up.
RoomToIndex == indexer.busy => gen < MaxGeneration

\* A call that holds a pinned generation pinned it in the past, and if no
\* transaction has happened since, the rows are those it has seen.
Fence ==
  \A r \in Resolvers :
    call[r].step \in {"pinned", "storing"}
      => /\ call[r].gen <= gen
         /\ call[r].gen = gen => call[r].seen = row

CallRecord == [step : Steps, symbol : Symbols, digest : Digests,
               gen : 0..MaxGeneration,
               seen : [Files -> Contents \cup {Absent}],
               found : SUBSET Callers, todo : SUBSET Callers, stored : BOOLEAN]

\* The inductive invariant.
EdgesInv == TypeOK /\ RoomToIndex /\ Fence /\ EdgesOfTheseRows

\* The value of a call that is not running has the type of calls.
LEMMA NoCallType == NoCall \in CallRecord
  BY EdgesAssumption DEF CallRecord, NoCall, Steps, Digests

\* What a sweep and a resolution return.
LEMMA SweepType ==
  ASSUME TypeOK, NEW s \in Symbols
  PROVE  /\ Sweep(s) \in Digests
         /\ Resolved(s) \in SUBSET Callers
<1>1. \A f \in Files : disk[f] \in Contents \cup {Absent}
  BY DEF TypeOK
<1>2. Sweep(s) \in Digests
  BY <1>1 DEF Sweep, Digests, Has, Defined
<1>3. Resolved(s) \in SUBSET Callers
  BY DEF Resolved
<1> QED BY <1>2, <1>3

\* The invariant holds at the start.
LEMMA EdgesInit == Init => EdgesInv
<1> SUFFICES ASSUME Init PROVE EdgesInv
  OBVIOUS
<1> USE EdgesAssumption DEF Init
<1>1. TypeOK
  BY NoCallType DEF TypeOK, NoFile, Files, CallRecord
<1>2. RoomToIndex
  BY DEF RoomToIndex, NoFile
<1>3. Fence
  BY DEF Fence, NoCall
<1>4. EdgesOfTheseRows
  BY DEF EdgesOfTheseRows
<1> QED BY <1>1, <1>2, <1>3, <1>4 DEF EdgesInv
-----------------------------------------------------------------------------
(* Steps that touch the index.                                             *)

LEMMA StoreStep ==
  ASSUME EdgesInv, indexer.busy,
         row' = [row EXCEPT ![indexer.file] = indexer.content],
         DeleteEdges(indexer.file), DeleteMarks(indexer.file),
         gen' = gen + 1, indexer' = NoFile, UNCHANGED <<disk, edits, call>>
  PROVE  EdgesInv'
<1> USE EdgesAssumption DEF EdgesInv
<1>1. gen + 1 \in 0..MaxGeneration
  BY DEF RoomToIndex, TypeOK
<1>2. /\ indexer.file \in Files /\ indexer.content \in Contents \cup {Absent}
      /\ \A r \in Resolvers : call[r].gen \in 0..MaxGeneration
  BY DEF TypeOK
<1>3. row' \in [Files -> Contents \cup {Absent}]
  BY <1>2 DEF TypeOK
<1>4. refs' \subseteq refs /\ mark' \in [Symbols -> SUBSET Digests]
  BY DEF DeleteEdges, DeleteMarks, TypeOK
<1>5. NoFile \in [file : Files, content : Contents \cup {Absent}, busy : BOOLEAN]
  BY DEF NoFile, Files
<1>6. TypeOK'
  BY <1>1, <1>3, <1>4, <1>5 DEF TypeOK
<1>7. RoomToIndex'
  BY DEF RoomToIndex, NoFile
<1>8. Fence'
  BY <1>2 DEF Fence, TypeOK
<1>9. EdgesOfTheseRows'
  <2> SUFFICES ASSUME NEW e \in refs'
               PROVE  e.seen[e.src] = row'[e.src] /\ e.seen[DefFile] = row'[DefFile]
    BY DEF EdgesOfTheseRows
  <2>1. e \in refs /\ indexer.file # DefFile /\ e.src # indexer.file
    BY DEF DeleteEdges
  <2>2. e.src \in Files /\ DefFile \in Files
    BY <2>1 DEF TypeOK, Files
  <2> QED BY <1>2, <2>1, <2>2 DEF EdgesOfTheseRows, TypeOK
<1> QED BY <1>6, <1>7, <1>8, <1>9

LEMMA StoreEdgesStep ==
  ASSUME EdgesInv, NEW r \in Resolvers, NEW f \in Callers, StoreEdges(r, f)
  PROVE  EdgesInv' /\ \A e \in refs' \ refs : e.seen = row
<1> USE EdgesAssumption DEF EdgesInv, StoreEdges
<1> DEFINE new == [src |-> f, symbol |-> call[r].symbol, seen |-> call[r].seen]
<1>1. call[r] \in CallRecord
  BY DEF TypeOK, CallRecord
<1>2. call[r].seen = row
  BY <1>1 DEF Fence, At
<1>3. refs' \subseteq refs \cup {new}
  BY DEF ReplaceEdge
<1>4. new \in [src : Callers, symbol : Symbols, seen : [Files -> Contents \cup {Absent}]]
  BY <1>1 DEF CallRecord
<1>5. [call[r] EXCEPT !.todo = @ \ {f}] \in CallRecord
  BY <1>1 DEF CallRecord
<1>6. call' \in [Resolvers -> CallRecord]
  BY <1>5 DEF TypeOK, CallRecord
<1>7. TypeOK'
  BY <1>3, <1>4, <1>6 DEF TypeOK, CallRecord
<1>8. RoomToIndex'
  BY DEF RoomToIndex
<1>9. Fence'
  BY <1>1 DEF Fence, TypeOK, CallRecord
<1>10. EdgesOfTheseRows'
  BY <1>2, <1>3 DEF EdgesOfTheseRows
<1>11. \A e \in refs' \ refs : e.seen = row
  BY <1>2, <1>3
<1> QED BY <1>7, <1>8, <1>9, <1>10, <1>11

-----------------------------------------------------------------------------
(* Steps of a call that leave the rows, the generation and the edges alone. *)

LEMMA CallStep ==
  ASSUME EdgesInv, NEW r \in Resolvers, NEW c \in CallRecord,
         call' = [call EXCEPT ![r] = c],
         c.step \in {"pinned", "storing"}
           => c.gen <= gen /\ (c.gen = gen => c.seen = row),
         mark' \in [Symbols -> SUBSET Digests],
         UNCHANGED <<disk, edits, row, gen, refs, indexer>>
  PROVE  EdgesInv'
<1> USE DEF EdgesInv
<1>1. TypeOK'
  BY DEF TypeOK, CallRecord
<1>2. RoomToIndex'
  BY DEF RoomToIndex
<1>3. Fence'
  BY DEF Fence, TypeOK
<1>4. EdgesOfTheseRows'
  BY DEF EdgesOfTheseRows
<1> QED BY <1>1, <1>2, <1>3, <1>4
\* A call record with some of its fields replaced.
LEMMA CallFields ==
  ASSUME TypeOK, NEW r \in Resolvers
  PROVE  /\ call[r] \in CallRecord
         /\ call[r].symbol \in Symbols
         /\ call[r].digest \in Digests
         /\ \A d \in Digests : [call[r] EXCEPT !.step = "swept", !.digest = d] \in CallRecord
         /\ [call[r] EXCEPT !.step = "pinned", !.gen = gen, !.seen = row] \in CallRecord
         /\ \A x \in SUBSET Callers :
              [call[r] EXCEPT !.step = "storing", !.found = x, !.todo = x] \in CallRecord
         /\ [call[r] EXCEPT !.todo = {}, !.stored = FALSE] \in CallRecord
         /\ \A s \in Symbols : [NoCall EXCEPT !.step = "asked", !.symbol = s] \in CallRecord
<1>1. call[r] \in CallRecord
  BY DEF TypeOK, CallRecord
<1>2. gen \in 0..MaxGeneration /\ row \in [Files -> Contents \cup {Absent}]
  BY DEF TypeOK
<1> QED BY <1>1, <1>2, NoCallType DEF CallRecord, Steps

LEMMA EdgesStep == EdgesInv /\ [Next]_vars => EdgesInv' /\ \A e \in refs' \ refs : e.seen = row
<1> SUFFICES ASSUME EdgesInv, [Next]_vars
             PROVE  EdgesInv' /\ \A e \in refs' \ refs : e.seen = row
  OBVIOUS
<1> USE EdgesAssumption DEF EdgesInv
<1>a. refs' \subseteq refs => \A e \in refs' \ refs : e.seen = row
  OBVIOUS
<1>b. gen \in Nat /\ \A r \in Resolvers : call[r] \in CallRecord
  BY DEF TypeOK, CallRecord
<1>c. mark \in [Symbols -> SUBSET Digests]
  BY DEF TypeOK
<1>1. ASSUME NEW f \in Files, NEW c \in Versions[f] \cup {Absent}, Edit(f, c)
      PROVE  EdgesInv' /\ refs' \subseteq refs
  <2>1. c \in Contents \cup {Absent} /\ edits + 1 \in 0..MaxEdits
    BY <1>1 DEF Edit, TypeOK
  <2>2. TypeOK'
    BY <1>1, <2>1 DEF Edit, TypeOK, store
  <2>3. RoomToIndex' /\ Fence' /\ EdgesOfTheseRows' /\ refs' = refs
    BY <1>1 DEF Edit, store, RoomToIndex, Fence, EdgesOfTheseRows
  <2> QED BY <2>2, <2>3
<1>2. ASSUME NEW f \in Files, NEW force \in BOOLEAN, ReadSource(f, force)
      PROVE  EdgesInv' /\ refs' \subseteq refs
  <2>1. [file |-> f, content |-> disk[f], busy |-> TRUE]
          \in [file : Files, content : Contents \cup {Absent}, busy : BOOLEAN]
    BY DEF TypeOK
  <2>2. TypeOK'
    BY <1>2, <2>1 DEF ReadSource, TypeOK, store
  <2>3. RoomToIndex' /\ Fence' /\ EdgesOfTheseRows' /\ refs' = refs
    BY <1>2 DEF ReadSource, store, RoomToIndex, Fence, EdgesOfTheseRows
  <2> QED BY <2>2, <2>3
<1>3. ASSUME StoreFile
      PROVE  EdgesInv' /\ refs' \subseteq refs
  <2>1. refs' \subseteq refs
    BY <1>3 DEF StoreFile, DeleteEdges
  <2> QED BY <1>3, <2>1, StoreStep DEF StoreFile
<1>4. ASSUME RemoveFile
      PROVE  EdgesInv' /\ refs' \subseteq refs
  <2>1. refs' \subseteq refs
    BY <1>4 DEF RemoveFile, DeleteEdges
  <2>2. row' = [row EXCEPT ![indexer.file] = indexer.content]
    BY <1>4 DEF RemoveFile
  <2> QED BY <1>4, <2>1, <2>2, StoreStep DEF RemoveFile
<1>5. ASSUME GiveUpFile
      PROVE  EdgesInv' /\ refs' \subseteq refs
  <2>1. TypeOK'
    BY <1>5 DEF GiveUpFile, TypeOK, store, NoFile, Files
  <2>2. RoomToIndex' /\ Fence' /\ EdgesOfTheseRows' /\ refs' = refs
    BY <1>5 DEF GiveUpFile, store, NoFile, RoomToIndex, Fence, EdgesOfTheseRows
  <2> QED BY <2>1, <2>2
<1>6. ASSUME NEW r \in Resolvers, NEW s \in Symbols, Ask(r, s)
      PROVE  EdgesInv' /\ refs' \subseteq refs
  <2> DEFINE c == [NoCall EXCEPT !.step = "asked", !.symbol = s]
  <2>1. c \in CallRecord
    BY CallFields, SweepType
  <2>2. c.step = "asked"
    BY DEF NoCall
  <2>3. call' = [call EXCEPT ![r] = c] /\ UNCHANGED <<disk, edits, row, gen, refs, mark, indexer>>
    BY <1>6 DEF Ask, store
  <2> HIDE DEF c
  <2> QED BY <1>c, <2>1, <2>2, <2>3, CallStep
<1>7. ASSUME NEW r \in Resolvers, SweepNames(r)
      PROVE  EdgesInv' /\ refs' \subseteq refs
  <2> DEFINE c == [call[r] EXCEPT !.step = "swept", !.digest = Sweep(call[r].symbol)]
  <2>1. c \in CallRecord
    BY CallFields, SweepType
  <2>2. c.step = "swept"
    BY <1>b DEF CallRecord
  <2>3. call' = [call EXCEPT ![r] = c] /\ UNCHANGED <<disk, edits, row, gen, refs, mark, indexer>>
    BY <1>7, <1>b DEF SweepNames, store, TypeOK, CallRecord
  <2> HIDE DEF c
  <2> QED BY <1>c, <2>1, <2>2, <2>3, CallStep
<1>8. ASSUME NEW r \in Resolvers, AnswerWithoutResolving(r) \/ AnswerUnmarked(r)
      PROVE  EdgesInv' /\ refs' \subseteq refs
  <2>1. call' = [call EXCEPT ![r] = NoCall] /\ UNCHANGED <<disk, edits, row, gen, refs, mark, indexer>>
    BY <1>8 DEF AnswerWithoutResolving, AnswerUnmarked, store
  <2>2. NoCall.step = "idle"
    BY DEF NoCall
  <2> QED BY <1>c, <2>1, <2>2, NoCallType, CallStep
<1>9. ASSUME NEW r \in Resolvers, PinGeneration(r)
      PROVE  EdgesInv' /\ refs' \subseteq refs
  <2> DEFINE c == [call[r] EXCEPT !.step = "pinned", !.gen = gen, !.seen = row]
  <2>1. c \in CallRecord
    BY CallFields
  <2>2. c.gen = gen /\ c.seen = row
    BY <1>b DEF CallRecord
  <2>3. call' = [call EXCEPT ![r] = c] /\ UNCHANGED <<disk, edits, row, gen, refs, mark, indexer>>
    BY <1>9, <1>b DEF PinGeneration, store, TypeOK, CallRecord
  <2>4. c.gen <= gen /\ (c.gen = gen => c.seen = row)
    BY <1>b, <2>2
  <2> HIDE DEF c
  <2> QED BY <1>c, <2>1, <2>3, <2>4, CallStep
<1>10. ASSUME NEW r \in Resolvers, Resolve(r)
       PROVE  EdgesInv' /\ refs' \subseteq refs
  <2> DEFINE c == [call[r] EXCEPT !.step = "storing", !.found = Resolved(call[r].symbol),
                                  !.todo = Resolved(call[r].symbol)]
  <2>1. c \in CallRecord
    BY CallFields, SweepType
  <2>2. c.gen = call[r].gen /\ c.seen = call[r].seen
    BY <1>b DEF CallRecord
  <2>3. call' = [call EXCEPT ![r] = c] /\ UNCHANGED <<disk, edits, row, gen, refs, mark, indexer>>
    BY <1>10, <1>b DEF Resolve, store, TypeOK, CallRecord
  <2>4. c.gen <= gen /\ (c.gen = gen => c.seen = row)
    BY <1>10, <2>2 DEF Resolve, At, Fence
  <2> HIDE DEF c
  <2> QED BY <1>c, <2>1, <2>3, <2>4, CallStep
<1>11. ASSUME NEW r \in Resolvers, SkipEdges(r)
       PROVE  EdgesInv' /\ refs' \subseteq refs
  <2> DEFINE c == [call[r] EXCEPT !.todo = {}, !.stored = FALSE]
  <2>1. c \in CallRecord
    BY CallFields
  <2>2. c.gen = call[r].gen /\ c.seen = call[r].seen
    BY <1>b DEF CallRecord
  <2>3. call' = [call EXCEPT ![r] = c] /\ UNCHANGED <<disk, edits, row, gen, refs, mark, indexer>>
    BY <1>11, <1>b DEF SkipEdges, store, TypeOK, CallRecord
  <2>4. c.gen <= gen /\ (c.gen = gen => c.seen = row)
    BY <1>11, <2>2 DEF SkipEdges, At, Fence
  <2> HIDE DEF c
  <2> QED BY <1>c, <2>1, <2>3, <2>4, CallStep
<1>12. ASSUME NEW r \in Resolvers, MarkResolved(r)
       PROVE  EdgesInv' /\ refs' \subseteq refs
  <2>1. call[r].symbol \in Symbols /\ call[r].digest \in Digests
    BY CallFields
  <2>2. mark' \in [Symbols -> SUBSET Digests]
    BY <1>12, <1>c, <2>1 DEF MarkResolved
  <2>3. call' = [call EXCEPT ![r] = NoCall] /\ UNCHANGED <<disk, edits, row, gen, refs, indexer>>
    BY <1>12 DEF MarkResolved
  <2>4. NoCall.step = "idle"
    BY DEF NoCall
  <2> QED BY <2>2, <2>3, <2>4, NoCallType, CallStep
<1>13. ASSUME UNCHANGED vars
       PROVE  EdgesInv' /\ refs' \subseteq refs
  BY <1>13 DEF vars, store, TypeOK, RoomToIndex, Fence, EdgesOfTheseRows, At
<1> QED
  BY <1>a, <1>1, <1>2, <1>3, <1>4, <1>5, <1>6, <1>7, <1>8, <1>9, <1>10, <1>11, <1>12, <1>13,
     StoreEdgesStep DEF Next

-----------------------------------------------------------------------------
(* What stands behind a mark.                                              *)

\* A call that has stored what it could and whose fence is still open has left
\* an edge, of itself or of another call, for every source it is done with.
Kept ==
  \A r \in Resolvers :
    At(r, "storing") /\ call[r].stored /\ call[r].gen = gen
      => call[r].found \subseteq call[r].todo \cup Sources(call[r].symbol)

\* Replacing the edge of a source and a symbol takes no source from any symbol.
LEMMA SourcesStay ==
  ASSUME EdgesInv, NEW r \in Resolvers, NEW f \in Callers, StoreEdges(r, f)
  PROVE  /\ \A s \in Symbols : Sources(s) \subseteq Sources(s)'
         /\ f \in Sources(call[r].symbol)'
<1> DEFINE new == [src |-> f, symbol |-> call[r].symbol, seen |-> call[r].seen]
<1>1. new \in refs' /\ \A e \in refs : e \in refs' \/ (e.src = f /\ e.symbol = call[r].symbol)
  BY DEF StoreEdges, ReplaceEdge
<1>2. f \in Sources(call[r].symbol)'
  <2>1. new \in {x \in refs' : x.symbol = call[r].symbol} /\ new.src = f
    BY <1>1
  <2>2. f \in {e.src : e \in {x \in refs' : x.symbol = call[r].symbol}}
    BY <2>1
  <2>3. f \in {e.src : e \in {x \in refs' : x.symbol = call'[r].symbol}}
          \/ call'[r].symbol # call[r].symbol
    BY <2>2
  <2>4. call[r] \in CallRecord
    BY CallFields DEF EdgesInv
  <2>5. call'[r].symbol = call[r].symbol
    BY <2>4 DEF StoreEdges, EdgesInv, TypeOK, CallRecord
  <2> QED BY <2>3, <2>5 DEF Sources
<1>3. ASSUME NEW s \in Symbols, NEW x \in Sources(s) PROVE x \in Sources(s)'
  <2>1. PICK e \in refs : e.symbol = s /\ e.src = x
    BY <1>3 DEF Sources
  <2>2. CASE e \in refs'
    BY <2>1, <2>2 DEF Sources
  <2>3. CASE e.src = f /\ e.symbol = call[r].symbol
    <3>1. new \in refs' /\ new.symbol = s /\ new.src = x
      BY <1>1, <2>1, <2>3
    <3> QED BY <3>1 DEF Sources
  <2> QED BY <1>1, <2>2, <2>3
<1> QED BY <1>2, <1>3

\* A step that leaves the edges and the generation alone, and each call either
\* alone, or not storing, or storing what it has to store yet.
LEMMA KeptStays ==
  ASSUME EdgesInv, Kept, UNCHANGED <<gen, refs>>,
         NEW r \in Resolvers, NEW c \in CallRecord, call' = [call EXCEPT ![r] = c],
         c.step = "storing" => c.found \subseteq c.todo \/ ~c.stored
  PROVE  Kept'
BY DEF EdgesInv, Kept, At, Sources, TypeOK

LEMMA KeptStep == EdgesInv /\ Kept /\ [Next]_vars => Kept'
<1> SUFFICES ASSUME EdgesInv, Kept, [Next]_vars PROVE Kept'
  OBVIOUS
<1>a. TypeOK /\ Fence
  BY DEF EdgesInv
<1>b. gen \in Nat /\ \A r \in Resolvers : call[r] \in CallRecord
  BY <1>a DEF TypeOK, CallRecord
<1>1. CASE UNCHANGED <<gen, refs, call>>
  BY <1>1 DEF Kept, At, Sources
<1>2. CASE gen' = gen + 1 /\ call' = call
  <2>1. ASSUME NEW r \in Resolvers, At(r, "storing") PROVE call[r].gen # gen + 1
    <3>1. call[r].gen <= gen /\ call[r].gen \in Nat
      BY <1>a, <1>b, <2>1 DEF Fence, At, CallRecord
    <3> QED BY <1>b, <3>1
  <2> QED BY <1>2, <2>1 DEF Kept, At
<1>3. ASSUME NEW r \in Resolvers, NEW f \in Callers, StoreEdges(r, f) PROVE Kept'
  <2>1. call' = [call EXCEPT ![r].todo = @ \ {f}] /\ gen' = gen /\ f \in call[r].todo
    BY <1>3 DEF StoreEdges
  <2>2. ASSUME NEW q \in Resolvers
        PROVE  /\ call'[q].step = call[q].step /\ call'[q].symbol = call[q].symbol
               /\ call'[q].gen = call[q].gen /\ call'[q].found = call[q].found
               /\ call'[q].stored = call[q].stored
               /\ call'[q].todo = IF q = r THEN call[q].todo \ {f} ELSE call[q].todo
    BY <1>a, <1>b, <2>1 DEF TypeOK, CallRecord
  <2>3. /\ \A s \in Symbols : Sources(s) \subseteq Sources(s)'
        /\ f \in Sources(call[r].symbol)'
    BY <1>3, SourcesStay
  <2>4. SUFFICES ASSUME NEW q \in Resolvers,
                        call'[q].step = "storing", call'[q].stored, call'[q].gen = gen'
                 PROVE  call'[q].found \subseteq call'[q].todo \cup Sources(call[q].symbol)'
    BY DEF Kept, At, Sources
  <2>5. call[q].found \subseteq call[q].todo \cup Sources(call[q].symbol)
    BY <2>1, <2>2, <2>4 DEF Kept, At
  <2>6. call[q].symbol \in Symbols
    BY <1>b DEF CallRecord
  <2>7. Sources(call[q].symbol) \subseteq Sources(call[q].symbol)'
    BY ZenonT(30), <2>2, <2>3, <2>6 DEF Sources
  <2>8. q = r => f \in Sources(call[q].symbol)'
    BY <2>3
  <2> QED BY <2>2, <2>5, <2>7, <2>8
<1>4. ASSUME NEW r \in Resolvers, NEW s \in Symbols, Ask(r, s) PROVE Kept'
  <2> DEFINE c == [NoCall EXCEPT !.step = "asked", !.symbol = s]
  <2>1. c \in CallRecord /\ c.step = "asked"
    BY <1>a, CallFields DEF NoCall
  <2>2. call' = [call EXCEPT ![r] = c] /\ UNCHANGED <<gen, refs>>
    BY <1>4 DEF Ask, store
  <2> HIDE DEF c
  <2> QED BY <2>1, <2>2, KeptStays
<1>5. ASSUME NEW r \in Resolvers, SweepNames(r) \/ PinGeneration(r) PROVE Kept'
  <2>1. call'[r].step \in {"swept", "pinned"} /\ \A q \in Resolvers \ {r} : call'[q] = call[q]
    BY <1>5, <1>a, <1>b DEF SweepNames, PinGeneration, TypeOK, CallRecord
  <2>2. UNCHANGED <<gen, refs>>
    BY <1>5 DEF SweepNames, PinGeneration, store
  <2> QED BY <2>1, <2>2 DEF Kept, At, Sources
<1>6. ASSUME NEW r \in Resolvers, call' = [call EXCEPT ![r] = NoCall], UNCHANGED <<gen, refs>>
      PROVE Kept'
  BY <1>6, KeptStays, NoCallType DEF NoCall
<1>7. ASSUME NEW r \in Resolvers, Resolve(r) PROVE Kept'
  <2> DEFINE c == [call[r] EXCEPT !.step = "storing", !.found = Resolved(call[r].symbol),
                                  !.todo = Resolved(call[r].symbol)]
  <2>1. c \in CallRecord
    BY <1>a, CallFields, SweepType
  <2>2. c.found = Resolved(call[r].symbol) /\ c.todo = Resolved(call[r].symbol)
    BY <1>b DEF CallRecord
  <2>3. call' = [call EXCEPT ![r] = c] /\ UNCHANGED <<gen, refs>>
    BY <1>7, <1>a, <1>b DEF Resolve, store, TypeOK, CallRecord
  <2>4. c.found \subseteq c.todo
    BY <2>2
  <2> HIDE DEF c
  <2> QED BY <2>1, <2>3, <2>4, KeptStays
<1>8. ASSUME NEW r \in Resolvers, SkipEdges(r) PROVE Kept'
  <2> DEFINE c == [call[r] EXCEPT !.todo = {}, !.stored = FALSE]
  <2>1. c \in CallRecord
    BY <1>a, CallFields
  <2>2. ~c.stored
    BY <1>b DEF CallRecord
  <2>3. call' = [call EXCEPT ![r] = c] /\ UNCHANGED <<gen, refs>>
    BY <1>8, <1>a, <1>b DEF SkipEdges, store, TypeOK, CallRecord
  <2> HIDE DEF c
  <2> QED BY <2>1, <2>2, <2>3, KeptStays
<1>9. ASSUME NEW f \in Files, NEW c \in Versions[f] \cup {Absent}, Edit(f, c) PROVE Kept'
  BY <1>1, <1>9 DEF Edit, store
<1>10. ASSUME NEW f \in Files, NEW force \in BOOLEAN, ReadSource(f, force) PROVE Kept'
  BY <1>1, <1>10 DEF ReadSource, store
<1>11. CASE StoreFile \/ RemoveFile
  BY <1>2, <1>11 DEF StoreFile, RemoveFile
<1>12. CASE GiveUpFile
  BY <1>1, <1>12 DEF GiveUpFile, store
<1>13. ASSUME NEW r \in Resolvers,
              AnswerWithoutResolving(r) \/ MarkResolved(r) \/ AnswerUnmarked(r) PROVE Kept'
  BY <1>6, <1>13 DEF AnswerWithoutResolving, MarkResolved, AnswerUnmarked, store
<1>14. CASE UNCHANGED vars
  BY <1>1, <1>14 DEF vars, store
<1> QED
  BY <1>3, <1>4, <1>5, <1>7, <1>8, <1>9, <1>10, <1>11, <1>12, <1>13, <1>14 DEF Next

\* The step by which the stored edges of a marked symbol come to lack a caller.
KnownGap(s) ==
  \/ \E r \in Resolvers :
       /\ At(r, "storing") /\ call[r].symbol = s /\ mark'[s] = {call[r].digest}
       /\ \/ ~call[r].stored
          \/ call[r].gen # gen
          \/ call[r].found # Resolved(s)
  \/ indexer.file \in Callers /\ gen' = gen + 1
  \/ disk' # disk

\* Where the disk stays, sweep and resolution stay.
LEMMA SameReading ==
  ASSUME UNCHANGED disk, NEW s \in Symbols
  PROVE  Sweep(s)' = Sweep(s) /\ Resolved(s)' = Resolved(s)
BY DEF Sweep, Resolved, Has, Defined

\* A symbol whose mark, disk and sources stay is not misled by the step.
LEMMA NotMisled ==
  ASSUME UNCHANGED disk, NEW s \in Symbols, mark'[s] = mark[s],
         Sources(s) \subseteq Sources(s)', Misled(s)'
  PROVE  Misled(s)
BY SameReading DEF Misled

LEMMA LostByGap ==
  ASSUME EdgesInv, Kept, [Next]_vars, NEW s \in Symbols, Misled(s)', ~Misled(s)
  PROVE  KnownGap(s)
<1>a. TypeOK
  BY DEF EdgesInv
<1>1. CASE UNCHANGED <<disk, refs, mark>>
  BY <1>1, NotMisled DEF Sources
<1>2. ASSUME NEW f \in Files, NEW c \in Versions[f] \cup {Absent}, Edit(f, c) PROVE KnownGap(s)
  <2>1. disk'[f] = c /\ disk[f] # c
    BY <1>2, <1>a DEF Edit, TypeOK
  <2> QED BY <2>1 DEF KnownGap
<1>3. CASE StoreFile \/ RemoveFile
  <2>1. gen' = gen + 1 /\ DeleteMarks(indexer.file) /\ indexer.file \in Files
    BY <1>3, <1>a DEF StoreFile, RemoveFile, TypeOK
  <2>2. CASE indexer.file = DefFile
    <3>1. mark'[s] = {}
      BY <2>1, <2>2 DEF DeleteMarks
    <3> QED BY <3>1 DEF Misled
  <2>3. CASE indexer.file \in Callers
    BY <2>1, <2>3 DEF KnownGap
  <2> QED BY <2>1, <2>2, <2>3 DEF Files
<1>4. ASSUME NEW r \in Resolvers, NEW f \in Callers, StoreEdges(r, f) PROVE KnownGap(s)
  <2>1. UNCHANGED disk /\ mark'[s] = mark[s]
    BY <1>4 DEF StoreEdges
  <2> QED BY <2>1, <1>4, SourcesStay, NotMisled
<1>5. ASSUME NEW r \in Resolvers, MarkResolved(r) PROVE KnownGap(s)
  <2>1. /\ At(r, "storing") /\ call[r].todo = {}
        /\ mark' = [mark EXCEPT ![call[r].symbol] = {call[r].digest}]
        /\ UNCHANGED <<disk, refs>>
    BY <1>5 DEF MarkResolved
  <2>2. CASE call[r].symbol # s
    <3>1. mark'[s] = mark[s]
      BY <2>1, <2>2, <1>a DEF TypeOK
    <3> QED BY <2>1, <3>1, NotMisled DEF Sources
  <2>3. CASE call[r].symbol = s
    <3>1. mark'[s] = {call[r].digest}
      BY <2>1, <2>3, <1>a DEF TypeOK
    <3>2. Resolved(s)' = Resolved(s) /\ Sources(s)' = Sources(s)
      BY <2>1, SameReading DEF Sources
    <3>3. ~(Resolved(s) \subseteq Sources(s))
      BY <3>2 DEF Misled
    <3>4. ~call[r].stored \/ call[r].gen # gen \/ call[r].found # Resolved(s)
      BY <2>1, <2>3, <3>3 DEF Kept
    <3> QED BY <2>1, <2>3, <3>1, <3>4 DEF KnownGap
  <2> QED BY <2>2, <2>3
<1>6. ASSUME NEW f \in Files, NEW force \in BOOLEAN, ReadSource(f, force) PROVE KnownGap(s)
  BY <1>1, <1>6 DEF ReadSource, store
<1>7. CASE GiveUpFile
  BY <1>1, <1>7 DEF GiveUpFile, store
<1>8. ASSUME NEW r \in Resolvers, NEW t \in Symbols, Ask(r, t) PROVE KnownGap(s)
  BY <1>1, <1>8 DEF Ask, store
<1>9. ASSUME NEW r \in Resolvers,
             \/ SweepNames(r) \/ PinGeneration(r) \/ Resolve(r) \/ SkipEdges(r)
             \/ AnswerWithoutResolving(r) \/ AnswerUnmarked(r)
      PROVE KnownGap(s)
  BY <1>1, <1>9 DEF SweepNames, PinGeneration, Resolve, SkipEdges, AnswerWithoutResolving,
                    AnswerUnmarked, store
<1>10. CASE UNCHANGED vars
  BY <1>1, <1>10 DEF vars, store
<1> QED
  BY <1>2, <1>3, <1>4, <1>5, <1>6, <1>7, <1>8, <1>9, <1>10 DEF Next

-----------------------------------------------------------------------------
(* Results.                                                                *)

LEMMA EdgesInvariant == Spec => []EdgesInv
<1>1. EdgesInv /\ [Next]_vars => EdgesInv'
  BY EdgesStep
<1> QED BY <1>1, EdgesInit, PTL DEF Spec

\* Every variable has its type.
THEOREM TypeCorrect == Spec => []TypeOK
<1>1. EdgesInv => TypeOK
  BY DEF EdgesInv
<1> QED BY <1>1, EdgesInvariant, PTL

\* Whatever calls and index runs overlap, a stored edge was resolved against
\* the rows its source and the defining file have now.
THEOREM EdgesAreOfTheseRows == Spec => []EdgesOfTheseRows
<1>1. EdgesInv => EdgesOfTheseRows
  BY DEF EdgesInv
<1> QED BY <1>1, EdgesInvariant, PTL

\* The fence of replace_refs_for_symbol: a new edge was resolved against the
\* whole index as it is in the transaction that stores it.
THEOREM FencedWrites == Spec => NoStaleWrite
<1>1. EdgesInv /\ [Next]_vars => [\A e \in refs' \ refs : e.seen = row]_vars
  BY EdgesStep
<1> QED BY <1>1, EdgesInvariant, PTL DEF Spec, NoStaleWrite

\* The stored edges of a marked symbol come to lack a caller only by the known
\* gaps: a mark set over edges that were not stored or whose index or disk has
\* moved, a caller that is indexed again, and an edit that brings the marked
\* sources back.  No overlap of calls does it.
THEOREM CallersLostCorrect == Spec => CallersLostOnlyByKnownGaps
<1>1. Init => Kept
  BY DEF Init, Kept, At, NoCall
<1>2. EdgesInv /\ Kept /\ [Next]_vars => Kept'
  BY KeptStep
<1>3. EdgesInv /\ Kept /\ [Next]_vars
        => [\A s \in Symbols : Misled(s)' /\ ~Misled(s) => KnownGap(s)]_vars
  BY LostByGap
<1>4. [\A s \in Symbols : Misled(s)' /\ ~Misled(s) => KnownGap(s)]_vars
        => [\A s \in Symbols : Misled(s)' /\ ~Misled(s) =>
              \/ \E r \in Resolvers :
                   /\ At(r, "storing") /\ call[r].symbol = s /\ mark'[s] = {call[r].digest}
                   /\ \/ ~call[r].stored
                      \/ call[r].gen # gen
                      \/ call[r].found # Resolved(s)
              \/ indexer.file \in Callers /\ gen' = gen + 1
              \/ disk' # disk]_vars
  BY DEF KnownGap
<1> QED BY <1>1, <1>2, <1>3, <1>4, EdgesInvariant, PTL DEF Spec, CallersLostOnlyByKnownGaps

(***************************************************************************)
(* Duplicates: the rows are of the content the index describes, and a call *)
(* for one file misses no group of the whole project's.                    *)
(***************************************************************************)

-----------------------------------------------------------------------------
(* Scope: what is reported of one file, and what of the whole project.     *)

LEMMA OneShapeScope ==
  ASSUME NEW c, NEW T
  PROVE  /\ Stage1OneShape(c, T) \subseteq Stage1OneShape(c, Everywhere)
         /\ \A g \in Stage1OneShape(c, Everywhere) :
              InScope(g.members, T) => g \in Stage1OneShape(c, T)
BY DEF Stage1OneShape, InScope, Group

LEMMA StageOneScope ==
  ASSUME NEW T
  PROVE  /\ Stage1(T) \subseteq Stage1(Everywhere)
         /\ \A g \in Stage1(Everywhere) : InScope(g.members, T) => g \in Stage1(T)
BY OneShapeScope DEF Stage1

LEMMA CallPatternScope ==
  ASSUME NEW T, NEW g \in CallPattern(Everywhere), InScope(g.members, T)
  PROVE  g \in CallPattern(T)
<1> DEFINE alike == Alike({s \in Significant : UnitAt(s).call # "none"}, SameCalls)
           ReportedFor(k, target) == (\E s, t \in k : ~ SameShape(s, t)) /\ InScope(k, target)
<1>1. \A target : CallPattern(target)
                    = {Group("CALL_PATTERN_SIM", c) : c \in {k \in alike : ReportedFor(k, target)}}
  BY DEF CallPattern
<1> HIDE DEF alike
<1>2. PICK k \in alike : ReportedFor(k, Everywhere) /\ g = Group("CALL_PATTERN_SIM", k)
  BY <1>1
<1>3. ReportedFor(k, T)
  BY <1>2 DEF Group
<1> QED BY <1>1, <1>2, <1>3

\* A member of a pair is one of its two members.
LEMMA PairMembers ==
  ASSUME NEW p, IsFiniteSet(p), Cardinality(p) = 2, NEW s \in p, NEW t \in p, s # t, NEW x \in p
  PROVE  x \in {s, t}
<1>1. IsFiniteSet(p \ {s}) /\ Cardinality(p \ {s}) = 1
  BY FS_RemoveElement
<1>2. PICK y : p \ {s} = {y}
  BY <1>1, FS_Singleton
<1> QED BY <1>2

\* A call scoped to the file of one of two functions loads all it needs of the
\* other to judge the pair as a call for the whole project does.
LEMMA ResemblesScope ==
  ASSUME prints \in [SourceFiles -> Texts \cup {NoText}],
         NEW s \in Stored, NEW t \in Stored, NEW T \in SourceFiles,
         SiteFile[s] = T \/ SiteFile[t] = T, Resembles(s, t, Everywhere)
  PROVE  Resembles(s, t, T)
<1> USE DupAssumption
<1>1. T # Everywhere
  OBVIOUS
<1>2. \A x \in Stored : IsFiniteSet(UnitAt(x).fps)
  BY DEF Stored, UnitAt
<1> DEFINE A == Loaded(s, Everywhere)
           B == Loaded(t, Everywhere)
           C == Loaded(s, T)
           D == Loaded(t, T)
<1>3. A = UnitAt(s).fps \ Flood /\ B = UnitAt(t).fps \ Flood
  BY DEF Loaded
<1>4. C = (UnitAt(s).fps \cap Seed(T)) \ Flood /\ D = (UnitAt(t).fps \cap Seed(T)) \ Flood
  BY <1>1 DEF Loaded
<1>5. IsFiniteSet(A) /\ IsFiniteSet(B)
  BY <1>2, <1>3, FS_Subset
<1>6. (SiteFile[s] = T => UnitAt(s).fps \subseteq Seed(T))
        /\ (SiteFile[t] = T => UnitAt(t).fps \subseteq Seed(T))
  BY DEF Seed
<1>7. C \cap D = A \cap B /\ C \cup D \subseteq A \cup B
  BY <1>3, <1>4, <1>6
<1>8. IsFiniteSet(A \cup B) /\ IsFiniteSet(C \cup D) /\ IsFiniteSet(A \cap B)
  BY <1>5, <1>7, FS_Union, FS_Subset, FS_Intersection
<1> DEFINE shared == Cardinality(A \cap B)
           union == Cardinality(A \cup B)
           fewer == Cardinality(C \cup D)
<1>9. /\ shared \in Nat /\ union \in Nat /\ fewer \in Nat
      /\ shared <= fewer /\ fewer <= union
  <2>1. A \cap B \subseteq C \cup D
    BY <1>7
  <2> QED BY <1>7, <1>8, <2>1, FS_Subset, FS_CardinalityType
<1>10. shared >= MinShared /\ shared * SimOutOf >= SimOf * union
  BY DEF Resembles
<1>11. Cardinality(C \cap D) = shared
  BY <1>7
<1> HIDE DEF A, B, C, D, shared, union, fewer
<1>12. SimOf * fewer <= SimOf * union
  BY <1>9
<1>13. SimOf * fewer \in Nat /\ SimOf * union \in Nat /\ shared * SimOutOf \in Nat
  BY <1>9
<1>14. shared * SimOutOf >= SimOf * fewer
  BY <1>10, <1>12, <1>13
<1>15. shared >= MinShared /\ fewer > 0
  BY <1>9, <1>10
<1> QED BY <1>11, <1>14, <1>15 DEF Resembles, C, D, shared, fewer

LEMMA StageTwoScope ==
  ASSUME prints \in [SourceFiles -> Texts \cup {NoText}],
         NEW T \in SourceFiles, NEW G, NEW H, H \subseteq G,
         NEW g \in Stage2(Everywhere, G), InScope(g.members, T)
  PROVE  g \in Stage2(T, H)
<1> USE DupAssumption
<1>1. PICK p \in kSubset(2, Stored) :
        /\ g = Group("STRUCTURAL_NEAR", p)
        /\ ~ p \subseteq G
        /\ \A s, t \in p : s # t => Resembles(s, t, Everywhere) /\ ~ SameShape(s, t)
  BY DEF Stage2
<1>2. InScope(p, T) /\ ~ p \subseteq H
  BY <1>1 DEF Group
<1>3. PICK x \in p : SiteFile[x] = T
  BY <1>2 DEF InScope
<1>4. p \subseteq Stored /\ IsFiniteSet(p) /\ Cardinality(p) = 2
  <2>1. p \subseteq Stored /\ Cardinality(p) = 2
    BY DEF kSubset
  <2> QED BY <2>1, FS_Subset DEF Stored
<1>5. ASSUME NEW s \in p, NEW t \in p, s # t
      PROVE  Resembles(s, t, T) /\ ~ SameShape(s, t)
  <2>1. x \in {s, t}
    BY <1>3, <1>4, <1>5, PairMembers
  <2>2. s \in Stored /\ t \in Stored /\ (SiteFile[s] = T \/ SiteFile[t] = T)
    BY <1>3, <1>4, <2>1
  <2> QED BY <1>1, <1>5, <2>2, ResemblesScope
<1> QED BY <1>1, <1>2, <1>5 DEF Stage2

\* The whole answer, for the same rows.
LEMMA ScopeOfGroups ==
  ASSUME prints \in [SourceFiles -> Texts \cup {NoText}],
         NEW T \in SourceFiles, NEW near \in BOOLEAN, NEW also \in BOOLEAN,
         NEW all \in BOOLEAN, NEW some \in BOOLEAN, all => some,
         NEW g \in Groups(Everywhere, near, all), InScope(g.members, T)
  PROVE  g \in Groups(T, also, some)
<1> USE DupAssumption
<1>1. T # Everywhere
  OBVIOUS
<1>2. Members(Stage1(T)) \subseteq Members(Stage1(Everywhere))
  BY StageOneScope DEF Members
<1>3. g \in Stage1(Everywhere) \/ g \in Stage2(Everywhere, Members(Stage1(Everywhere)))
        \/ (all /\ g \in CallPattern(Everywhere))
  BY DEF Groups
<1>4. g \in Stage1(T) \/ g \in Stage2(T, Members(Stage1(T))) \/ (some /\ g \in CallPattern(T))
  BY <1>2, <1>3, StageOneScope, StageTwoScope, CallPatternScope
<1> QED BY <1>1, <1>4 DEF Groups
\* What the answers are made of depends on the rows alone.
LEMMA SameUnits ==
  ASSUME UNCHANGED prints
  PROVE  /\ \A s : UnitAt(s)' = UnitAt(s)
         /\ Stored' = Stored /\ Significant' = Significant /\ Flood' = Flood
<1>1. \A s : UnitAt(s)' = UnitAt(s)
  BY DEF UnitAt
<1>2. Stored' = Stored
  BY DEF Stored
<1>3. Significant' = Significant
  BY <1>1, <1>2 DEF Significant
<1>4. \A v : {s \in Stored : v \in UnitAt(s).fps}' = {s \in Stored : v \in UnitAt(s).fps}
  BY <1>1, <1>2
<1>5. Flood' = Flood
  BY <1>1, <1>2, <1>4 DEF Flood
<1> QED BY <1>1, <1>2, <1>3, <1>5

LEMMA SameGroups ==
  ASSUME UNCHANGED prints, NEW T, NEW near, NEW calls
  PROVE  Groups(T, near, calls)' = Groups(T, near, calls)
<1>1. Stage1(T)' = Stage1(T)
  <2>1. \A c : Stage1OneShape(c, T)' = Stage1OneShape(c, T)
    BY SameUnits DEF Stage1OneShape, Alike, SameTokens
  <2> QED BY <2>1, SameUnits DEF Stage1, Alike, SameShape
<1>2. \A G : Stage2(T, G)' = Stage2(T, G)
  <2>1. Seed(T)' = Seed(T)
    BY SameUnits DEF Seed
  <2>2. \A s : Loaded(s, T)' = Loaded(s, T)
    BY <2>1, SameUnits DEF Loaded
  <2>3. \A s, t : Resembles(s, t, T)' = Resembles(s, t, T)
    BY <2>2 DEF Resembles
  <2>4. \A s, t : SameShape(s, t)' = SameShape(s, t)
    BY SameUnits DEF SameShape
  <2> QED BY <2>3, <2>4, SameUnits DEF Stage2
<1>3. CallPattern(T)' = CallPattern(T)
  BY SameUnits DEF CallPattern, Alike, SameCalls, SameShape
<1>4. Members(Stage1(T))' = Members(Stage1(T))
  BY <1>1 DEF Members
<1> QED BY <1>1, <1>2, <1>3, <1>4 DEF Groups
-----------------------------------------------------------------------------
(* The rows and the answers.                                               *)

FindRecord ==
  [at : {"idle", "derive"}, target : SourceFiles \cup {Everywhere}, near : BOOLEAN,
   calls : BOOLEAN, stale : SUBSET (SourceFiles \X (Texts \cup {NoText})),
   path : SourceFiles \cup {NoText}, of : Texts \cup {NoText}, source : Texts \cup {NoText}]

\* The types of what the rows are made of.
DupTypes ==
  /\ text \in [SourceFiles -> Texts \cup {NoText}]
  /\ listed \in [SourceFiles -> Texts \cup {NoText}]
  /\ prints \in [SourceFiles -> Texts \cup {NoText}]
  /\ printsOf \in [SourceFiles -> Texts \cup {NoText}]
  /\ find \in FindRecord

\* A file is computed from the content that was listed when the call began.
ReadAsListed == find.path # NoText => find.source = find.of

\* An answer that is still compared is of the rows as they are.
OfTheseRows ==
  /\ whole.target = Everywhere
  /\ whole = Unasked
       \/ \E near \in BOOLEAN :
            whole.calls \in BOOLEAN /\ whole.groups = Groups(Everywhere, near, whole.calls)
  /\ scoped = Unasked
       \/ scoped.target = Everywhere
       \/ \E f \in SourceFiles, near \in BOOLEAN :
            /\ scoped.target = f /\ scoped.calls \in BOOLEAN
            /\ scoped.groups = Groups(f, near, scoped.calls)

DupInv == DupTypes /\ ReadAsListed /\ RowsOfTheIndex /\ OfTheseRows

LEMMA DupStart == DupInit => DupInv
<1> SUFFICES ASSUME DupInit PROVE DupInv
  OBVIOUS
<1> USE DupAssumption DEF DupInit
<1>1. DupTypes
  BY DEF DupTypes, FindRecord, NoFind
<1>2. ReadAsListed /\ RowsOfTheIndex
  BY DEF ReadAsListed, RowsOfTheIndex, NoFind
<1>3. OfTheseRows
  BY DEF OfTheseRows, Unasked
<1> QED BY <1>1, <1>2, <1>3 DEF DupInv

\* A step that leaves the rows and the answers alone.
LEMMA AnswersStay ==
  ASSUME OfTheseRows, UNCHANGED <<prints, whole, scoped>>
  PROVE  OfTheseRows'
<1>1. whole = Unasked
        \/ \E near \in BOOLEAN :
             whole.calls \in BOOLEAN /\ whole.groups = Groups(Everywhere, near, whole.calls)'
  BY SameGroups DEF OfTheseRows
<1>2. \A f \in SourceFiles, near \in BOOLEAN, c \in BOOLEAN :
        Groups(f, near, c)' = Groups(f, near, c)
  BY SameGroups
<1> QED BY <1>1, <1>2 DEF OfTheseRows, Unasked

LEMMA DupStep == DupInv /\ [DupNext]_dupVars => DupInv'
<1> SUFFICES ASSUME DupInv, [DupNext]_dupVars PROVE DupInv'
  OBVIOUS
<1> USE DupAssumption DEF DupInv
<1>1. ASSUME NEW f \in SourceFiles, EditText(f) PROVE DupInv'
  <2>1. PICK t \in (TextsOf(f) \cup {NoText}) \ {text[f]} : text' = [text EXCEPT ![f] = t]
    BY <1>1 DEF EditText
  <2>2. UNCHANGED <<listed, prints, printsOf, find, overtaken, whole, scoped>>
    BY <1>1 DEF EditText
  <2>3. DupTypes'
    BY <2>1, <2>2 DEF DupTypes
  <2> QED BY <2>2, <2>3, AnswersStay DEF ReadAsListed, RowsOfTheIndex
<1>2. ASSUME NEW f \in SourceFiles, IndexText(f) PROVE DupInv'
  <2>1. DupTypes'
    BY <1>2 DEF DupTypes, IndexText
  <2>2. ReadAsListed' /\ RowsOfTheIndex'
    BY <1>2 DEF DupTypes, IndexText, ReadAsListed, RowsOfTheIndex
  <2>3. OfTheseRows'
    BY <1>2 DEF IndexText, Forget, OfTheseRows, Unasked
  <2> QED BY <2>1, <2>2, <2>3
<1>3. ASSUME NEW T \in SourceFiles \cup {Everywhere}, NEW near \in BOOLEAN,
             NEW calls \in BOOLEAN, Find(T, near, calls)
      PROVE  DupInv'
  <2>1. UNCHANGED <<text, listed, prints, printsOf, overtaken, whole, scoped>>
    BY <1>3 DEF Find
  <2> DEFINE stale == {<<f, listed[f]>> : f \in Missing}
             r == [NoFind EXCEPT !.at = "derive", !.target = T, !.near = near,
                                 !.calls = calls, !.stale = stale]
  <2>2. stale \in SUBSET (SourceFiles \X (Texts \cup {NoText}))
    BY DEF Missing, DupTypes
  <2>3. r \in FindRecord /\ r.path = NoText
    BY <2>2 DEF FindRecord, NoFind
  <2>4. find' = r
    BY <1>3 DEF Find
  <2> HIDE DEF stale, r
  <2>5. DupTypes'
    BY <2>1, <2>3, <2>4 DEF DupTypes
  <2> QED BY <2>1, <2>3, <2>4, <2>5, AnswersStay DEF ReadAsListed, RowsOfTheIndex
<1>4. CASE ReadText
  <2>1. /\ UNCHANGED <<text, listed, prints, printsOf, overtaken, whole, scoped>>
        /\ find.path = NoText
    BY <1>4 DEF ReadText
  <2>2. PICK m \in find.stale :
          find' = IF text[m[1]] = m[2]
                  THEN [find EXCEPT !.path = m[1], !.of = m[2], !.source = text[m[1]],
                                    !.stale = @ \ {m}]
                  ELSE [find EXCEPT !.stale = @ \ {m}]
    BY <1>4 DEF ReadText
  <2>3. find \in FindRecord /\ m \in SourceFiles \X (Texts \cup {NoText})
    BY DEF DupTypes, FindRecord
  <2>4. CASE text[m[1]] = m[2]
    <3>1. find' = [find EXCEPT !.path = m[1], !.of = m[2], !.source = text[m[1]],
                               !.stale = @ \ {m}]
      BY <2>2, <2>4
    <3>2. find' \in FindRecord /\ find'.source = find'.of
      BY <2>3, <2>4, <3>1 DEF FindRecord
    <3> QED BY <2>1, <3>2, AnswersStay DEF DupTypes, ReadAsListed, RowsOfTheIndex
  <2>5. CASE text[m[1]] # m[2]
    <3>1. find' = [find EXCEPT !.stale = @ \ {m}]
      BY <2>2, <2>5
    <3>2. find' \in FindRecord /\ find'.path = NoText
      BY <2>1, <2>3, <3>1 DEF FindRecord
    <3> QED BY <2>1, <3>2, AnswersStay DEF DupTypes, ReadAsListed, RowsOfTheIndex
  <2> QED BY <2>4, <2>5
<1>5. CASE StoreRows
  <2>1. find \in FindRecord /\ find.path \in SourceFiles /\ find.source = find.of
    BY <1>5 DEF StoreRows, DupTypes, FindRecord, ReadAsListed
  <2>2. find' \in FindRecord /\ find'.path = NoText
    BY <1>5, <2>1 DEF StoreRows, FindRecord
  <2>3. DupTypes'
    BY <1>5, <2>1, <2>2 DEF StoreRows, DupTypes, FindRecord
  <2>4. RowsOfTheIndex'
    <3> SUFFICES ASSUME NEW f \in SourceFiles \ overtaken' PROVE prints'[f] \in {NoText, listed'[f]}
      BY DEF RowsOfTheIndex
    <3>1. prints' = [prints EXCEPT ![find.path] = find.source] /\ listed' = listed
      BY <1>5 DEF StoreRows
    <3>2. CASE f = find.path
      <4>1. listed[find.path] = find.of
        BY <1>5, <3>2 DEF StoreRows
      <4> QED BY <2>1, <3>1, <3>2, <4>1 DEF DupTypes
    <3>3. CASE f # find.path
      <4>1. f \notin overtaken
        BY <1>5, <3>3 DEF StoreRows
      <4> QED BY <3>1, <3>3, <4>1 DEF DupTypes, RowsOfTheIndex
    <3> QED BY <3>2, <3>3
  <2>5. OfTheseRows'
    BY <1>5 DEF StoreRows, Forget, OfTheseRows, Unasked
  <2> QED BY <2>2, <2>3, <2>4, <2>5 DEF ReadAsListed
<1>6. CASE DeriveFails
  <2>1. UNCHANGED <<text, listed, prints, printsOf, overtaken, whole, scoped>>
    BY <1>6 DEF DeriveFails
  <2>2. find' \in FindRecord /\ find'.path = NoText
    BY <1>6 DEF DeriveFails, DupTypes, FindRecord
  <2> QED BY <2>1, <2>2, AnswersStay DEF DupTypes, ReadAsListed, RowsOfTheIndex
<1>7. CASE GiveGroups
  <2> DEFINE given == [target |-> find.target, calls |-> find.calls,
                       groups |-> Groups(find.target, find.near, find.calls)]
  <2>1. /\ UNCHANGED <<text, listed, prints, printsOf, overtaken>>
        /\ find' = NoFind
        /\ IF find.target = Everywhere THEN whole' = given /\ UNCHANGED scoped
                                       ELSE scoped' = given /\ UNCHANGED whole
    BY <1>7 DEF GiveGroups
  <2>2. DupTypes' /\ ReadAsListed' /\ RowsOfTheIndex'
    BY <2>1 DEF DupTypes, FindRecord, NoFind, ReadAsListed, RowsOfTheIndex
  <2>3. /\ find.target \in SourceFiles \cup {Everywhere}
        /\ find.near \in BOOLEAN /\ find.calls \in BOOLEAN
    BY DEF DupTypes, FindRecord
  <2>4. OfTheseRows'
    <3>1. PICK T \in SourceFiles \cup {Everywhere}, near \in BOOLEAN, calls \in BOOLEAN :
            T = find.target /\ near = find.near /\ calls = find.calls
      BY <2>3
    <3>2. given = [target |-> T, calls |-> calls, groups |-> Groups(T, near, calls)']
      BY <2>1, <3>1, SameGroups
    <3>3. CASE T = Everywhere
      <4>1. whole' = given /\ UNCHANGED <<prints, scoped>>
        BY <2>1, <3>1, <3>3
      <4>2. /\ whole'.target = Everywhere /\ whole'.calls = calls
            /\ whole'.groups = Groups(Everywhere, near, calls)'
        BY <3>2, <3>3, <4>1
      <4>3. \A f \in SourceFiles, n \in BOOLEAN, c \in BOOLEAN :
              Groups(f, n, c)' = Groups(f, n, c)
        BY <4>1, SameGroups
      <4> HIDE DEF given
      <4> QED BY <4>1, <4>2, <4>3 DEF OfTheseRows, Unasked
    <3>4. CASE T # Everywhere
      <4>1. scoped' = given /\ UNCHANGED <<prints, whole>>
        BY <2>1, <3>1, <3>4
      <4>2. /\ scoped'.target = T /\ T \in SourceFiles /\ scoped'.calls = calls
            /\ scoped'.groups = Groups(T, near, calls)'
        BY <3>2, <3>4, <4>1
      <4>3. \A n \in BOOLEAN, c \in BOOLEAN :
              Groups(Everywhere, n, c)' = Groups(Everywhere, n, c)
        BY <4>1, SameGroups
      <4> HIDE DEF given
      <4> QED BY <4>1, <4>2, <4>3 DEF OfTheseRows, Unasked
    <3> QED BY <3>3, <3>4
  <2> QED BY <2>2, <2>4
<1>8. CASE UNCHANGED dupVars
  <2>1. UNCHANGED <<text, listed, prints, printsOf, find, overtaken, whole, scoped>>
    BY <1>8 DEF dupVars
  <2> QED BY <2>1, AnswersStay DEF DupTypes, ReadAsListed, RowsOfTheIndex
<1> QED
  BY <1>1, <1>2, <1>3, <1>4, <1>5, <1>6, <1>7, <1>8 DEF DupNext

\* Of one file nothing is hidden that the answer for the whole project has.
LEMMA ScopeFollows == DupInv => ScopeMissesNothing
<1> SUFFICES ASSUME DupInv, scoped.target # Everywhere, whole.calls => scoped.calls,
                    NEW g \in whole.groups, InScope(g.members, scoped.target)
             PROVE  g \in scoped.groups
  BY DEF ScopeMissesNothing
<1>1. PICK f \in SourceFiles, also \in BOOLEAN :
        /\ scoped.target = f /\ scoped.calls \in BOOLEAN
        /\ scoped.groups = Groups(f, also, scoped.calls)
  BY DEF DupInv, OfTheseRows, Unasked
<1>2. PICK near \in BOOLEAN :
        whole.calls \in BOOLEAN /\ whole.groups = Groups(Everywhere, near, whole.calls)
  BY DEF DupInv, OfTheseRows, Unasked
<1> QED BY <1>1, <1>2, ScopeOfGroups DEF DupInv, DupTypes

-----------------------------------------------------------------------------
LEMMA DupInvariant == DupSpec => []DupInv
  BY DupStart, DupStep, PTL DEF DupSpec

\* Rows that nobody overtook are of the content the index describes, however
\* edits, index runs and calls interleave.
THEOREM RowsCorrect == DupSpec => []RowsOfTheIndex
<1>1. DupInv => RowsOfTheIndex
  BY DEF DupInv
<1> QED BY <1>1, DupInvariant, PTL

\* Every group of the whole project with a member in a file is in the answer for
\* that file: the bound on common fingerprints, the shared count and the
\* similarity come out the same, for all fingerprints and thresholds.
THEOREM ScopeCorrect == DupSpec => []ScopeMissesNothing
  BY ScopeFollows, DupInvariant, PTL

(***************************************************************************)
(* ToolCalls: no fall-back and no first index goes untold.                 *)
(***************************************************************************)

ServerRecord ==
  [ready : BOOLEAN, client : BOOLEAN, direct : {"no", "chosen", "fell"},
   indexed : BOOLEAN, notes : SUBSET {"in process", "indexed"}]

\* The arguments a tool may be called with, and what may be asked with them.
PassedOn == UNION {{Coerced(op, args) : args \in ToolArguments[op]} : op \in DOMAIN Tools}
MayBeAsked == {<<>>} \cup {ByDaemon(op, args) : op \in DOMAIN Tools, args \in PassedOn}
                     \cup {Direct(op, args) : op \in DOMAIN Tools, args \in PassedOn}
ToolRecord ==
  [at : {"ask", "build", "again", "reply"}, op : DOMAIN Tools, args : PassedOn,
   asked : MayBeAsked, by : {"none", "daemon", "process"}, error : BOOLEAN]

\* What no reply has told is in the notes of the next one, and between the calls
\* there is nothing to tell.
ToolsInv ==
  /\ server \in ServerRecord
  /\ tool = NoTool \/ tool \in ToolRecord
  /\ untold \subseteq server.notes
  /\ DegradationIsSaid

\* A call in hand is a whole call, and its next state one as well.
LEMMA ToolGoesOn ==
  ASSUME ToolsInv, tool.at # "none"
  PROVE  /\ tool \in ToolRecord
         /\ \A at \in {"ask", "build", "again", "reply"} : [tool EXCEPT !.at = at] \in ToolRecord
         /\ [tool EXCEPT !.at = "reply", !.by = Place, !.error = TRUE] \in ToolRecord
         /\ [tool EXCEPT !.at = "reply", !.asked = Asked, !.by = Place] \in ToolRecord
<1>1. tool \in ToolRecord
  BY DEF ToolsInv, NoTool
<1>2. Place \in {"none", "daemon", "process"}
  BY DEF Place
<1>3. Asked \in MayBeAsked
  BY <1>1 DEF Asked, MayBeAsked, ToolRecord
<1> QED BY <1>1, <1>2, <1>3 DEF ToolRecord

LEMMA NoToolIsNot == NoTool \notin ToolRecord
  BY DEF NoTool, ToolRecord

LEMMA FellBackType ==
  ASSUME server \in ServerRecord
  PROVE  /\ FellBack(server) \in ServerRecord
         /\ FellBack(server).notes = server.notes \cup {"in process"}
  BY DEF ServerRecord, FellBack

LEMMA ToolsStart == ToolsInit => ToolsInv
  BY DEF ToolsInit, ToolsInv, ServerRecord, DegradationIsSaid

LEMMA ToolsStep == ToolsInv /\ [ToolsNext]_toolVars => ToolsInv'
<1> SUFFICES ASSUME ToolsInv, [ToolsNext]_toolVars PROVE ToolsInv'
  OBVIOUS
<1>1. CASE Initialize
  <2>1. server' \in ServerRecord /\ server'.notes = server.notes
    BY <1>1 DEF Initialize, ToolsInv, ServerRecord
  <2> QED BY <1>1, <2>1 DEF Initialize, ToolsInv, DegradationIsSaid
<1>2. CASE Connect
  <2>1. tool.at # "none" /\ UNCHANGED tool
    BY <1>2 DEF Connect, Attempting
  <2>2. tool \in ToolRecord
    BY <2>1, ToolGoesOn
  <2>3. server \in ServerRecord
    BY DEF ToolsInv
  <2>4. server' \in ServerRecord /\ untold' \subseteq server'.notes
    <3>1. CASE server' = [server EXCEPT !.client = TRUE] /\ UNCHANGED untold
      BY <2>3, <3>1 DEF ServerRecord, ToolsInv
    <3>2. CASE server' = FellBack(server) /\ untold' = untold \cup {"in process"}
      BY <2>3, <3>2, FellBackType DEF ToolsInv
    <3> QED BY <1>2, <3>1, <3>2 DEF Connect
  <2> QED BY <2>1, <2>2, <2>4, NoToolIsNot DEF ToolsInv, DegradationIsSaid
<1>3. CASE Lose
  <2>1. tool.at # "none" /\ UNCHANGED tool
    BY <1>3 DEF Lose, ByClient, Attempting
  <2>2. tool \in ToolRecord
    BY <2>1, ToolGoesOn
  <2>3. server' \in ServerRecord /\ untold' \subseteq server'.notes
    BY <1>3, FellBackType DEF Lose, ToolsInv
  <2> QED BY <2>1, <2>2, <2>3, NoToolIsNot DEF ToolsInv, DegradationIsSaid
<1>4. CASE Answer \/ Fail
  <2>1. tool.at # "none" /\ UNCHANGED <<server, untold>>
    BY <1>4 DEF Answer, Fail, Can, Attempting
  <2>2. tool' \in ToolRecord
    BY <1>4, <2>1, ToolGoesOn DEF Answer, Fail
  <2> QED BY <2>1, <2>2, NoToolIsNot DEF ToolsInv, DegradationIsSaid
<1>5. CASE Unindexed
  <2>1. tool.at # "none" /\ UNCHANGED untold
    BY <1>5 DEF Unindexed, Can, Attempting
  <2>2. tool' \in ToolRecord
    BY <1>5, <2>1, ToolGoesOn DEF Unindexed
  <2>3. server' \in ServerRecord /\ server'.notes = server.notes
    BY <1>5 DEF Unindexed, ToolsInv, ServerRecord
  <2> QED BY <2>1, <2>2, <2>3, NoToolIsNot DEF ToolsInv, DegradationIsSaid
<1>6. CASE Build
  <2>1. tool.at # "none"
    BY <1>6 DEF Build
  <2>2. tool' \in ToolRecord
    BY <1>6, <2>1, ToolGoesOn DEF Build
  <2>3. server' \in ServerRecord /\ untold' \subseteq server'.notes
    BY <1>6 DEF Build, ToolsInv, ServerRecord
  <2> QED BY <2>2, <2>3, NoToolIsNot DEF ToolsInv, DegradationIsSaid
<1>7. CASE Reply
  <2>1. server' \in ServerRecord
    BY <1>7 DEF Reply, ToolsInv, ServerRecord
  <2>2. untold' = {} /\ tool' = NoTool
    BY <1>7 DEF Reply, ToolsInv
  <2> QED BY <2>1, <2>2 DEF ToolsInv, DegradationIsSaid
<1>8. ASSUME NEW op \in DOMAIN Tools, NEW args \in ToolArguments[op], CallTool(op, args)
      PROVE  ToolsInv'
  <2>1. Coerced(op, args) \in PassedOn
    BY DEF PassedOn
  <2>2. tool' \in ToolRecord
    BY <1>8, <2>1 DEF CallTool, Fresh, ToolRecord, MayBeAsked
  <2> QED BY <1>8, <2>2, NoToolIsNot DEF CallTool, ToolsInv, DegradationIsSaid
<1>9. CASE UNCHANGED <<server, tool, untold>>
  BY <1>9 DEF ToolsInv, DegradationIsSaid
<1>10. CASE Deliver \/ Elsewhere
  BY <1>9, <1>10 DEF Deliver, Elsewhere
<1>11. ASSUME NEW op, NEW args, RefuseCall(op, args) \/ Command(op, args) \/ Method(op, args)
       PROVE  ToolsInv'
  BY <1>9, <1>11 DEF RefuseCall, Command, Method
<1>12. CASE UNCHANGED toolVars
  BY <1>9, <1>12 DEF toolVars
<1>13. CASE ServerStep
  BY <1>1, <1>2, <1>3, <1>4, <1>5, <1>6, <1>7, <1>10, <1>13 DEF ServerStep
<1>14. ASSUME NEW op \in DOMAIN Tools, NEW args \in ToolArguments[op],
              CallTool(op, args) \/ RefuseCall(op, args)
       PROVE  ToolsInv'
  BY <1>8, <1>11, <1>14
<1> QED BY <1>11, <1>12, <1>13, <1>14 DEF ToolsNext

\* Whenever no call is in hand, every fall-back into this process and every first
\* index has been told in a reply, whatever calls fail and in whatever order.
THEOREM DegradationCorrect == ToolsSpec => []DegradationIsSaid
<1>1. ToolsInv => DegradationIsSaid
  BY DEF ToolsInv
<1> QED BY <1>1, ToolsStart, ToolsStep, PTL DEF ToolsSpec

(***************************************************************************)
(* CoChange: counts that went through none of the known gaps are those of  *)
(* the history they are recorded for.                                      *)
(***************************************************************************)

MinerRecord ==
  [at : {"none", "probe", "ancestor", "log", "clear", "add", "symbol", "mine", "diff",
         "store", "answer"},
   head : Commits \cup {NoCommit}, previous : Commits \cup {NoCommit}, moves : Nat,
   added : BOOLEAN, of : SUBSET Commits, still : BOOLEAN, symbols : BOOLEAN]

\* What a preflight has read is of HEAD as long as HEAD has not moved, and what it
\* is about to write is of the commit it will record if HEAD did not move meanwhile.
ReadAsRecorded(r) ==
  /\ r.moves <= moves
  /\ r.at \in {"probe", "ancestor", "log", "mine"}
       => r.head \in Commits /\ (r.moves = moves => gitHead = r.head)
  /\ r.at = "log" /\ r.added
       => r.previous \in Commits /\ (r.moves = moves => r.previous \in Ancestors[r.head])
  /\ r.at \in {"clear", "add"} =>
       /\ r.head \in Commits
       /\ r.added => r.previous \in Commits
       /\ r.still /\ r.added => /\ r.previous \in Ancestors[r.head]
                                /\ r.of = Log(Ancestors[r.head] \ Ancestors[r.previous])
       /\ r.still /\ ~r.added => r.of = Log(Ancestors[r.head])
  /\ r.at = "diff" => /\ r.head \in Commits
                      /\ r.moves = moves => /\ gitHead = r.head
                                            /\ r.of = Log(Ancestors[r.head])
  /\ r.at = "store" => r.head \in Commits /\ (r.still => r.of = SymbolLog(Ancestors[r.head]))

MinersInv ==
  /\ gitHead \in Commits /\ moves \in Nat
  /\ miner \in [Miners -> MinerRecord]
  /\ \A m \in Miners : ReadAsRecorded(miner[m])

CountsInv ==
  /\ totals \in [head : Commits \cup {NoCommit}, n : [Commits -> Nat]]
  /\ spoiled = {} => totals.n = Tally(Nothing, Log(History(totals.head)))
  /\ cleared # NoCommit => totals.n = Nothing
  /\ symbolRules \in [head : Commits \cup {NoCommit}, of : SUBSET Commits, still : BOOLEAN]
  /\ symbolRules.still => symbolRules.of = SymbolLog(History(symbolRules.head))

MineInv == MinersInv /\ CountsInv /\ CompanionsOfThisHistory

LEMMA WaitingIs ==
  ASSUME moves \in Nat,
         NEW at \in {"none", "symbol", "answer"}
  PROVE  /\ Waiting \in MinerRecord /\ ReadAsRecorded(Waiting)
         /\ [Waiting EXCEPT !.at = at] \in MinerRecord
         /\ ReadAsRecorded([Waiting EXCEPT !.at = at])
         /\ [Waiting EXCEPT !.at = "answer", !.symbols = TRUE] \in MinerRecord
         /\ ReadAsRecorded([Waiting EXCEPT !.at = "answer", !.symbols = TRUE])
<1> DEFINE r == [Waiting EXCEPT !.at = at]
           t == [Waiting EXCEPT !.at = "answer", !.symbols = TRUE]
<1>1. Waiting \in MinerRecord /\ Waiting.at = "none" /\ Waiting.moves = 0
  BY DEF Waiting, MinerRecord
<1>2. r \in MinerRecord /\ r.at = at /\ r.moves = 0
  BY <1>1 DEF MinerRecord
<1>3. t \in MinerRecord /\ t.at = "answer" /\ t.moves = 0
  BY <1>1 DEF MinerRecord
<1> HIDE DEF r, t
<1>4. ReadAsRecorded(Waiting) /\ ReadAsRecorded(r) /\ ReadAsRecorded(t)
  BY <1>1, <1>2, <1>3 DEF ReadAsRecorded
<1> QED BY <1>1, <1>2, <1>3, <1>4 DEF r, t

\* What is listed of a set of commits is in it.
LEMMA LogWithin ==
  ASSUME NEW of
  PROVE  Log(of) \subseteq of /\ SymbolLog(of) \subseteq of
BY DEF Log, SymbolLog

LEMMA LogNothing == Log({}) = {} /\ SymbolLog({}) = {}
BY LogWithin

\* Of a history within the cap, every part is listed whole.
LEMMA LogWhole ==
  ASSUME NEW h \in Commits, ~Capped(h), NEW of \in SUBSET Ancestors[h]
  PROVE  Log(of) = of \ Merges
<1> DEFINE inLog == of \ Merges
<1>1. IsFiniteSet(Ancestors[h] \ Merges)
  BY CoChangeAssumption, FS_Subset
<1>2. /\ IsFiniteSet(inLog) /\ Cardinality(inLog) <= Cardinality(Ancestors[h] \ Merges)
      /\ Cardinality(inLog) \in Nat /\ Cardinality(Ancestors[h] \ Merges) \in Nat
  BY <1>1, FS_Subset, FS_CardinalityType
<1>3. ASSUME NEW c \in inLog
      PROVE  Cardinality({d \in inLog : Newer(d, c)}) < MaxRead
  <2> DEFINE newer == {d \in inLog : Newer(d, c)}
  <2>1. newer \subseteq inLog /\ c \notin newer
    BY CoChangeAssumption
  <2>2. IsFiniteSet(newer) /\ Cardinality(newer) < Cardinality(inLog)
    BY <1>2, <1>3, <2>1, FS_Subset, FS_CardinalityType
  <2>3. Cardinality(newer) \in Nat /\ MaxRead \in Nat
    BY <2>2, FS_CardinalityType, CoChangeAssumption
  <2> HIDE DEF newer, inLog
  <2>4. Cardinality(Ancestors[h] \ Merges) <= MaxRead
    BY <1>2, <2>3 DEF Capped
  <2>5. Cardinality(newer) < MaxRead
    BY <1>2, <2>2, <2>3, <2>4
  <2> QED BY <2>5 DEF newer
<1> QED BY <1>3 DEF Log

\* No commits add nothing.
LEMMA TallyNothing == Tally(Nothing, {}) = Nothing
  BY DEF Tally, Nothing

LEMMA TallyType ==
  ASSUME NEW n \in [Commits -> Nat], NEW of
  PROVE  Tally(n, of) \in [Commits -> Nat]
<1>1. \A c \in Commits : n[c] + (IF c \in of /\ Usable(c) THEN 1 ELSE 0) \in Nat
  OBVIOUS
<1> QED BY <1>1 DEF Tally

\* What is missing since an ancestor completes the counts of its history.
LEMMA TallyGrows ==
  ASSUME NEW p \in Commits, NEW h \in Commits, p \in Ancestors[h], ~Capped(h)
  PROVE  Tally(Tally(Nothing, Log(Ancestors[p])), Log(Ancestors[h] \ Ancestors[p]))
           = Tally(Nothing, Log(Ancestors[h]))
<1>1. Ancestors[p] \subseteq Ancestors[h]
  BY CoChangeAssumption
<1>2. /\ Log(Ancestors[p]) = Ancestors[p] \ Merges
      /\ Log(Ancestors[h] \ Ancestors[p]) = (Ancestors[h] \ Ancestors[p]) \ Merges
      /\ Log(Ancestors[h]) = Ancestors[h] \ Merges
  BY <1>1, LogWhole
<1> QED BY <1>1, <1>2 DEF Tally, Nothing

LEMMA MineStart == MineInit => MineInv
<1> SUFFICES ASSUME MineInit PROVE MineInv
  OBVIOUS
<1> USE CoChangeAssumption DEF MineInit
<1>1. MinersInv
  BY WaitingIs DEF MinersInv
<1>2. Nothing \in [Commits -> Nat]
  BY DEF Nothing
<1>3. Tally(Nothing, Log(Ancestors[gitHead])) \in [Commits -> Nat]
  BY <1>2, TallyType
<1>4. History(NoCommit) = {} /\ History(gitHead) = Ancestors[gitHead]
  BY DEF History
<1>5. totals \in [head : Commits \cup {NoCommit}, n : [Commits -> Nat]]
        /\ totals.n = Tally(Nothing, Log(History(totals.head)))
  <2>1. CASE totals = [head |-> NoCommit, n |-> Nothing]
    BY <1>2, <1>4, <2>1, TallyNothing, LogNothing
  <2>2. CASE totals = [head |-> gitHead, n |-> Tally(Nothing, Log(Ancestors[gitHead]))]
    BY <1>3, <1>4, <2>2
  <2> QED BY <2>1, <2>2
<1>6. symbolRules.of = SymbolLog(History(symbolRules.head))
  BY <1>4, LogNothing
<1>7. CountsInv
  BY <1>5, <1>6 DEF CountsInv
<1>8. CompanionsOfThisHistory
  BY DEF CompanionsOfThisHistory, NoAnswer
<1> QED BY <1>1, <1>7, <1>8 DEF MineInv

\* One preflight goes on and HEAD stays.
LEMMA MinerGoesOn ==
  ASSUME MinersInv, NEW m \in Miners, NEW r \in MinerRecord, ReadAsRecorded(r),
         miner' = [miner EXCEPT ![m] = r], UNCHANGED <<gitHead, moves>>
  PROVE  MinersInv'
<1>1. miner' \in [Miners -> MinerRecord]
  BY DEF MinersInv
<1>2. ASSUME NEW q \in Miners PROVE ReadAsRecorded(miner[q])'
  <2>1. PICK t \in MinerRecord : t = miner'[q] /\ ReadAsRecorded(t)
    BY DEF MinersInv
  <2> QED BY <2>1 DEF ReadAsRecorded
<1> QED BY <1>1, <1>2 DEF MinersInv

\* The steps of a preflight that only read.
LEMMA ReadingStep ==
  ASSUME MinersInv, totals.head \in Commits \cup {NoCommit}, NEW m \in Miners,
         \/ ReadHead(m) \/ Probe(m) \/ Ancestor(m) \/ ReadCommits(m) \/ GiveUp(m)
         \/ ProbeSymbol(m) \/ MineSymbol(m) \/ ReadSymbolCommits(m)
  PROVE  MinersInv'
<1> USE CoChangeAssumption
<1>a. gitHead \in Commits /\ moves \in Nat /\ miner[m] \in MinerRecord
        /\ ReadAsRecorded(miner[m])
  BY DEF MinersInv
<1>1. CASE ReadHead(m)
  <2> DEFINE r == [Waiting EXCEPT !.at = "probe", !.head = gitHead, !.moves = moves]
  <2>1. r \in MinerRecord /\ r.at = "probe" /\ r.head = gitHead /\ r.moves = moves
    BY <1>a DEF Waiting, MinerRecord
  <2>2. miner' = [miner EXCEPT ![m] = r] /\ UNCHANGED <<gitHead, moves>>
    BY <1>1 DEF ReadHead, Becomes
  <2> HIDE DEF r
  <2>3. ReadAsRecorded(r)
    BY <1>a, <2>1 DEF ReadAsRecorded
  <2> QED BY <2>1, <2>2, <2>3, MinerGoesOn
<1>2. CASE GiveUp(m)
  <2>1. PICK r \in MinerRecord : ReadAsRecorded(r) /\ miner' = [miner EXCEPT ![m] = r]
    BY <1>2, <1>a, WaitingIs DEF GiveUp
  <2>2. UNCHANGED <<gitHead, moves>>
    BY <1>2 DEF GiveUp, OnlyMiner
  <2> QED BY <2>1, <2>2, MinerGoesOn
<1>3. CASE Probe(m) /\ totals.head = miner[m].head
  <2>1. miner' = [miner EXCEPT ![m] = [Waiting EXCEPT !.at = "symbol"]] /\ UNCHANGED <<gitHead, moves>>
    BY <1>3 DEF Probe, Becomes, OnlyMiner
  <2> QED BY <1>a, <2>1, WaitingIs, MinerGoesOn
<1>4. CASE ProbeSymbol(m) /\ symbolRules.head = gitHead
  <2>1. /\ miner' = [miner EXCEPT ![m] = [Waiting EXCEPT !.at = "answer", !.symbols = TRUE]]
        /\ UNCHANGED <<gitHead, moves>>
    BY <1>4 DEF ProbeSymbol, Becomes, OnlyMiner
  <2> QED BY <1>a, <2>1, WaitingIs, MinerGoesOn
<1>5. CASE Probe(m) /\ totals.head # miner[m].head
  <2> DEFINE r == [miner[m] EXCEPT !.at = "ancestor", !.previous = totals.head]
  <2>1. r \in MinerRecord /\ ReadAsRecorded(r)
    BY <1>a, <1>5 DEF MinerRecord, ReadAsRecorded, Probe
  <2>2. miner' = [miner EXCEPT ![m] = r] /\ UNCHANGED <<gitHead, moves>>
    BY <1>5 DEF Probe, Becomes, OnlyMiner
  <2> HIDE DEF r
  <2> QED BY <2>1, <2>2, MinerGoesOn
<1>6. CASE Ancestor(m)
  <2>1. PICK says \in BOOLEAN :
          /\ says => /\ miner[m].previous # NoCommit
                     /\ miner[m].previous \in Ancestors[gitHead]
          /\ miner' = [miner EXCEPT ![m] = [miner[m] EXCEPT !.at = "log", !.added = says]]
          /\ UNCHANGED <<gitHead, moves>>
    BY <1>6 DEF Ancestor, Becomes, OnlyMiner
  <2> DEFINE r == [miner[m] EXCEPT !.at = "log", !.added = says]
  <2>2. /\ r \in MinerRecord /\ r.added = says /\ r.at = "log" /\ r.head = miner[m].head
        /\ r.moves = miner[m].moves /\ r.previous = miner[m].previous
    BY <1>a DEF MinerRecord
  <2> HIDE DEF r
  <2>3. ReadAsRecorded(r)
    BY <1>a, <1>6, <2>1, <2>2 DEF ReadAsRecorded, MinerRecord, Ancestor
  <2> QED BY <2>1, <2>2, <2>3, MinerGoesOn DEF r
<1>7. CASE ReadCommits(m)
  <2> DEFINE of == Log(IF miner[m].added THEN Ancestors[gitHead] \ Ancestors[miner[m].previous]
                       ELSE Ancestors[gitHead])
             still == moves = miner[m].moves
             r == [miner[m] EXCEPT !.at = IF miner[m].added THEN "add" ELSE "clear", !.of = of,
                                   !.still = still]
  <2>1. miner[m].at = "log" /\ miner' = [miner EXCEPT ![m] = r] /\ UNCHANGED <<gitHead, moves>>
    BY <1>7 DEF ReadCommits, Becomes, OnlyMiner
  <2>2. of \in SUBSET Commits /\ still \in BOOLEAN
    BY <1>a, LogWithin
  <2>3. /\ r \in MinerRecord /\ r.at \in {"add", "clear"} /\ r.of = of /\ r.still = still
        /\ r.head = miner[m].head /\ r.moves = miner[m].moves
        /\ r.added = miner[m].added /\ r.previous = miner[m].previous
    BY <1>a, <2>2 DEF MinerRecord
  <2> HIDE DEF r
  <2>4. ReadAsRecorded(r)
    BY ZenonT(30), <1>a, <2>1, <2>3 DEF ReadAsRecorded
  <2> QED BY <2>1, <2>3, <2>4, MinerGoesOn
<1>8. CASE ProbeSymbol(m) /\ symbolRules.head # gitHead
  <2> DEFINE r == [miner[m] EXCEPT !.at = "mine", !.head = gitHead, !.moves = moves]
  <2>1. r \in MinerRecord /\ r.at = "mine" /\ r.head = gitHead /\ r.moves = moves
    BY <1>a DEF MinerRecord
  <2>2. miner' = [miner EXCEPT ![m] = r] /\ UNCHANGED <<gitHead, moves>>
    BY <1>8 DEF ProbeSymbol, Becomes, OnlyMiner
  <2> HIDE DEF r
  <2>3. ReadAsRecorded(r)
    BY <1>a, <2>1 DEF ReadAsRecorded
  <2> QED BY <2>1, <2>2, <2>3, MinerGoesOn
<1>9. CASE MineSymbol(m)
  <2> DEFINE r == [miner[m] EXCEPT !.at = "diff", !.of = Log(Ancestors[gitHead])]
  <2>1. miner[m].at = "mine" /\ miner' = [miner EXCEPT ![m] = r] /\ UNCHANGED <<gitHead, moves>>
    BY <1>9 DEF MineSymbol, Becomes, OnlyMiner
  <2>2. /\ r \in MinerRecord /\ r.at = "diff" /\ r.of = Log(Ancestors[gitHead])
        /\ r.head = miner[m].head /\ r.moves = miner[m].moves
    BY <1>a, LogWithin DEF MinerRecord
  <2> HIDE DEF r
  <2>3. ReadAsRecorded(r)
    BY <1>a, <2>1, <2>2 DEF ReadAsRecorded
  <2> QED BY <2>1, <2>2, <2>3, MinerGoesOn
<1>10. CASE ReadSymbolCommits(m)
  <2> DEFINE of == miner[m].of \cap Log({c \in Ancestors[gitHead] : File \in FilesOf[c]})
             still == moves = miner[m].moves
             r == [miner[m] EXCEPT !.at = "store", !.of = of, !.still = still]
  <2>1. miner[m].at = "diff" /\ miner' = [miner EXCEPT ![m] = r] /\ UNCHANGED <<gitHead, moves>>
    BY <1>10 DEF ReadSymbolCommits, Becomes, OnlyMiner
  <2>2. of \in SUBSET Commits /\ still \in BOOLEAN
    BY <1>a DEF MinerRecord
  <2>3. /\ r \in MinerRecord /\ r.at = "store" /\ r.of = of /\ r.still = still
        /\ r.head = miner[m].head /\ r.moves = miner[m].moves
    BY <1>a, <2>2 DEF MinerRecord
  <2>4. still => of = SymbolLog(Ancestors[miner[m].head])
    BY <1>a, <2>1 DEF ReadAsRecorded, SymbolLog
  <2> HIDE DEF r, of, still
  <2>5. ReadAsRecorded(r)
    BY <1>a, <2>1, <2>3, <2>4 DEF ReadAsRecorded
  <2> QED BY <2>1, <2>3, <2>5, MinerGoesOn
<1> QED BY <1>1, <1>2, <1>3, <1>4, <1>5, <1>6, <1>7, <1>8, <1>9, <1>10

LEMMA MoveStep == MineInv /\ Move => MineInv'
<1> SUFFICES ASSUME MineInv, Move PROVE MineInv'
  OBVIOUS
<1>1. /\ gitHead' \in Commits /\ moves' = moves + 1
      /\ UNCHANGED <<totals, symbolRules, miner, spoiled, cleared, answer>>
  BY DEF Move
<1>2. MinersInv'
  <2>1. ASSUME NEW m \in Miners PROVE ReadAsRecorded(miner[m])'
    <3>1. PICK t \in MinerRecord : t = miner[m] /\ miner'[m] = t /\ ReadAsRecorded(t)
      BY <1>1 DEF MineInv, MinersInv
    <3>2. t.moves <= moves' /\ t.moves # moves'
      BY <1>1, <3>1 DEF ReadAsRecorded, MinerRecord, MineInv, MinersInv
    <3> QED BY <3>1, <3>2 DEF ReadAsRecorded
  <2> QED BY <1>1, <2>1 DEF MineInv, MinersInv
<1>3. CountsInv' /\ CompanionsOfThisHistory'
  BY <1>1 DEF MineInv, CountsInv, CompanionsOfThisHistory
<1> QED BY <1>2, <1>3 DEF MineInv

LEMMA ClearStep ==
  ASSUME MineInv, NEW m \in Miners, Clear(m)
  PROVE  MineInv'
<1> USE CoChangeAssumption
<1>a. gitHead \in Commits /\ moves \in Nat /\ miner[m] \in MinerRecord
        /\ ReadAsRecorded(miner[m])
  BY DEF MineInv, MinersInv
<1>1. MinersInv'
  <2> DEFINE r == [miner[m] EXCEPT !.at = "add"]
  <2>1. /\ r \in MinerRecord /\ r.at = "add" /\ r.head = miner[m].head
        /\ r.moves = miner[m].moves /\ r.added = miner[m].added
        /\ r.previous = miner[m].previous /\ r.of = miner[m].of /\ r.still = miner[m].still
    BY <1>a DEF MinerRecord
  <2>2. miner[m].at = "clear" /\ miner' = [miner EXCEPT ![m] = r] /\ UNCHANGED <<gitHead, moves>>
    BY DEF Clear, Becomes
  <2> HIDE DEF r
  <2>3. ReadAsRecorded(r)
    BY <1>a, <2>1, <2>2 DEF ReadAsRecorded
  <2> QED BY <2>1, <2>2, <2>3, MinerGoesOn DEF MineInv
<1>2. /\ totals' = [totals EXCEPT !.n = Nothing] /\ spoiled' # {} /\ cleared' = m
      /\ UNCHANGED <<symbolRules, answer>>
  BY DEF Clear
<1>3. CountsInv'
  <2>1. Nothing \in [Commits -> Nat]
    BY DEF Nothing
  <2>2. totals' \in [head : Commits \cup {NoCommit}, n : [Commits -> Nat]] /\ totals'.n = Nothing
    BY <1>2, <2>1 DEF MineInv, CountsInv
  <2> QED BY <1>2, <2>2 DEF MineInv, CountsInv, History
<1>4. CompanionsOfThisHistory'
  BY <1>2 DEF MineInv, CompanionsOfThisHistory
<1> QED BY <1>1, <1>3, <1>4 DEF MineInv

LEMMA AddStep ==
  ASSUME MineInv, NEW m \in Miners, Add(m)
  PROVE  MineInv'
<1> USE CoChangeAssumption
<1> DEFINE r == miner[m]
           afresh == ~r.added /\ cleared = m
           undisturbed == IF r.added THEN totals.head = r.previous ELSE afresh
<1>a. r \in MinerRecord /\ ReadAsRecorded(r) /\ moves \in Nat /\ m # NoCommit
  BY DEF MineInv, MinersInv
<1>1. /\ r.at = "add"
      /\ totals' = [head |-> r.head, n |-> Tally(totals.n, r.of)]
      /\ spoiled' = (IF afresh THEN {} ELSE spoiled)
                    \cup (IF undisturbed THEN {} ELSE {"overlap"})
                    \cup (IF r.still THEN {} ELSE {"moved"})
                    \cup (IF r.added /\ Capped(r.head) THEN {"capped"} ELSE {})
      /\ miner' = [miner EXCEPT ![m] = [Waiting EXCEPT !.at = "symbol"]]
      /\ cleared' = NoCommit
      /\ UNCHANGED <<gitHead, moves, symbolRules, answer>>
  BY DEF Add, Becomes
<1>2. MinersInv'
  BY <1>a, <1>1, WaitingIs, MinerGoesOn DEF MineInv
<1>3. totals.n \in [Commits -> Nat]
  BY DEF MineInv, CountsInv
<1>4. r.head \in Commits /\ totals'.head = r.head /\ totals'.n = Tally(totals.n, r.of)
  BY <1>a, <1>1 DEF ReadAsRecorded
<1>5. totals' \in [head : Commits \cup {NoCommit}, n : [Commits -> Nat]]
  BY <1>1, <1>3, <1>4, TallyType
<1>6. ASSUME spoiled' = {} PROVE Tally(totals.n, r.of) = Tally(Nothing, Log(Ancestors[r.head]))
  <2>1. r.still /\ undisturbed
    BY <1>1, <1>6
  <2>2. CASE r.added
    <3>1. spoiled = {} /\ totals.head = r.previous /\ ~Capped(r.head)
      BY <1>1, <1>6, <2>1, <2>2
    <3>2. r.previous \in Commits /\ r.previous \in Ancestors[r.head]
            /\ r.of = Log(Ancestors[r.head] \ Ancestors[r.previous])
      BY <1>a, <1>1, <2>1, <2>2 DEF ReadAsRecorded
    <3>3. totals.n = Tally(Nothing, Log(Ancestors[r.previous]))
      BY <3>1, <3>2 DEF MineInv, CountsInv, History
    <3> QED BY <1>4, <3>1, <3>2, <3>3, TallyGrows
  <2>3. CASE ~r.added
    <3>1. cleared = m /\ r.of = Log(Ancestors[r.head])
      BY <1>a, <1>1, <2>1, <2>3 DEF ReadAsRecorded
    <3>2. totals.n = Nothing
      BY <1>a, <3>1 DEF MineInv, CountsInv
    <3> QED BY <3>1, <3>2
  <2> QED BY <2>2, <2>3
<1>7. CountsInv'
  <2>1. spoiled' = {} => totals'.n = Tally(Nothing, Log(History(totals'.head)))
    BY <1>4, <1>6 DEF History
  <2>2. UNCHANGED symbolRules /\ cleared' = NoCommit
    BY <1>1
  <2> HIDE DEF r, afresh, undisturbed
  <2> QED BY <1>5, <2>1, <2>2 DEF MineInv, CountsInv
<1>8. CompanionsOfThisHistory'
  BY <1>1 DEF MineInv, CompanionsOfThisHistory
<1> QED BY <1>2, <1>7, <1>8 DEF MineInv

LEMMA StoreSymbolStep ==
  ASSUME MineInv, NEW m \in Miners, StoreSymbol(m)
  PROVE  MineInv'
<1> USE CoChangeAssumption
<1>a. miner[m] \in MinerRecord /\ ReadAsRecorded(miner[m]) /\ moves \in Nat
  BY DEF MineInv, MinersInv
<1>1. /\ miner[m].at = "store"
      /\ symbolRules' = [head |-> miner[m].head, of |-> miner[m].of, still |-> miner[m].still]
      /\ miner' = [miner EXCEPT ![m] = [Waiting EXCEPT !.at = "answer", !.symbols = TRUE]]
      /\ UNCHANGED <<gitHead, moves, totals, spoiled, cleared, answer>>
  BY DEF StoreSymbol, Becomes
<1>2. MinersInv'
  BY <1>a, <1>1, WaitingIs, MinerGoesOn DEF MineInv
<1>3. /\ symbolRules' \in [head : Commits \cup {NoCommit}, of : SUBSET Commits, still : BOOLEAN]
      /\ symbolRules'.still => symbolRules'.of = SymbolLog(History(symbolRules'.head))
  BY <1>a, <1>1 DEF MinerRecord, ReadAsRecorded, History
<1>4. CountsInv' /\ CompanionsOfThisHistory'
  BY <1>1, <1>3 DEF MineInv, CountsInv, CompanionsOfThisHistory, History
<1> QED BY <1>2, <1>4 DEF MineInv

LEMMA CompanionsStep ==
  ASSUME MineInv, NEW m \in Miners, Companions(m)
  PROVE  MineInv'
<1>a. miner[m] \in MinerRecord /\ moves \in Nat
  BY DEF MineInv, MinersInv
<1> DEFINE s == miner[m].symbols
<1>1. /\ answer' = [head |-> totals.head,
                    symbolHead |-> IF s THEN symbolRules.head ELSE NoCommit,
                    sound |-> spoiled = {} /\ (s => symbolRules.still),
                    companions |-> Merged(totals.n, IF s THEN symbolRules.of ELSE {})]
      /\ miner' = [miner EXCEPT ![m] = Waiting]
      /\ UNCHANGED <<gitHead, moves, totals, symbolRules, spoiled, cleared>>
  BY DEF Companions, Becomes
<1>2. MinersInv'
  BY <1>a, <1>1, WaitingIs, MinerGoesOn DEF MineInv
<1>3. CountsInv'
  BY <1>1 DEF MineInv, CountsInv
<1>4. CompanionsOfThisHistory'
  <2> DEFINE head == IF s THEN symbolRules.head ELSE NoCommit
             of == IF s THEN symbolRules.of ELSE {}
  <2>1. SUFFICES ASSUME spoiled = {}, s => symbolRules.still
                 PROVE  Merged(totals.n, of) = Mined(totals.head, head)
    BY <1>1 DEF CompanionsOfThisHistory
  <2>2. totals.n = Tally(Nothing, Log(History(totals.head)))
    BY <2>1 DEF MineInv, CountsInv
  <2>3. of = SymbolLog(History(head))
    BY <2>1, LogNothing DEF MineInv, CountsInv, History
  <2> QED BY <2>2, <2>3 DEF Mined
<1> QED BY <1>2, <1>3, <1>4 DEF MineInv

LEMMA MineStep == MineInv /\ [MineNext]_minerVars => MineInv'
<1> SUFFICES ASSUME MineInv, [MineNext]_minerVars PROVE MineInv'
  OBVIOUS
<1>1. ASSUME NEW m \in Miners,
             \/ ReadHead(m) \/ Probe(m) \/ Ancestor(m) \/ ReadCommits(m) \/ GiveUp(m)
             \/ ProbeSymbol(m) \/ MineSymbol(m) \/ ReadSymbolCommits(m)
      PROVE  MineInv'
  <2>1. totals.head \in Commits \cup {NoCommit}
    BY DEF MineInv, CountsInv
  <2>2. MinersInv'
    BY <1>1, <2>1, ReadingStep DEF MineInv
  <2>3. UNCHANGED <<totals, symbolRules, spoiled, cleared, answer>>
    BY <1>1 DEF ReadHead, Probe, Ancestor, ReadCommits, GiveUp, ProbeSymbol, MineSymbol,
                ReadSymbolCommits, OnlyMiner
  <2>4. CountsInv' /\ CompanionsOfThisHistory'
    BY <2>3 DEF MineInv, CountsInv, CompanionsOfThisHistory
  <2> QED BY <2>2, <2>4 DEF MineInv
<1>2. CASE UNCHANGED minerVars
  <2>1. UNCHANGED <<gitHead, moves, totals, symbolRules, miner, spoiled, cleared, answer>>
    BY <1>2 DEF minerVars
  <2>2. MinersInv'
    BY <2>1 DEF MineInv, MinersInv, ReadAsRecorded
  <2>3. CountsInv' /\ CompanionsOfThisHistory'
    BY <2>1 DEF MineInv, CountsInv, CompanionsOfThisHistory
  <2> QED BY <2>2, <2>3 DEF MineInv
<1> QED
  BY <1>1, <1>2, MoveStep, ClearStep, AddStep, StoreSymbolStep, CompanionsStep
     DEF MineNext, MinerStep

\* Counts that went through none of the known gaps give the companions a fresh
\* reading of the recorded history gives, for any history, merges and any cap,
\* any number of preflights at the same time and however HEAD moves.
THEOREM CompanionsCorrect == MineSpec => []CompanionsOfThisHistory
<1>1. MineInv => CompanionsOfThisHistory
  BY DEF MineInv
<1> QED BY <1>1, MineStart, MineStep, PTL DEF MineSpec

(***************************************************************************)
(* MapCache: a map is of the question asked and of one commit, no older    *)
(* than the main file was.                                                 *)
(***************************************************************************)

Revisions == [sym : Nat, ref : Nat]
NoOlder(m, k) == m.sym >= k.sym /\ m.ref >= k.ref

\* What may be remembered: under a commit and a question, the map of that question
\* for a commit that is no older.
GoodEntries ==
  {e \in {[key |-> <<k, q>>, map |-> [commit |-> n, of |-> q]] :
            k \in ToSet(made), n \in ToSet(made), q \in Questions} :
     NoOlder(e.map.commit, e.key[1])}

CommitsInv ==
  /\ made \in Seq(Revisions)
  /\ \A k \in ToSet(made) : NoOlder(Latest, k)
  /\ rows \in {NoRows, Latest}
  /\ mainFile \in ToSet(made) \cup {NoRows}
  /\ symbolFile \in Revisions
  /\ mapWriters \subseteq MapProcesses \X Nat

RememberedInv ==
  /\ memory \in [MapProcesses -> Seq(GoodEntries)]
  /\ mapFile \in GoodEntries \cup {NoEntry}

MapCallRecord ==
  [at : {"none", "key", "memory", "disk", "compute", "store", "write", "give"},
   q : Questions \cup {"none"}, key : {<<>>} \cup (Revisions \X Questions),
   map : [commit : Revisions, of : Questions \cup {"none"}], main : Revisions]

\* What a call knows: a key that is no older than the main file was when it began,
\* and a map that is good under that key.
WellAsked(r) ==
  /\ NoOlder(Latest, r.main)
  /\ r.at = "key" => r.q \in Questions /\ (mainFile = NoRows \/ NoOlder(mainFile, r.main))
  /\ r.at \in {"memory", "disk", "compute", "store", "write"}
       => /\ r.q \in Questions
          /\ \E k \in ToSet(made) : r.key = <<k, r.q>> /\ NoOlder(k, r.main)
  /\ r.at \in {"store", "write"} => [key |-> r.key, map |-> r.map] \in GoodEntries
  /\ r.at \in {"write", "give"}
       => /\ r.map.of = r.q /\ r.map.commit \in ToSet(made)
          /\ NoOlder(r.map.commit, r.main)

CallsInv ==
  /\ mapCall \in [MapCallers -> MapCallRecord]
  /\ \A c \in MapCallers : WellAsked(mapCall[c])

MapInv == CommitsInv /\ RememberedInv /\ CallsInv /\ MapOfTheIndex

-----------------------------------------------------------------------------
(* Sequences of commits and of entries.                                    *)

LEMMA NoRowsType == NoRows \in Revisions
  BY DEF NoRows, Revisions

LEMMA LatestIs ==
  ASSUME made \in Seq(Revisions)
  PROVE  Latest \in Revisions /\ (made # <<>> => Latest \in ToSet(made))
                              /\ (made = <<>> => Latest = NoRows)
                              /\ ToSet(made) \subseteq Revisions
<1>1. made # <<>> => Len(made) \in DOMAIN made
  OBVIOUS
<1> QED BY <1>1, NoRowsType DEF Latest, Last, ToSet

LEMMA EntriesGrow ==
  ASSUME ToSet(made) \subseteq ToSet(made)'
  PROVE  GoodEntries \subseteq GoodEntries' /\ Seq(GoodEntries) \subseteq Seq(GoodEntries')
<1>1. ASSUME NEW e \in GoodEntries PROVE e \in GoodEntries'
  <2>1. PICK k \in ToSet(made), n \in ToSet(made), q \in Questions :
          e = [key |-> <<k, q>>, map |-> [commit |-> n, of |-> q]]
    BY DEF GoodEntries
  <2>2. NoOlder(e.map.commit, e.key[1])
    BY DEF GoodEntries
  <2> QED BY <2>1, <2>2 DEF GoodEntries, NoOlder
<1> QED BY <1>1, SeqMonotonic

\* What is good under a key.
LEMMA EntryParts ==
  ASSUME NEW e \in GoodEntries
  PROVE  \E k \in ToSet(made), q \in Questions :
           /\ e.key = <<k, q>> /\ e.map.of = q
           /\ e.map.commit \in ToSet(made) /\ NoOlder(e.map.commit, k)
<1>1. PICK k \in ToSet(made), n \in ToSet(made), q \in Questions :
        e = [key |-> <<k, q>>, map |-> [commit |-> n, of |-> q]]
  BY DEF GoodEntries
<1>2. NoOlder(e.map.commit, e.key[1])
  BY DEF GoodEntries
<1> QED BY <1>1, <1>2

\* Remembering adds one entry, moves none but it, and drops from the front.
LEMMA RememberType ==
  ASSUME NEW S, NEW m \in Seq(S), NEW e \in S
  PROVE  Remember(m, e) \in Seq(S)
<1> DEFINE old == Places(m, e.key)
           place == CHOOSE i \in old : TRUE
           others == IF old = {} THEN m ELSE RemoveAt(m, place)
           kept == Append(others, e)
<1>1. others \in Seq(S)
  <2>1. CASE old = {}
    BY <2>1
  <2>2. CASE old # {}
    <3>1. place \in 1..Len(m) /\ Len(m) \in Nat
      BY <2>2, LenProperties DEF Places
    <3>2. \A i \in 1..Len(m) : m[i] \in S
      BY ElementOfSeq
    <3> HIDE DEF place
    <3>3. SubSeq(m, 1, place - 1) \in Seq(S)
      <4>1. /\ 1 \in Int /\ place - 1 \in Int
            /\ \A i \in 1..(place - 1) : m[i] \in S
        BY <3>1, <3>2
      <4> QED BY <4>1, SubSeqProperties
    <3>4. SubSeq(m, place + 1, Len(m)) \in Seq(S)
      <4>1. /\ place + 1 \in Int /\ Len(m) \in Int
            /\ \A i \in (place + 1)..Len(m) : m[i] \in S
        BY <3>1, <3>2
      <4> QED BY <4>1, SubSeqProperties
    <3>5. RemoveAt(m, place) \in Seq(S)
      BY <3>3, <3>4, ConcatProperties DEF RemoveAt
    <3> QED BY <2>2, <3>5
  <2> QED BY <2>1, <2>2
<1> HIDE DEF others
<1>2. kept \in Seq(S)
  BY <1>1, AppendProperties
<1> HIDE DEF kept
<1>3. Len(kept) > MapCacheLimit => SubSeq(kept, Len(kept) - MapCacheLimit + 1, Len(kept)) \in Seq(S)
  <2>1. Len(kept) \in Nat /\ MapCacheLimit \in Nat
    BY <1>2, MapAssumption, LenProperties
  <2>2. \A i \in 1..Len(kept) : kept[i] \in S
    BY <1>2, ElementOfSeq
  <2> QED BY <2>1, <2>2, SubSeqProperties
<1> QED BY <1>2, <1>3 DEF Remember, kept, others

-----------------------------------------------------------------------------
LEMMA MapStart == MapInit => MapInv
<1> SUFFICES ASSUME MapInit PROVE MapInv
  OBVIOUS
<1> USE DEF MapInit
<1>1. made \in Seq(Revisions)
  <2>1. [sym |-> 1, ref |-> 0] \in Revisions
    BY DEF Revisions
  <2>2. <<>> \in Seq(Revisions) /\ <<[sym |-> 1, ref |-> 0]>> \in Seq(Revisions)
    BY <2>1, EmptySeq
  <2> QED BY <2>2
<1>2. Latest \in Revisions /\ (made # <<>> => Latest \in ToSet(made))
        /\ (made = <<>> => Latest = NoRows) /\ ToSet(made) \subseteq Revisions
  BY <1>1, LatestIs
<1>3. \A k \in ToSet(made) : NoOlder(Latest, k)
  <2>1. \A k \in ToSet(made) : k = Latest
    BY DEF ToSet, Latest, Last
  <2> QED BY <1>2, <2>1 DEF NoOlder, Revisions
<1>4. CommitsInv
  BY <1>1, <1>2, <1>3, NoRowsType DEF CommitsInv
<1>5. RememberedInv
  BY EmptySeq DEF RememberedInv
<1>6. CallsInv
  <2>1. NoMapCall \in MapCallRecord
    BY NoRowsType DEF NoMapCall, NoMap, MapCallRecord
  <2>2. WellAsked(NoMapCall)
    BY <1>2 DEF NoMapCall, WellAsked, NoOlder, NoRows, Revisions
  <2> QED BY <2>1, <2>2 DEF CallsInv
<1>7. MapOfTheIndex
  BY DEF MapOfTheIndex
<1> QED BY <1>4, <1>5, <1>6, <1>7 DEF MapInv

-----------------------------------------------------------------------------
(* Steps that make the index another one.                                  *)

\* More commits, the last of them new, and the main file that of before or the new one.
LEMMA CommitStep ==
  ASSUME MapInv, NEW new \in Revisions, NoOlder(new, Latest), Commit(new),
         UNCHANGED <<memory, mapFile, symbolFile, mapWriters, mapCall, mapLast>>
  PROVE  MapInv'
<1> USE DEF MapInv
<1>1. made \in Seq(Revisions) /\ made' = Append(made, new) /\ rows' = new
        /\ mainFile' = IF mainFile # NoRows THEN mainFile ELSE new
  BY DEF Commit, CommitsInv
<1>2. made' \in Seq(Revisions) /\ Latest' = new
  BY <1>1, AppendProperties DEF Latest, Last
<1>3. ToSet(made)' = ToSet(made) \cup {new}
  BY <1>1 DEF ToSet
<1>4. Latest \in Revisions /\ ToSet(made) \subseteq Revisions
  BY <1>1, LatestIs
<1>5. \A k \in Revisions : NoOlder(Latest, k) => NoOlder(new, k)
  BY <1>4 DEF NoOlder, Revisions
<1>6. CommitsInv'
  BY <1>1, <1>2, <1>3, <1>4, <1>5 DEF CommitsInv, NoOlder, Revisions
<1>7. GoodEntries \subseteq GoodEntries' /\ Seq(GoodEntries) \subseteq Seq(GoodEntries')
  BY <1>3, EntriesGrow
<1>8. RememberedInv'
  BY <1>7 DEF RememberedInv
<1>9. CallsInv'
  <2>1. ASSUME NEW c \in MapCallers PROVE WellAsked(mapCall[c])'
    <3>1. PICK r \in MapCallRecord : r = mapCall[c] /\ WellAsked(r)
      BY DEF CallsInv
    <3>2. NoOlder(new, r.main)
      BY <1>5, <3>1 DEF WellAsked, MapCallRecord
    <3>3. r.at = "key" => mainFile' = NoRows \/ NoOlder(mainFile', r.main)
      BY <1>1, <3>1, <3>2 DEF WellAsked
    <3>4. r.at \in {"memory", "disk", "compute", "store", "write"}
            => \E k \in ToSet(made)' : r.key = <<k, r.q>> /\ NoOlder(k, r.main)
      BY <1>3, <3>1 DEF WellAsked
    <3>5. r.at \in {"store", "write"} => [key |-> r.key, map |-> r.map] \in GoodEntries'
      BY <1>7, <3>1 DEF WellAsked
    <3>6. r.at \in {"write", "give"} => r.map.of = r.q /\ r.map.commit \in ToSet(made)'
                               /\ NoOlder(r.map.commit, r.main)
      BY <1>3, <3>1 DEF WellAsked
    <3>7. r = mapCall'[c] /\ (r.at \in {"key", "memory", "disk", "compute", "store", "write"}
                               => r.q \in Questions)
      BY <3>1 DEF WellAsked
    <3> HIDE DEF GoodEntries
    <3> QED BY <1>2, <3>2, <3>3, <3>4, <3>5, <3>6, <3>7 DEF WellAsked
  <2> QED BY <2>1 DEF CallsInv
<1>10. MapOfTheIndex'
  BY <1>3 DEF MapOfTheIndex
<1> QED BY <1>6, <1>8, <1>9, <1>10

\* The commits stay, and the main file shows none, the last, or what it showed.
LEMMA FileStep ==
  ASSUME MapInv, UNCHANGED <<made, memory, mapCall, mapLast>>,
         rows' \in {NoRows, Latest}, mainFile' \in {NoRows, Latest, mainFile},
         mapFile' \in {NoEntry, mapFile}, symbolFile' \in Revisions,
         mapWriters' \subseteq MapProcesses \X Nat
  PROVE  MapInv'
<1> USE DEF MapInv
<1>1. Latest' = Latest /\ ToSet(made)' = ToSet(made) /\ GoodEntries' = GoodEntries
  BY DEF Latest, ToSet, GoodEntries, NoOlder
<1>2. CommitsInv'
  <2>1. Latest \in ToSet(made) \cup {NoRows}
    BY LatestIs DEF CommitsInv
  <2> QED BY <1>1, <2>1 DEF CommitsInv
<1>3. RememberedInv'
  BY <1>1 DEF RememberedInv
<1>4. CallsInv'
  <2>1. ASSUME NEW c \in MapCallers PROVE WellAsked(mapCall[c])'
    BY <1>1 DEF CallsInv, WellAsked
  <2> QED BY <2>1 DEF CallsInv
<1>5. MapOfTheIndex'
  BY <1>1 DEF MapOfTheIndex
<1> QED BY <1>2, <1>3, <1>4, <1>5

-----------------------------------------------------------------------------
(* Steps of a call.                                                        *)

LEMMA CallGoesOn ==
  ASSUME MapInv, UNCHANGED <<rows, mainFile, made, mapLast>>,
         memory' \in [MapProcesses -> Seq(GoodEntries)], mapFile' \in GoodEntries \cup {NoEntry},
         symbolFile' \in Revisions, mapWriters' \subseteq MapProcesses \X Nat,
         NEW c \in MapCallers, NEW r \in MapCallRecord, WellAsked(r),
         mapCall' = [mapCall EXCEPT ![c] = r]
  PROVE  MapInv'
<1> USE DEF MapInv
<1>1. Latest' = Latest /\ ToSet(made)' = ToSet(made) /\ GoodEntries' = GoodEntries
  BY DEF Latest, ToSet, GoodEntries, NoOlder
<1>2. CommitsInv' /\ RememberedInv' /\ MapOfTheIndex'
  BY <1>1 DEF CommitsInv, RememberedInv, MapOfTheIndex
<1>3. mapCall' \in [MapCallers -> MapCallRecord]
  BY DEF CallsInv
<1>4. ASSUME NEW b \in MapCallers PROVE WellAsked(mapCall[b])'
  <2>1. PICK t : t = mapCall'[b] /\ WellAsked(t)
    BY DEF CallsInv
  <2> QED BY <1>1, <2>1 DEF WellAsked
<1> QED BY <1>2, <1>3, <1>4 DEF CallsInv

LEMMA NoCallIs ==
  ASSUME MapInv
  PROVE  NoMapCall \in MapCallRecord /\ WellAsked(NoMapCall)
<1>1. NoMapCall \in MapCallRecord
  BY NoRowsType DEF NoMapCall, NoMap, MapCallRecord
<1>2. Latest \in Revisions
  BY LatestIs DEF MapInv, CommitsInv
<1>3. WellAsked(NoMapCall)
  BY <1>2 DEF NoMapCall, WellAsked, NoOlder, NoRows, Revisions
<1> QED BY <1>1, <1>3

LEMMA MapCallStep ==
  ASSUME MapInv, NEW c \in MapCallers, MapStep(c)
  PROVE  MapInv'
<1> DEFINE r == mapCall[c]
           place == MapProcess[c]
<1>a. /\ r \in MapCallRecord /\ WellAsked(r)
      /\ Latest \in Revisions /\ ToSet(made) \subseteq Revisions
      /\ (made # <<>> => Latest \in ToSet(made)) /\ (made = <<>> => Latest = NoRows)
      /\ \A k \in ToSet(made) : NoOlder(Latest, k)
  BY LatestIs DEF MapInv, CommitsInv, CallsInv
<1>b. /\ memory \in [MapProcesses -> Seq(GoodEntries)] /\ mapFile \in GoodEntries \cup {NoEntry}
      /\ symbolFile \in Revisions /\ mapWriters \subseteq MapProcesses \X Nat
      /\ place \in MapProcesses /\ mainFile \in ToSet(made) \cup {NoRows}
      /\ rows \in {NoRows, Latest}
  BY DEF MapInv, CommitsInv, RememberedInv, MapProcesses
<1>c. ASSUME NEW e \in GoodEntries
      PROVE  [memory EXCEPT ![place] = Remember(@, e)] \in [MapProcesses -> Seq(GoodEntries)]
  BY <1>b, RememberType
<1>1. ASSUME NEW q \in Questions, AskMap(c, q) PROVE MapInv'
  <2> DEFINE s == [NoMapCall EXCEPT !.at = "key", !.q = q, !.main = mainFile]
  <2>1. mainFile \in Revisions
    BY <1>a, <1>b, NoRowsType
  <2>2. s \in MapCallRecord /\ s.at = "key" /\ s.q = q /\ s.main = mainFile
    BY <2>1, NoRowsType DEF NoMapCall, NoMap, MapCallRecord
  <2>3. mapCall' = [mapCall EXCEPT ![c] = s]
    BY <1>1 DEF AskMap
  <2> HIDE DEF s
  <2>4. NoOlder(mainFile, mainFile) /\ NoOlder(Latest, mainFile)
    BY <1>a, <1>b, <2>1 DEF NoOlder, NoRows, Revisions
  <2>5. WellAsked(s)
    BY <2>2, <2>4 DEF WellAsked
  <2> QED BY <1>1, <1>b, <2>2, <2>3, <2>5, CallGoesOn DEF AskMap
<1>2. CASE MapKey(c)
  <2>1. CASE mainFile = NoRows
    <3>1. mapCall' = [mapCall EXCEPT ![c] = NoMapCall]
      BY <1>2, <2>1 DEF MapKey
    <3> QED BY <1>2, <1>b, <3>1, NoCallIs, CallGoesOn DEF MapKey
  <2>2. CASE mainFile # NoRows
    <3> DEFINE s == [r EXCEPT !.at = "memory", !.key = <<mainFile, r.q>>]
    <3>1. mapCall' = [mapCall EXCEPT ![c] = s] /\ r.at = "key"
      BY <1>2, <2>2 DEF MapKey, MapInv, CallsInv
    <3>2. r.q \in Questions /\ NoOlder(mainFile, r.main) /\ mainFile \in ToSet(made)
      BY <1>a, <1>b, <2>2, <3>1 DEF WellAsked
    <3>3. /\ s \in MapCallRecord /\ s.at = "memory" /\ s.key = <<mainFile, r.q>>
          /\ s.q = r.q /\ s.main = r.main
      BY <1>a, <3>2 DEF MapCallRecord
    <3> HIDE DEF s
    <3>4. WellAsked(s)
      BY <1>a, <3>2, <3>3 DEF WellAsked
    <3> QED BY <1>2, <1>b, <3>1, <3>3, <3>4, CallGoesOn DEF MapKey
  <2> QED BY <2>1, <2>2
<1>3. ASSUME NEW e \in GoodEntries, e.key = r.key, r.at \in {"memory", "disk"},
             mapCall' = Give(c, e.map), memory' = [memory EXCEPT ![place] = Remember(@, e)],
             UNCHANGED <<rows, mainFile, made, mapFile, symbolFile, mapWriters, mapLast>>
      PROVE  MapInv'
  <2>1. PICK k \in ToSet(made), q \in Questions :
          /\ e.key = <<k, q>> /\ e.map.of = q
          /\ e.map.commit \in ToSet(made) /\ NoOlder(e.map.commit, k)
    BY EntryParts
  <2>2. PICK j \in ToSet(made) : r.key = <<j, r.q>> /\ NoOlder(j, r.main)
    BY <1>3, <1>a DEF WellAsked
  <2>3. j = k /\ r.q = q
    <3>1. <<k, q>> = <<j, r.q>>
      BY <1>3, <2>1, <2>2
    <3> QED BY <3>1
  <2>4. NoOlder(e.map.commit, r.main)
    BY SMTT(30), <1>a, <2>1, <2>2, <2>3 DEF NoOlder, Revisions, MapCallRecord
  <2>5. e.map \in [commit : Revisions, of : Questions \cup {"none"}]
    BY <1>a DEF GoodEntries
  <2> DEFINE s == [r EXCEPT !.at = "give", !.map = e.map]
  <2>6. /\ s \in MapCallRecord /\ s.at = "give" /\ s.map = e.map
        /\ s.q = r.q /\ s.main = r.main
    BY <1>a, <2>5 DEF MapCallRecord
  <2>7. mapCall' = [mapCall EXCEPT ![c] = s]
    BY <1>3 DEF Give, MapInv, CallsInv, MapCallRecord
  <2> HIDE DEF s
  <2>8. WellAsked(s)
    BY <1>a, <2>1, <2>3, <2>4, <2>6 DEF WellAsked
  <2> QED BY <1>3, <1>b, <1>c, <2>6, <2>7, <2>8, CallGoesOn
<1>4. ASSUME NEW at \in {"disk", "compute"}, r.at \in {"memory", "disk"},
             mapCall' = [mapCall EXCEPT ![c].at = at],
             UNCHANGED <<rows, mainFile, made, memory, mapFile, symbolFile, mapWriters, mapLast>>
      PROVE  MapInv'
  <2> DEFINE s == [r EXCEPT !.at = at]
  <2>1. /\ s \in MapCallRecord /\ s.at = at /\ s.key = r.key /\ s.q = r.q /\ s.main = r.main
    BY <1>a DEF MapCallRecord
  <2>2. mapCall' = [mapCall EXCEPT ![c] = s]
    BY <1>4
  <2> HIDE DEF s
  <2>3. WellAsked(s)
    BY <1>4, <1>a, <2>1 DEF WellAsked
  <2> QED BY <1>4, <1>b, <2>1, <2>2, <2>3, CallGoesOn
<1>5. CASE FromMemory(c)
  <2>1. ASSUME NEW i \in Places(Recent(c), r.key),
               memory' = [memory EXCEPT ![place] = Remember(@, Recent(c)[i])],
               mapCall' = Give(c, Recent(c)[i].map)
        PROVE  MapInv'
    <3>1. Recent(c) \in Seq(GoodEntries)
      BY <1>b DEF Recent
    <3>2. Recent(c)[i] \in GoodEntries /\ Recent(c)[i].key = r.key
      BY <3>1 DEF Places
    <3> QED BY <1>3, <1>5, <2>1, <3>2 DEF FromMemory
  <2> QED BY <1>4, <1>5, <2>1 DEF FromMemory
<1>6. CASE FromDisk(c)
  <2>1. CASE Persisted(c)
    <3>1. PICK k \in ToSet(made) : r.key = <<k, r.q>>
      BY <1>6, <1>a DEF FromDisk, WellAsked
    <3>2. mapFile \in GoodEntries /\ mapFile.key = r.key
      <4>1. <<k, r.q>> # <<>> /\ NoEntry.key = <<>>
        BY DEF NoEntry
      <4> QED BY <1>b, <2>1, <3>1, <4>1 DEF Persisted
    <3> QED BY <1>3, <1>6, <2>1, <3>2 DEF FromDisk
  <2>2. CASE ~Persisted(c)
    BY <1>4, <1>6, <2>2 DEF FromDisk
  <2> QED BY <2>1, <2>2
<1>7. CASE Compute(c)
  <2> DEFINE read == [sym |-> IF SnapshotFits THEN symbolFile.sym ELSE rows.sym, ref |-> rows.ref]
             s == [r EXCEPT !.at = "store", !.map = [commit |-> read, of |-> r.q]]
  <2>1. rows = Latest /\ Latest \in ToSet(made) /\ r.at = "compute"
    BY <1>7, <1>a, <1>b DEF Compute
  <2>2. read = Latest
    BY <1>a, <2>1 DEF SnapshotFits, Revisions
  <2>3. PICK k \in ToSet(made) : r.key = <<k, r.q>> /\ NoOlder(k, r.main) /\ r.q \in Questions
    BY <1>a, <2>1 DEF WellAsked
  <2>4. /\ s \in MapCallRecord /\ s.at = "store" /\ s.map = [commit |-> Latest, of |-> r.q]
        /\ s.key = r.key /\ s.q = r.q /\ s.main = r.main
    BY <1>a, <2>2, <2>3 DEF MapCallRecord
  <2>5. mapCall' = [mapCall EXCEPT ![c] = s]
    BY <1>7 DEF Compute, MapInv, CallsInv, MapCallRecord
  <2>6. [key |-> r.key, map |-> [commit |-> Latest, of |-> r.q]] \in GoodEntries
    BY <1>a, <2>1, <2>3 DEF GoodEntries
  <2>7. symbolFile' \in Revisions /\ mapWriters' \subseteq MapProcesses \X Nat
    <3>1. SymbolSnapshot(read.sym) \in Revisions /\ rows.sym \in Nat
      BY <1>a, <2>1, <2>2 DEF SymbolSnapshot, Revisions
    <3> QED BY <1>7, <1>b, <3>1 DEF Compute
  <2> HIDE DEF s, read
  <2>8. WellAsked(s)
    BY <1>a, <2>3, <2>4, <2>6 DEF WellAsked
  <2> QED BY <1>7, <1>b, <2>4, <2>5, <2>7, <2>8, CallGoesOn DEF Compute
<1>8. CASE ComputeNothing(c)
  BY <1>8, <1>b, NoCallIs, CallGoesOn DEF ComputeNothing
<1>e. ASSUME r.at \in {"store", "write"}
      PROVE  /\ Entry(c) \in GoodEntries
             /\ r.map.of = r.q /\ r.map.commit \in ToSet(made) /\ NoOlder(r.map.commit, r.main)
  <2>1. Entry(c) \in GoodEntries
    BY <1>e, <1>a DEF Entry, WellAsked
  <2>2. PICK k \in ToSet(made), q \in Questions :
          /\ r.key = <<k, q>> /\ r.map.of = q
          /\ r.map.commit \in ToSet(made) /\ NoOlder(r.map.commit, k)
    BY <2>1, EntryParts DEF Entry
  <2>3. PICK j \in ToSet(made) : r.key = <<j, r.q>> /\ NoOlder(j, r.main)
    BY <1>e, <1>a DEF WellAsked
  <2>4. j = k /\ r.q = q
    BY <2>2, <2>3
  <2>5. NoOlder(r.map.commit, r.main)
    BY <1>a, <2>2, <2>3, <2>4 DEF NoOlder, Revisions, MapCallRecord
  <2> QED BY <2>1, <2>2, <2>4, <2>5
<1>9. CASE Store(c)
  <2> DEFINE s == [r EXCEPT !.at = "write"]
  <2>1. /\ s \in MapCallRecord /\ s.at = "write" /\ s.key = r.key /\ s.map = r.map
        /\ s.q = r.q /\ s.main = r.main
    BY <1>a DEF MapCallRecord
  <2>2. mapCall' = [mapCall EXCEPT ![c] = s] /\ r.at = "store"
    BY <1>9 DEF Store
  <2>3. memory' = [memory EXCEPT ![place] = Remember(@, Entry(c))]
    BY <1>9 DEF Store
  <2> HIDE DEF s
  <2>4. WellAsked(s)
    BY <1>a, <1>e, <2>1, <2>2 DEF WellAsked
  <2> QED BY <1>9, <1>b, <1>c, <1>e, <2>1, <2>2, <2>3, <2>4, CallGoesOn DEF Store
<1>10. CASE WriteMap(c)
  <2> DEFINE s == [r EXCEPT !.at = "give"]
  <2>1. /\ s \in MapCallRecord /\ s.at = "give" /\ s.map = r.map /\ s.q = r.q /\ s.main = r.main
    BY <1>a DEF MapCallRecord
  <2>2. mapCall' = [mapCall EXCEPT ![c] = s] /\ r.at = "write" /\ mapFile' \in {mapFile, Entry(c)}
    BY <1>10 DEF WriteMap
  <2> HIDE DEF s
  <2>3. WellAsked(s)
    BY <1>a, <1>e, <2>1, <2>2 DEF WellAsked
  <2> QED BY <1>10, <1>b, <1>e, <2>1, <2>2, <2>3, CallGoesOn DEF WriteMap
<1>11. CASE GiveMap(c)
  <2>1. mapLast' = [r EXCEPT !.key = <<>>] /\ r.at = "give"
    BY <1>11 DEF GiveMap
  <2>2. /\ mapLast'.map = r.map /\ mapLast'.q = r.q /\ mapLast'.main = r.main
        /\ r.map.of = r.q /\ r.map.commit \in ToSet(made) /\ NoOlder(r.map.commit, r.main)
    BY <1>a, <2>1 DEF WellAsked, MapCallRecord
  <2>3. UNCHANGED <<rows, mainFile, made, memory, mapFile, symbolFile, mapWriters>>
          /\ mapCall' = [mapCall EXCEPT ![c] = NoMapCall]
    BY <1>11 DEF GiveMap
  <2>4. Latest' = Latest /\ ToSet(made)' = ToSet(made) /\ GoodEntries' = GoodEntries
    BY <2>3 DEF Latest, ToSet, GoodEntries, NoOlder
  <2>5. CommitsInv' /\ RememberedInv'
    BY <2>3, <2>4 DEF MapInv, CommitsInv, RememberedInv
  <2>6. CallsInv'
    <3>1. mapCall' \in [MapCallers -> MapCallRecord]
      BY <2>3, NoCallIs DEF MapInv, CallsInv
    <3>2. ASSUME NEW b \in MapCallers PROVE WellAsked(mapCall[b])'
      <4>1. PICK t : t = mapCall'[b] /\ WellAsked(t)
        BY <2>3, NoCallIs DEF MapInv, CallsInv
      <4> QED BY <2>3, <2>4, <4>1 DEF WellAsked
    <3> QED BY <3>1, <3>2 DEF CallsInv
  <2>7. MapOfTheIndex'
    BY <2>2, <2>4 DEF MapOfTheIndex, NoOlder
  <2> QED BY <2>5, <2>6, <2>7 DEF MapInv
<1> QED
  BY <1>1, <1>2, <1>5, <1>6, <1>7, <1>8, <1>9, <1>10, <1>11 DEF MapStep

LEMMA MapNextStep == MapInv /\ [MapNext]_mapVars => MapInv'
<1> SUFFICES ASSUME MapInv, [MapNext]_mapVars PROVE MapInv'
  OBVIOUS
<1>a. Latest \in Revisions /\ rows \in {NoRows, Latest} /\ symbolFile \in Revisions
        /\ mapWriters \subseteq MapProcesses \X Nat
  BY LatestIs DEF MapInv, CommitsInv
<1>1. CASE CommitIndex
  <2> DEFINE new == [Latest EXCEPT !.sym = @ + 1]
  <2>1. new \in Revisions /\ NoOlder(new, Latest)
    BY <1>a DEF Revisions, NoOlder
  <2> HIDE DEF new
  <2>2. Commit(new) /\ UNCHANGED <<memory, mapFile, symbolFile, mapWriters, mapCall, mapLast>>
    BY <1>1 DEF CommitIndex, new
  <2> QED BY <2>1, <2>2, CommitStep
<1>2. CASE CommitReferences
  <2> DEFINE new == [Latest EXCEPT !.ref = @ + 1]
  <2>1. new \in Revisions /\ NoOlder(new, Latest)
    BY <1>a DEF Revisions, NoOlder
  <2> HIDE DEF new
  <2>2. Commit(new) /\ UNCHANGED <<memory, mapFile, symbolFile, mapWriters, mapCall, mapLast>>
    BY <1>2 DEF CommitReferences, new
  <2> QED BY <2>1, <2>2, CommitStep
<1>3. CASE Checkpoint
  BY <1>3, <1>a, FileStep DEF Checkpoint
<1>4. CASE Collect
  BY <1>4, <1>a, NoRowsType, FileStep DEF Collect
<1>5. ASSUME NEW w \in mapWriters, WriteSymbols(w) PROVE MapInv'
  <2>1. SymbolSnapshot(w[2]) \in Revisions
    BY <1>a DEF SymbolSnapshot, Revisions
  <2>2. /\ UNCHANGED <<rows, mainFile, made, memory, mapFile, mapCall, mapLast>>
        /\ symbolFile' \in Revisions /\ mapWriters' \subseteq MapProcesses \X Nat
    BY <1>5, <1>a, <2>1 DEF WriteSymbols
  <2> QED BY <1>a, <2>2, FileStep
<1>6. CASE UNCHANGED mapVars
  <2>1. UNCHANGED <<rows, mainFile, made, memory, mapFile, symbolFile, mapWriters, mapCall, mapLast>>
    BY <1>6 DEF mapVars
  <2> QED BY <1>a, <2>1, FileStep
<1> QED
  BY <1>1, <1>2, <1>3, <1>4, <1>5, <1>6, MapCallStep DEF MapNext

\* Whatever commits, checkpoints, collections and threads run beside the calls, a
\* map is of the question asked and of a commit the index went through, no older
\* than the main file was when the call began.
THEOREM MapsCorrect == MapSpec => []MapOfTheIndex
<1>1. MapInv => MapOfTheIndex
  BY DEF MapInv
<1> QED BY <1>1, MapStart, MapNextStep, PTL DEF MapSpec

(***************************************************************************)
(* Review: no answer lets silence pass for absence.                        *)
(***************************************************************************)
-----------------------------------------------------------------------------
(* Induction over data.  A set of numbers has a least one, so what holds   *)
(* of 0 and of a number when of the one before it holds up to any bound;   *)
(* from it the same for the subsets of a finite set, by their size.        *)

LEMMA Smallest ==
  ASSUME NEW T \in SUBSET Nat, T # {}
  PROVE  \E m \in T : \A n \in T : m <= n
<1>1. \E x \in T : \A y \in T : ~ (<<y, x>> \in OpToRel(<,Nat))
  BY NatLessThanWellFounded, WFMin, Zenon
<1>2. \E x \in T : \A y \in T : ~ (<<y, x>> \in {s \in Nat \X Nat : s[1] < s[2]})
  BY <1>1 DEF OpToRel
<1>3. PICK x \in T : \A y \in T : ~ (<<y, x>> \in {s \in Nat \X Nat : s[1] < s[2]})
  BY <1>2
<1>4. ASSUME NEW y \in T, y < x PROVE FALSE
  <2>1. <<y, x>> \in Nat \X Nat /\ <<y, x>>[1] < <<y, x>>[2]
    BY <1>4
  <2> QED BY <2>1, <1>3, Zenon
<1> QED BY <1>4

LEMMA UpTo ==
  ASSUME NEW n \in Nat, NEW T, 0 \in T, \A i \in 1..n : i - 1 \in T => i \in T
  PROVE  0..n \subseteq T
<1>1. SUFFICES ASSUME (0..n) \ T # {} PROVE FALSE
  OBVIOUS
<1> DEFINE D == (0..n) \ T
<1>a. D \in SUBSET Nat /\ D # {}
  BY <1>1
<1>2. PICK m \in D : \A k \in D : m <= k
  <2> HIDE DEF D
  <2> QED BY <1>a, Smallest
<1>3. m - 1 \in 0..n /\ m - 1 \notin D
  BY <1>2
<1> QED BY <1>2, <1>3

\* What a fold of a set is, as a function of the subsets: it picks an element
\* and steps from the result for the others.
Picks(pick, S) == \A s \in SUBSET S : s # {} => pick[s] \in s
Closed(step, V, S) == \A v \in V, x \in S : step[<<v, x>>] \in V
FoldedBy(f, S, pick, base, step) ==
  \A s \in SUBSET S :
    f[s] = IF s = {} THEN base ELSE step[<<f[s \ {pick[s]}], pick[s]>>]

Grows(G, pick, S) == \A s \in SUBSET S : s # {} /\ s \ {pick[s]} \in G => s \in G

LEMMA EverySubset ==
  ASSUME NEW S, IsFiniteSet(S), NEW pick, Picks(pick, S),
         NEW G, {} \in G, Grows(G, pick, S)
  PROVE  SUBSET S \subseteq G
<1> USE DEF Picks, Grows
<1> DEFINE T == {n \in Nat : \A s \in SUBSET S : Cardinality(s) = n => s \in G}
<1>1. \A s \in SUBSET S : IsFiniteSet(s) /\ Cardinality(s) \in 0..Cardinality(S)
  BY FS_Subset, FS_CardinalityType
<1>2. 0 \in T
  BY <1>1, FS_EmptySet
<1>3. ASSUME NEW n \in 1..Cardinality(S), n - 1 \in T PROVE n \in T
  <2>1. SUFFICES ASSUME NEW s \in SUBSET S, Cardinality(s) = n PROVE s \in G
    OBVIOUS
  <2>2. s # {}
    BY <2>1, FS_EmptySet
  <2>3. Cardinality(s \ {pick[s]}) = n - 1
    BY <1>1, <2>1, <2>2, FS_RemoveElement
  <2> QED BY <1>3, <2>2, <2>3
<1>4. 0..Cardinality(S) \subseteq T
  <2>1. Cardinality(S) \in Nat
    BY FS_CardinalityType
  <2> HIDE DEF T, Picks, Grows
  <2> QED BY <1>2, <1>3, <2>1, UpTo
<1> QED BY <1>1, <1>4

LEMMA FoldExists ==
  ASSUME NEW S, IsFiniteSet(S), NEW pick, Picks(pick, S),
         NEW V, NEW base \in V, NEW step, Closed(step, V, S)
  PROVE  \E f \in [SUBSET S -> V] : FoldedBy(f, S, pick, base, step)
<1> USE DEF Picks, Closed, FoldedBy
<1> DEFINE Small(n) == {s \in SUBSET S : Cardinality(s) <= n}
           Folds(f, n) == \A s \in Small(n) :
             f[s] = IF s = {} THEN base ELSE step[<<f[s \ {pick[s]}], pick[s]>>]
           T == {n \in Nat : \E f \in [Small(n) -> V] : Folds(f, n)}
<1>1. \A s \in SUBSET S : IsFiniteSet(s) /\ Cardinality(s) \in 0..Cardinality(S)
  BY FS_Subset, FS_CardinalityType
<1>2. 0 \in T
  <2>1. \A s \in Small(0) : s = {}
    BY <1>1, FS_EmptySet
  <2>2. Folds([s \in Small(0) |-> base], 0) /\ [s \in Small(0) |-> base] \in [Small(0) -> V]
    BY <2>1
  <2> QED BY <2>2
<1>3. ASSUME NEW n \in 1..Cardinality(S), n - 1 \in T PROVE n \in T
  <2>1. PICK f \in [Small(n-1) -> V] : Folds(f, n-1)
    BY <1>3
  <2> DEFINE g == [s \in Small(n) |->
                     IF s = {} THEN base ELSE step[<<f[s \ {pick[s]}], pick[s]>>]]
  <2>2. \A s \in Small(n) : s # {} => s \ {pick[s]} \in Small(n-1)
    <3>1. ASSUME NEW s \in Small(n), s # {} PROVE s \ {pick[s]} \in Small(n-1)
      <4>1. Cardinality(s \ {pick[s]}) = Cardinality(s) - 1
        BY <1>1, <3>1, FS_RemoveElement
      <4> QED BY <1>1, <3>1, <4>1
    <3> QED BY <3>1
  <2>3. Small(n-1) \subseteq Small(n)
    BY <1>1
  <2>4. g \in [Small(n) -> V]
    <3>1. ASSUME NEW s \in Small(n)
          PROVE  (IF s = {} THEN base ELSE step[<<f[s \ {pick[s]}], pick[s]>>]) \in V
      <4>1. CASE s # {}
        <5>1. f[s \ {pick[s]}] \in V /\ pick[s] \in S
          BY <2>2, <2>1, <4>1
        <5> QED BY <5>1, <4>1
      <4> QED BY <4>1
    <3> QED BY <3>1
  <2>5. \A s \in Small(n-1) : g[s] = f[s]
    BY <2>1, <2>3
  <2>6. Folds(g, n)
    BY <2>2, <2>5
  <2> HIDE DEF g, Small, Folds
  <2> QED BY <2>4, <2>6
<1>4. Cardinality(S) \in T
  <2>1. Cardinality(S) \in Nat
    BY FS_CardinalityType
  <2> HIDE DEF T, Small, Folds, Picks, Closed, FoldedBy
  <2>2. 0..Cardinality(S) \subseteq T
    BY <1>2, <1>3, <2>1, UpTo
  <2> QED BY <2>1, <2>2
<1>5. Small(Cardinality(S)) = SUBSET S
  BY <1>1
<1> QED BY <1>4, <1>5

LEMMA MaxOfSubset ==
  ASSUME NEW n \in Nat, NEW s \in SUBSET (1..n), s # {}
  PROVE  Max(s) \in s /\ \A x \in s : x <= Max(s)
<1> DEFINE T == {n - x : x \in s}
<1>0. \A x \in s : x \in 1..n /\ n - x \in Nat
  OBVIOUS
<1>1. T \in SUBSET Nat /\ T # {}
  BY <1>0
<1>2. PICK m \in T : \A k \in T : m <= k
  <2> HIDE DEF T
  <2> QED BY <1>1, Smallest
<1>3. PICK x \in s : m = n - x
  BY <1>2
<1>4. ASSUME NEW y \in s PROVE x >= y
  <2>1. n - y \in T
    OBVIOUS
  <2>2. n - x <= n - y
    BY <1>2, <1>3, <2>1
  <2> QED BY <2>2, <1>0
<1>5. \E z \in s : \A y \in s : z >= y
  BY <1>4
<1> QED BY <1>5 DEF Max

LastOf(n) == [s \in SUBSET (1..n) |-> Max(s)]

LEMMA LeftFoldExists ==
  ASSUME NEW n \in Nat, NEW V, NEW base \in V, NEW step, Closed(step, V, 1..n)
  PROVE  \E f \in [SUBSET (1..n) -> V] : FoldedBy(f, 1..n, LastOf(n), base, step)
<1>1. IsFiniteSet(1..n)
  BY FS_Interval
<1>2. Picks(LastOf(n), 1..n)
  BY MaxOfSubset DEF Picks, LastOf
<1> QED BY <1>1, <1>2, FoldExists

LEMMA MaxOfPrefix ==
  ASSUME NEW n \in Nat, NEW i \in 1..n
  PROVE  /\ 1..i \in SUBSET (1..n) /\ 1..i # {}
         /\ Max(1..i) = i /\ (1..i) \ {Max(1..i)} = 1..(i-1)
<1>1. 1..i \in SUBSET (1..n) /\ 1..i # {}
  OBVIOUS
<1>2. Max(1..i) \in 1..i /\ \A x \in 1..i : x <= Max(1..i)
  BY <1>1, MaxOfSubset
<1>3. Max(1..i) = i
  BY <1>2
<1> QED BY <1>1, <1>3

LEMMA Without ==
  ASSUME NEW S, NEW s \in Seq(S), NEW j \in 1..Len(s)
  PROVE  /\ RemoveAt(s, j) \in Seq(S)
         /\ Len(RemoveAt(s, j)) = Len(s) - 1
         /\ \A k \in 1..(Len(s)-1) : RemoveAt(s, j)[k] = IF k < j THEN s[k] ELSE s[k+1]
<1>1. Len(s) \in Nat /\ \A k \in 1..Len(s) : s[k] \in S
  OBVIOUS
<1> DEFINE a == SubSeq(s, 1, j-1)
           b == SubSeq(s, j+1, Len(s))
<1>2. /\ a \in Seq(S) /\ Len(a) = j - 1
      /\ \A k \in 1..(j-1) : a[k] = s[k]
  <2>1. 1 \in Int /\ j - 1 \in Int /\ \A k \in 1..(j-1) : s[k] \in S
    BY <1>1
  <2> QED BY <2>1, SubSeqProperties
<1>3. /\ b \in Seq(S) /\ Len(b) = Len(s) - j
      /\ \A k \in 1..(Len(s)-j) : b[k] = s[k+j]
  <2>1. j + 1 \in Int /\ Len(s) \in Int /\ \A k \in (j+1)..Len(s) : s[k] \in S
    BY <1>1
  <2>2. /\ b \in Seq(S)
        /\ Len(b) = IF j + 1 <= Len(s) THEN Len(s) - (j+1) + 1 ELSE 0
        /\ \A k \in 1..(Len(s) - (j+1) + 1) : b[k] = s[k + (j+1) - 1]
    BY <2>1, SubSeqProperties
  <2> QED BY <2>2, <1>1
<1> HIDE DEF a, b
<1>4. /\ a \o b \in Seq(S)
      /\ Len(a \o b) = Len(a) + Len(b)
      /\ \A k \in 1..(Len(a) + Len(b)) :
           (a \o b)[k] = IF k <= Len(a) THEN a[k] ELSE b[k - Len(a)]
  BY <1>2, <1>3, ConcatProperties
<1>5. RemoveAt(s, j) = a \o b
  BY DEF RemoveAt, a, b
<1> HIDE DEF RemoveAt
<1>6. ASSUME NEW k \in 1..(Len(s)-1)
      PROVE  RemoveAt(s, j)[k] = IF k < j THEN s[k] ELSE s[k+1]
  <2>1. k \in 1..(Len(a) + Len(b))
    BY <1>1, <1>2, <1>3
  <2>2. CASE k < j
    <3>1. k \in 1..(j-1) /\ k <= Len(a)
      BY <1>1, <1>2, <2>2
    <3> QED BY <1>2, <1>4, <1>5, <2>1, <2>2, <3>1
  <2>3. CASE ~(k < j)
    <3>1. k - Len(a) \in 1..(Len(s)-j) /\ ~(k <= Len(a)) /\ k - Len(a) + j = k + 1
      BY <1>1, <1>2, <2>3
    <3> QED BY <1>3, <1>4, <1>5, <2>1, <2>3, <3>1
  <2> QED BY <2>2, <2>3
<1> QED BY <1>1, <1>2, <1>3, <1>4, <1>5, <1>6

LEMMA MinOfIndexes ==
  ASSUME NEW n \in Nat, NEW s \in SUBSET (1..n), s # {}
  PROVE  Min(s) \in s
<1>1. s \in SUBSET Nat
  OBVIOUS
<1>2. \E x \in s : \A y \in s : x <= y
  BY <1>1, Smallest
<1> QED BY <1>2 DEF Min

-----------------------------------------------------------------------------
(* The folds of _removed_guards.  The value of a fold is chosen: that some *)
(* function satisfies its equation is proved first.  Each fold is then a   *)
(* run, one step for each element of its sequence.                         *)

Matching == [now : Seq(Fences), left : Seq(Fences)]

LEMMA MatchType ==
  ASSUME NEW acc \in Matching, NEW g \in Fences
  PROVE  Match(acc, g) \in Matching
<1> DEFINE same == SameRule(acc.now, g)
<1>1. same \in SUBSET (1..Len(acc.now)) /\ Len(acc.now) \in Nat
  BY DEF SameRule, SameKey, Matching
<1>2. CASE same # {}
  <2>1. RemoveAt(acc.now, Min(same)) \in Seq(Fences)
    BY <1>1, <1>2, MinOfIndexes, Without DEF Matching
  <2> QED BY <1>2, <2>1 DEF Match, MatchOff, Matching
<1>3. CASE same = {}
  <2>1. Append(acc.left, g) \in Seq(Fences)
    BY DEF Matching
  <2> QED BY <1>3, <2>1 DEF Match, MatchOff, Matching
<1> QED BY <1>2, <1>3

LEMMA UnmatchedRuns ==
  ASSUME NEW was \in Seq(Fences), NEW now \in Seq(Fences)
  PROVE  \E h \in [0..Len(was) -> Matching] :
           /\ h[0] = [now |-> now, left |-> <<>>]
           /\ \A i \in 1..Len(was) : h[i] = Match(h[i-1], was[i])
           /\ Unmatched(was, now) = h[Len(was)]
<1> DEFINE n == Len(was)
           base == [now |-> now, left |-> <<>>]
           step == [p \in Matching \X (1..n) |-> Match(p[1], was[p[2]])]
           Fold(f) == [s \in SUBSET (DOMAIN was) |->
                         IF s = {} THEN base ELSE Match(f[s \ {Max(s)}], was[Max(s)])]
           f == CHOOSE g : g = Fold(g)
           h == [i \in 0..n |-> f[1..i]]
<1>1. n \in Nat /\ DOMAIN was = 1..n /\ \A i \in 1..n : was[i] \in Fences
  OBVIOUS
<1>2. base \in Matching
  BY DEF Matching
<1>3. \A v \in Matching, i \in 1..n : step[<<v, i>>] = Match(v, was[i])
                                    /\ Match(v, was[i]) \in Matching
  BY <1>1, MatchType
<1>4. PICK g \in [SUBSET (1..n) -> Matching] : FoldedBy(g, 1..n, LastOf(n), base, step)
  <2>1. Closed(step, Matching, 1..n)
    BY <1>3 DEF Closed
  <2> HIDE DEF n, base, step
  <2> QED BY <1>1, <1>2, <2>1, LeftFoldExists
<1>5. ASSUME NEW s \in SUBSET (1..n), s # {}
      PROVE  g[s] = Match(g[s \ {Max(s)}], was[Max(s)])
  <2>1. Max(s) \in 1..n /\ s \ {Max(s)} \in SUBSET (1..n)
    BY <1>1, <1>5, MaxOfSubset
  <2>2. g[s \ {Max(s)}] \in Matching
    BY <2>1
  <2>3. g[s] = step[<<g[s \ {Max(s)}], Max(s)>>]
    BY <1>4, <1>5 DEF FoldedBy, LastOf
  <2> HIDE DEF step
  <2> QED BY <2>1, <2>2, <2>3, <1>3
<1>6. g = Fold(g)
  <2> HIDE DEF base
  <2> QED BY <1>1, <1>4, <1>5 DEF FoldedBy
<1>7. f = Fold(f)
  <2> HIDE DEF Fold
  <2> QED BY <1>6
<1>8. Unmatched(was, now) = f[DOMAIN was]
  BY Zenon DEF Unmatched, FoldLeft, MapThenFoldSet
<1> HIDE DEF f
<1>9. h[0] = base
  <2>1. 1..0 = {} /\ f[{}] = base
    BY <1>7
  <2> QED BY <1>1, <2>1
<1>10. ASSUME NEW i \in 1..n PROVE h[i] = Match(h[i-1], was[i])
  <2>1. /\ 1..i \in SUBSET (DOMAIN was) /\ 1..i # {}
        /\ Max(1..i) = i /\ (1..i) \ {Max(1..i)} = 1..(i-1)
    BY <1>1, MaxOfPrefix
  <2>2. f[1..i] = Match(f[(1..i) \ {Max(1..i)}], was[Max(1..i)])
    <3> HIDE DEF base
    <3> QED BY <1>7, <2>1
  <2>3. h[i] = f[1..i] /\ h[i-1] = f[1..(i-1)]
    BY <1>1
  <2> QED BY <2>1, <2>2, <2>3
<1>11. h \in [0..n -> Matching]
  <2> DEFINE T == {i \in 0..n : h[i] \in Matching}
  <2>1. 0 \in T
    BY <1>1, <1>2, <1>9
  <2>2. \A i \in 1..n : i - 1 \in T => i \in T
    <3> HIDE DEF h
    <3> QED BY <1>1, <1>10, MatchType
  <2>3. 0..n \subseteq T
    <3> HIDE DEF T
    <3> QED BY <1>1, <2>1, <2>2, UpTo
  <2> QED BY <2>3
<1>12. Unmatched(was, now) = h[n]
  BY <1>1, <1>8
<1> HIDE DEF h, base
<1> QED BY <1>9, <1>10, <1>11, <1>12 DEF base

Judging(s) == [now : Seq(Fences), reports : SUBSET ToSet(s)]

LEMMA JudgeType ==
  ASSUME NEW s \in Seq(Fences), NEW landed, NEW acc \in Judging(s), NEW i \in 1..Len(s)
  PROVE  Judge(acc, s[i], landed) \in Judging(s)
<1> DEFINE g == s[i]
           other == SameKey(acc.now, g)
<1>1. g \in ToSet(s)
  BY DEF ToSet
<1>2. other \in SUBSET (1..Len(acc.now)) /\ Len(acc.now) \in Nat
  BY DEF SameKey, Judging
<1>3. other # {} => RemoveAt(acc.now, Min(other)) \in Seq(Fences)
  BY <1>2, MinOfIndexes, Without DEF Judging
<1> HIDE DEF g, other
<1>4. CASE g.reason = "none"
  BY <1>4 DEF Judge, g
<1>5. CASE g.reason # "none" /\ other # {}
  BY <1>1, <1>3, <1>5 DEF Judge, g, other, Judging
<1>6. CASE g.reason # "none" /\ other = {}
  BY <1>1, <1>6 DEF Judge, g, other, Judging
<1> QED BY <1>4, <1>5, <1>6

JudgingRuns(h, start, landed) ==
  /\ h \in [0..Len(start.left) -> Judging(start.left)]
  /\ h[0] = [now |-> start.now, reports |-> {}]
  /\ \A i \in 1..Len(start.left) : h[i] = Judge(h[i-1], start.left[i], landed)

LEMMA ReportedRuns ==
  ASSUME NEW was, NEW now, NEW landed, NEW start \in Matching,
         Unmatched(was, now) = start
  PROVE  \E h : /\ JudgingRuns(h, start, landed)
                /\ Reported(was, now, landed) = h[Len(start.left)].reports
<1> DEFINE s0 == start.left
           n == Len(s0)
           V == Judging(s0)
           base == [now |-> start.now, reports |-> {}]
           step == [p \in V \X (1..n) |-> Judge(p[1], s0[p[2]], landed)]
           Fold(f) == [s \in SUBSET (DOMAIN s0) |->
                         IF s = {} THEN base ELSE Judge(f[s \ {Max(s)}], s0[Max(s)], landed)]
           f == CHOOSE g : g = Fold(g)
           h == [i \in 0..n |-> f[1..i]]
<1>1. s0 \in Seq(Fences) /\ n \in Nat /\ DOMAIN s0 = 1..n
  BY DEF Matching
<1>2. base \in V
  BY DEF Matching, Judging
<1>3. \A v \in V, i \in 1..n : step[<<v, i>>] = Judge(v, s0[i], landed)
                               /\ Judge(v, s0[i], landed) \in V
  <2> HIDE DEF s0
  <2> QED BY <1>1, JudgeType
<1>4. PICK g \in [SUBSET (1..n) -> V] : FoldedBy(g, 1..n, LastOf(n), base, step)
  <2>1. Closed(step, V, 1..n)
    BY <1>3 DEF Closed
  <2> HIDE DEF n, base, step, V
  <2> QED BY <1>1, <1>2, <2>1, LeftFoldExists
<1>5. ASSUME NEW s \in SUBSET (1..n), s # {}
      PROVE  g[s] = Judge(g[s \ {Max(s)}], s0[Max(s)], landed)
  <2> HIDE DEF V
  <2>1. Max(s) \in 1..n /\ s \ {Max(s)} \in SUBSET (1..n)
    BY <1>1, <1>5, MaxOfSubset
  <2>2. g[s \ {Max(s)}] \in V
    BY <2>1
  <2>3. g[s] = step[<<g[s \ {Max(s)}], Max(s)>>]
    BY <1>4, <1>5 DEF FoldedBy, LastOf
  <2> HIDE DEF step
  <2> QED BY <2>1, <2>2, <2>3, <1>3
<1>6. g = Fold(g)
  <2> HIDE DEF base, V, s0
  <2> QED BY <1>1, <1>4, <1>5 DEF FoldedBy
<1>7. f = Fold(f)
  <2> HIDE DEF Fold
  <2> QED BY <1>6
<1>8. Reported(was, now, landed) = f[DOMAIN s0].reports
  BY Zenon DEF Reported, FoldLeft, MapThenFoldSet
<1> HIDE DEF f
<1>9. h[0] = base
  <2>1. 1..0 = {} /\ f[{}] = base
    BY <1>7
  <2> HIDE DEF s0
  <2> QED BY <1>1, <2>1
<1>10. ASSUME NEW i \in 1..n PROVE h[i] = Judge(h[i-1], s0[i], landed)
  <2> HIDE DEF s0
  <2>1. /\ 1..i \in SUBSET (DOMAIN s0) /\ 1..i # {}
        /\ Max(1..i) = i /\ (1..i) \ {Max(1..i)} = 1..(i-1)
    BY <1>1, MaxOfPrefix
  <2>2. f[1..i] = Judge(f[(1..i) \ {Max(1..i)}], s0[Max(1..i)], landed)
    <3> HIDE DEF base
    <3> QED BY <1>7, <2>1
  <2>3. h[i] = f[1..i] /\ h[i-1] = f[1..(i-1)]
    BY <1>1
  <2> QED BY <2>1, <2>2, <2>3
<1>11. h \in [0..n -> V]
  <2> DEFINE T == {i \in 0..n : h[i] \in V}
  <2>1. 0 \in T
    <3> HIDE DEF s0, V
    <3> QED BY <1>1, <1>2, <1>9
  <2>2. \A i \in 1..n : i - 1 \in T => i \in T
    <3>1. ASSUME NEW i \in 1..n, h[i-1] \in V PROVE h[i] \in V
      <4> HIDE DEF h, s0, V, step
      <4> QED BY <1>3, <1>10, <3>1
    <3> HIDE DEF h, V, s0
    <3> QED BY <1>1, <3>1
  <2>3. 0..n \subseteq T
    <3> HIDE DEF T, s0
    <3> QED BY <1>1, <2>1, <2>2, UpTo
  <2> QED BY <2>3
<1>12. Reported(was, now, landed) = h[n].reports
  <2> HIDE DEF s0
  <2> QED BY <1>1, <1>8
<1> HIDE DEF h, base, V
<1> QED BY <1>9, <1>10, <1>11, <1>12 DEF base, V, JudgingRuns

\* Whoever takes an element out of a sequence takes out one copy at most, and
\* leaves no element that was not there.
LEMMA WithoutCopy ==
  ASSUME NEW s \in Seq(Fences), NEW j \in 1..Len(s), NEW x
  PROVE  /\ ToSet(RemoveAt(s, j)) \subseteq ToSet(s)
         /\ IsFiniteSet(SameRule(s, x))
         /\ Copies(RemoveAt(s, j), x) <= Copies(s, x)
         /\ j \in SameRule(s, x) => Copies(RemoveAt(s, j), x) <= Copies(s, x) - 1
<1> DEFINE t == RemoveAt(s, j)
           A == SameRule(t, x)
           B == SameRule(s, x) \ {j}
           shift == [k \in A |-> IF k < j THEN k ELSE k + 1]
<1>1. /\ t \in Seq(Fences) /\ Len(s) \in Nat /\ Len(t) = Len(s) - 1 /\ j \in Nat
      /\ \A k \in 1..Len(t) : t[k] = IF k < j THEN s[k] ELSE s[k+1]
  <2>1. /\ t \in Seq(Fences) /\ Len(t) = Len(s) - 1
        /\ \A k \in 1..(Len(s)-1) : t[k] = IF k < j THEN s[k] ELSE s[k+1]
    BY Without
  <2> HIDE DEF t
  <2> QED BY <2>1
<1> HIDE DEF t
<1>2. DOMAIN s = 1..Len(s) /\ DOMAIN t = 1..Len(t) /\ Len(t) \in Nat
  BY <1>1
<1>3. ToSet(t) \subseteq ToSet(s)
  <2>1. ASSUME NEW k \in 1..Len(t) PROVE t[k] \in ToSet(s)
    BY SMTT(30), <1>1, <1>2 DEF ToSet
  <2> QED BY <2>1, <1>2 DEF ToSet
<1>4. SameRule(s, x) \subseteq 1..Len(s) /\ IsFiniteSet(SameRule(s, x))
  <2>1. SameRule(s, x) \subseteq 1..Len(s)
    BY <1>2 DEF SameRule, SameKey
  <2>2. IsFiniteSet(1..Len(s))
    BY <1>1, FS_Interval
  <2> QED BY <2>1, <2>2, FS_Subset
<1>5. shift \in [A -> B]
  <2>1. ASSUME NEW k \in A PROVE (IF k < j THEN k ELSE k + 1) \in B
    <3>1. k \in 1..Len(t) /\ Key(t[k]) = Key(x) /\ t[k].rule = x.rule
      BY <1>2 DEF SameRule, SameKey
    <3>2. CASE k < j
      BY <1>1, <1>2, <3>1, <3>2 DEF SameRule, SameKey
    <3>3. CASE ~(k < j)
      <4>1. k + 1 \in 1..Len(s) /\ k + 1 # j /\ t[k] = s[k+1]
        BY <1>1, <3>1, <3>3
      <4> QED BY <1>2, <3>1, <3>3, <4>1 DEF SameRule, SameKey
    <3> QED BY <3>2, <3>3
  <2> QED BY <2>1
<1>6. \A k, l \in A : k # l => shift[k] # shift[l]
  <2>1. A \subseteq Nat
    BY <1>2 DEF SameRule, SameKey
  <2> HIDE DEF A
  <2> QED BY <1>1, <2>1
<1>7. IsFiniteSet(B) /\ Cardinality(A) <= Cardinality(B) /\ Cardinality(A) \in Nat
  <2>1. IsFiniteSet(B)
    BY <1>4, FS_Subset
  <2>2. shift \in Injection(A, B)
    BY <1>5, <1>6 DEF Injection, IsInjective
  <2>3. IsFiniteSet(A) /\ Cardinality(A) <= Cardinality(B)
    <3> HIDE DEF A, B, shift
    <3> QED BY <2>1, <2>2, FS_Injection DEF ExistsInjection
  <2> QED BY <2>1, <2>3, FS_CardinalityType
<1>8. /\ Cardinality(SameRule(s, x)) \in Nat
      /\ Cardinality(B) = IF j \in SameRule(s, x) THEN Cardinality(SameRule(s, x)) - 1
                                                  ELSE Cardinality(SameRule(s, x))
  BY <1>4, FS_CardinalityType, FS_RemoveElement
<1> HIDE DEF B
<1> QED BY <1>3, <1>4, <1>7, <1>8 DEF Copies, t

LEMMA CopiesType ==
  ASSUME NEW s \in Seq(Fences), NEW x
  PROVE  /\ IsFiniteSet(SameRule(s, x)) /\ Copies(s, x) \in Nat
         /\ Copies(s, x) = 0 <=> SameRule(s, x) = {}
<1>1. SameRule(s, x) \subseteq 1..Len(s) /\ Len(s) \in Nat
  BY DEF SameRule, SameKey
<1>2. IsFiniteSet(SameRule(s, x))
  <2>1. IsFiniteSet(1..Len(s))
    BY <1>1, FS_Interval
  <2> QED BY <1>1, <2>1, FS_Subset
<1> QED BY <1>2, FS_CardinalityType, FS_EmptySet DEF Copies

\* One step of the matching: a guard with no like in the later image is left
\* over, one with a like takes a copy of it away, and nothing else changes.
LEMMA MatchStep ==
  ASSUME NEW acc \in Matching, NEW g \in Fences, NEW x \in Fences
  PROVE  /\ ToSet(Match(acc, g).now) \subseteq ToSet(acc.now)
         /\ ToSet(acc.left) \subseteq ToSet(Match(acc, g).left)
         /\ SameRule(acc.now, g) = {} => g \in ToSet(Match(acc, g).left)
         /\ Copies(Match(acc, g).now, x) <= Copies(acc.now, x)
         /\ Key(g) = Key(x) /\ g.rule = x.rule =>
              \/ Copies(Match(acc, g).now, x) = 0
              \/ Copies(Match(acc, g).now, x) <= Copies(acc.now, x) - 1
<1> DEFINE same == SameRule(acc.now, g)
<1>1. acc.now \in Seq(Fences) /\ acc.left \in Seq(Fences)
  BY DEF Matching
<1>2. same \in SUBSET (1..Len(acc.now)) /\ Len(acc.now) \in Nat
  BY <1>1 DEF SameRule, SameKey
<1>3. Key(g) = Key(x) /\ g.rule = x.rule => same = SameRule(acc.now, x)
  BY DEF SameRule, SameKey
<1>4. CASE same # {}
  <2> DEFINE j == Min(same)
  <2>1. j \in same /\ j \in 1..Len(acc.now)
    BY <1>2, <1>4, MinOfIndexes
  <2>2. Match(acc, g).now = RemoveAt(acc.now, j) /\ Match(acc, g).left = acc.left
    BY <1>4 DEF Match, MatchOff, Matching
  <2> HIDE DEF j
  <2>3. /\ ToSet(RemoveAt(acc.now, j)) \subseteq ToSet(acc.now)
        /\ Copies(RemoveAt(acc.now, j), x) <= Copies(acc.now, x)
        /\ j \in SameRule(acc.now, x) =>
             Copies(RemoveAt(acc.now, j), x) <= Copies(acc.now, x) - 1
    BY <1>1, <2>1, WithoutCopy
  <2> HIDE DEF same
  <2> QED BY <1>3, <1>4, <2>1, <2>2, <2>3 DEF same
<1>5. CASE same = {}
  <2>1. Match(acc, g).now = acc.now /\ Match(acc, g).left = Append(acc.left, g)
    BY <1>5 DEF Match, MatchOff, Matching
  <2>2. ToSet(acc.left) \subseteq ToSet(Append(acc.left, g)) /\ g \in ToSet(Append(acc.left, g))
    <3>1. /\ Append(acc.left, g) \in Seq(Fences)
          /\ Len(Append(acc.left, g)) = Len(acc.left) + 1
          /\ \A k \in 1..Len(acc.left) : Append(acc.left, g)[k] = acc.left[k]
          /\ Append(acc.left, g)[Len(acc.left) + 1] = g
      BY <1>1, AppendProperties
    <3>2. /\ Len(acc.left) \in Nat /\ DOMAIN acc.left = 1..Len(acc.left)
          /\ DOMAIN Append(acc.left, g) = 1..(Len(acc.left) + 1)
      BY <1>1, <3>1
    <3>3. /\ 1..Len(acc.left) \subseteq 1..(Len(acc.left) + 1)
          /\ Len(acc.left) + 1 \in 1..(Len(acc.left) + 1)
      BY <3>2
    <3> QED BY <3>1, <3>2, <3>3 DEF ToSet
  <2>3. Copies(acc.now, x) \in Nat /\ (Copies(acc.now, x) = 0 <=> SameRule(acc.now, x) = {})
    BY <1>1, CopiesType
  <2> QED BY <1>3, <1>5, <2>1, <2>2, <2>3
<1> QED BY <1>4, <1>5

\* How the matching of the whole image ends, for a guard of it and for any
\* copies: a guard whose rule the later image does not have is left over, and
\* what the earlier image had as many copies of is all matched off.
LEMMA MatchedOff ==
  ASSUME NEW was \in Seq(Fences), NEW now \in Seq(Fences),
         NEW start, start = Unmatched(was, now)
  PROVE  /\ start \in Matching
         /\ ToSet(start.now) \subseteq ToSet(now)
         /\ \A g \in ToSet(was) : SameRule(now, g) = {} => g \in ToSet(start.left)
         /\ \A x \in Fences : Copies(now, x) <= Copies(was, x) => SameRule(start.now, x) = {}
<1> DEFINE n == Len(was)
<1>1. PICK h \in [0..n -> Matching] :
        /\ h[0] = [now |-> now, left |-> <<>>]
        /\ \A i \in 1..n : h[i] = Match(h[i-1], was[i])
        /\ Unmatched(was, now) = h[n]
  BY UnmatchedRuns
<1>2. n \in Nat /\ DOMAIN was = 1..n /\ \A i \in 1..n : was[i] \in Fences
  OBVIOUS
<1> HIDE DEF n
<1>3. \A i \in 0..n : h[i] \in Matching /\ h[i].now \in Seq(Fences)
  BY <1>1 DEF Matching
<1>4. \A i \in 0..n : ToSet(h[i].now) \subseteq ToSet(now)
  <2> DEFINE T == {i \in 0..n : ToSet(h[i].now) \subseteq ToSet(now)}
  <2>1. 0 \in T
    BY <1>1, <1>2
  <2>2. ASSUME NEW i \in 1..n, i - 1 \in T PROVE i \in T
    <3>1. i - 1 \in 0..n /\ h[i-1] \in Matching /\ was[i] \in Fences
      BY <1>2, <1>3
    <3>2. ToSet(Match(h[i-1], was[i]).now) \subseteq ToSet(h[i-1].now)
      BY <3>1, MatchStep
    <3> QED BY <1>1, <1>2, <2>2, <3>2
  <2>3. 0..n \subseteq T
    <3> HIDE DEF T
    <3> QED BY <1>2, <2>1, <2>2, UpTo
  <2> QED BY <2>3
<1>5. ASSUME NEW g \in ToSet(was), SameRule(now, g) = {}
      PROVE  g \in ToSet(h[n].left)
  <2>1. PICK k \in 1..n : was[k] = g
    BY <1>2 DEF ToSet
  <2>2. \A i \in 0..n : SameRule(h[i].now, g) = {}
    <3>1. \A e \in ToSet(now) : ~(Key(e) = Key(g) /\ e.rule = g.rule)
      BY <1>5 DEF SameRule, SameKey, ToSet
    <3> QED BY <1>4, <3>1 DEF SameRule, SameKey, ToSet
  <2> DEFINE T == {i \in 0..n : k <= i => g \in ToSet(h[i].left)}
  <2>3. 0 \in T
    BY <1>2
  <2>4. ASSUME NEW i \in 1..n, i - 1 \in T PROVE i \in T
    <3>1. i - 1 \in 0..n /\ h[i-1] \in Matching /\ was[i] \in Fences /\ h[i] = Match(h[i-1], was[i])
      BY <1>1, <1>2, <1>3
    <3>2. /\ ToSet(h[i-1].left) \subseteq ToSet(h[i].left)
          /\ SameRule(h[i-1].now, was[i]) = {} => was[i] \in ToSet(h[i].left)
      BY <3>1, MatchStep
    <3>3. CASE k = i
      <4>1. was[i] = g /\ SameRule(h[i-1].now, g) = {} /\ i \in 0..n
        BY <2>1, <2>2, <3>1, <3>3, <1>2
      <4>2. g \in ToSet(h[i].left)
        BY <3>2, <4>1
      <4> QED BY <4>1, <4>2
    <3>4. CASE k # i
      BY <2>4, <3>1, <3>2, <3>4, <1>2
    <3> QED BY <3>3, <3>4
  <2>5. 0..n \subseteq T
    <3> HIDE DEF T
    <3> QED BY <1>2, <2>3, <2>4, UpTo
  <2>6. n \in 0..n /\ k <= n
    BY <1>2
  <2> QED BY <2>5, <2>6
<1>6. ASSUME NEW x \in Fences, Copies(now, x) <= Copies(was, x)
      PROVE  SameRule(h[n].now, x) = {}
  <2> DEFINE before(i) == {k \in 1..i : Key(was[k]) = Key(x) /\ was[k].rule = x.rule}
             T == {i \in 0..n : \/ Copies(h[i].now, x) = 0
                                \/ Copies(h[i].now, x) + Cardinality(before(i)) <= Copies(now, x)}
  <2>1. \A i \in 0..n : IsFiniteSet(before(i)) /\ Cardinality(before(i)) \in Nat
    <3>1. ASSUME NEW i \in 0..n PROVE IsFiniteSet(before(i))
      <4>1. IsFiniteSet(1..i)
        BY <1>2, FS_Interval
      <4> QED BY <4>1, FS_Subset
    <3> QED BY <3>1, FS_CardinalityType
  <2>2. \A i \in 0..n : Copies(h[i].now, x) \in Nat
    BY <1>3, CopiesType
  <2>a. Copies(now, x) \in Nat /\ Copies(was, x) \in Nat
    BY CopiesType
  <2>3. 0 \in T
    <3>1. before(0) = {}
      OBVIOUS
    <3>2. Cardinality(before(0)) = 0
      BY <3>1, FS_EmptySet
    <3> QED BY <1>1, <1>2, <2>2, <2>a, <3>2
  <2>4. ASSUME NEW i \in 1..n, i - 1 \in T PROVE i \in T
    <3>1. i - 1 \in 0..n /\ i \in 0..n /\ h[i-1] \in Matching /\ was[i] \in Fences
          /\ h[i] = Match(h[i-1], was[i])
      BY <1>1, <1>2, <1>3
    <3>2. /\ Copies(h[i].now, x) <= Copies(h[i-1].now, x)
          /\ Key(was[i]) = Key(x) /\ was[i].rule = x.rule =>
               \/ Copies(h[i].now, x) = 0
               \/ Copies(h[i].now, x) <= Copies(h[i-1].now, x) - 1
      BY <3>1, MatchStep
    <3>3. /\ Copies(h[i].now, x) \in Nat /\ Copies(h[i-1].now, x) \in Nat
          /\ Cardinality(before(i)) \in Nat /\ Cardinality(before(i-1)) \in Nat
          /\ IsFiniteSet(before(i-1))
      BY <2>1, <2>2, <3>1
    <3>4. CASE Key(was[i]) = Key(x) /\ was[i].rule = x.rule
      <4>1. before(i) = before(i-1) \cup {i} /\ i \notin before(i-1)
        BY <1>2, <3>4
      <4>2. Cardinality(before(i)) = Cardinality(before(i-1)) + 1
        BY <3>3, <4>1, FS_AddElement
      <4> HIDE DEF before
      <4> QED BY <2>4, <2>a, <3>1, <3>2, <3>3, <3>4, <4>2
    <3>5. CASE ~(Key(was[i]) = Key(x) /\ was[i].rule = x.rule)
      <4>1. before(i) = before(i-1)
        BY <1>2, <3>5
      <4> HIDE DEF before
      <4> QED BY <2>4, <2>a, <3>1, <3>2, <3>3, <4>1
    <3> QED BY <3>4, <3>5
  <2>5. 0..n \subseteq T
    <3> HIDE DEF T
    <3> QED BY <1>2, <2>3, <2>4, UpTo
  <2>6. before(n) = SameRule(was, x)
    BY <1>2 DEF SameRule, SameKey
  <2>7. Cardinality(before(n)) = Copies(was, x)
    BY <2>6 DEF Copies
  <2>8. n \in 0..n
    BY <1>2
  <2>9. Copies(h[n].now, x) = 0
    <3> HIDE DEF before
    <3> QED BY <1>6, <2>2, <2>5, <2>7, <2>8, <2>a
  <2> QED BY <1>3, <2>8, <2>9, CopiesType
<1>7. n \in 0..n
  BY <1>2
<1> QED BY <1>1, <1>3, <1>4, <1>5, <1>6, <1>7

\* Of what is left over, a guard with a reason that did not move and has no
\* mate left in its file is reported.
LEMMA LeftIsReported ==
  ASSUME NEW was, NEW now, NEW landed, NEW start \in Matching,
         Unmatched(was, now) = start,
         NEW g \in ToSet(start.left), g.reason # "none", ~Moved(g, landed),
         \A x \in ToSet(start.now) : Key(x) # Key(g)
  PROVE  g \in Reported(was, now, landed)
<1> DEFINE s0 == start.left
           n == Len(s0)
<1>0. PICK h : JudgingRuns(h, start, landed) /\ Reported(was, now, landed) = h[n].reports
  BY ReportedRuns
<1>1. /\ h \in [0..n -> Judging(s0)]
      /\ h[0] = [now |-> start.now, reports |-> {}]
      /\ \A i \in 1..n : h[i] = Judge(h[i-1], s0[i], landed)
      /\ Reported(was, now, landed) = h[n].reports
  BY <1>0 DEF JudgingRuns
<1>2. n \in Nat /\ DOMAIN s0 = 1..n /\ s0 \in Seq(Fences)
  BY DEF Matching
<1>3. PICK k \in 1..n : s0[k] = g
  BY <1>2 DEF ToSet
<1> HIDE DEF n, s0
<1> DEFINE T == {i \in 0..n : /\ ToSet(h[i].now) \subseteq ToSet(start.now)
                              /\ k <= i => g \in h[i].reports}
<1>4. 0 \in T
  BY <1>1, <1>2
<1>5. ASSUME NEW i \in 1..n, i - 1 \in T PROVE i \in T
  <2> DEFINE acc == h[i-1]
             e == s0[i]
             other == SameKey(acc.now, e)
  <2>1. /\ i - 1 \in 0..n /\ i \in 0..n /\ h[i] = Judge(acc, e, landed)
        /\ acc \in Judging(s0) /\ acc.now \in Seq(Fences)
    BY <1>1, <1>2 DEF Judging
  <2>2. ToSet(acc.now) \subseteq ToSet(start.now) /\ (k <= i - 1 => g \in acc.reports)
    BY <1>5
  <2>3. other \in SUBSET (1..Len(acc.now)) /\ Len(acc.now) \in Nat
    BY <2>1 DEF SameKey
  <2>4. ToSet(h[i].now) \subseteq ToSet(acc.now)
    <3>1. CASE e.reason # "none" /\ other # {}
      <4>1. Min(other) \in 1..Len(acc.now)
        BY <2>3, <3>1, MinOfIndexes
      <4>2. ToSet(RemoveAt(acc.now, Min(other))) \subseteq ToSet(acc.now)
        BY <2>1, <4>1, WithoutCopy
      <4>3. h[i].now = RemoveAt(acc.now, Min(other))
        BY <2>1, <3>1 DEF Judge
      <4> QED BY <4>2, <4>3
    <3>2. CASE ~(e.reason # "none" /\ other # {})
      <4>1. h[i].now = acc.now
        BY <2>1, <3>2 DEF Judge, Judging
      <4> QED BY <4>1
    <3> QED BY <3>1, <3>2
  <2>5. acc.reports \subseteq h[i].reports
    BY <2>1 DEF Judge, Judging
  <2>6. CASE k = i
    <3>1. e = g
      BY <1>3, <2>6
    <3>2. other = {}
      <4>1. \A j \in DOMAIN acc.now : acc.now[j] \in ToSet(start.now)
        BY <2>2 DEF ToSet
      <4> QED BY <3>1, <4>1 DEF SameKey
    <3>3. g \in h[i].reports
      BY <2>1, <3>1, <3>2 DEF Judge, Judging
    <3> QED BY <2>1, <2>2, <2>4, <3>3
  <2>7. CASE k # i
    <3>1. k <= i => k <= i - 1
      BY <1>2, <1>3, <2>7
    <3> HIDE DEF acc, e, other
    <3> QED BY <2>1, <2>2, <2>4, <2>5, <3>1
  <2> QED BY <2>6, <2>7
<1>6. 0..n \subseteq T
  <2> HIDE DEF T
  <2> QED BY <1>2, <1>4, <1>5, UpTo
<1>7. n \in 0..n /\ k <= n
  BY <1>2
<1> QED BY <1>1, <1>6, <1>7

\* A guard that a reader would call gone is reported by _removed_guards, whatever
\* else the images of the file hold, however long they are and wherever else in
\* the change guards have landed.
THEOREM GoneIsReported ==
  ASSUME NEW was \in Seq(Fences), NEW now \in Seq(Fences), NEW after,
         ToSet(now) \subseteq after
  PROVE  Gone(was, now, after) \subseteq Reported(was, now, Landed(after))
<1>1. SUFFICES ASSUME NEW g \in Gone(was, now, after)
               PROVE  g \in Reported(was, now, Landed(after))
  OBVIOUS
<1> DEFINE start == Unmatched(was, now)
<1>2. /\ g \in ToSet(was) /\ g.reason # "none" /\ ~Moved(g, Landed(after))
      /\ \A h \in ToSet(now) : Key(h) = Key(g) => Copies(now, h) <= Copies(was, h)
  BY <1>1 DEF Gone
<1>3. SameRule(now, g) = {}
  <2>1. \A h \in after : ~(h.kind = g.kind /\ h.rule = g.rule)
    BY <1>2 DEF Moved, Landed
  <2> QED BY <2>1 DEF SameRule, SameKey, Key, ToSet
<1>4. /\ start \in Matching
      /\ ToSet(start.now) \subseteq ToSet(now)
      /\ g \in ToSet(start.left)
      /\ \A x \in Fences : Copies(now, x) <= Copies(was, x) => SameRule(start.now, x) = {}
  <2> HIDE DEF start
  <2>1. start = Unmatched(was, now)
    BY DEF start
  <2> QED BY <2>1, <1>2, <1>3, MatchedOff
<1>5. ASSUME NEW x \in ToSet(start.now), Key(x) = Key(g) PROVE FALSE
  <2> HIDE DEF start
  <2>1. x \in ToSet(now) /\ x \in Fences
    BY SMTT(30), <1>4 DEF ToSet
  <2>2. SameRule(start.now, x) = {}
    BY <1>2, <1>4, <1>5, <2>1
  <2>3. SameRule(start.now, x) # {}
    BY DEF SameRule, SameKey, ToSet
  <2> QED BY <2>2, <2>3
<1> QED BY <1>2, <1>4, <1>5, LeftIsReported

\* What is reported is finite: it is of the guards left over.
LEMMA ReportedFinite ==
  ASSUME NEW was \in Seq(Fences), NEW now \in Seq(Fences), NEW landed
  PROVE  IsFiniteSet(Reported(was, now, landed))
<1> DEFINE start == Unmatched(was, now)
           s0 == start.left
<1>1. start \in Matching
  BY MatchedOff
<1>a. PICK h : /\ JudgingRuns(h, start, landed)
               /\ Reported(was, now, landed) = h[Len(s0)].reports
  <2> HIDE DEF start
  <2>1. Unmatched(was, now) = start
    BY DEF start
  <2> QED BY <1>1, <2>1, ReportedRuns
<1>2. /\ h \in [0..Len(s0) -> Judging(s0)]
      /\ Reported(was, now, landed) = h[Len(s0)].reports
  BY <1>a DEF JudgingRuns
<1>3. s0 \in Seq(Fences)
  BY <1>1 DEF Matching
<1> HIDE DEF s0, start
<1>4. IsFiniteSet(ToSet(s0))
  <2>1. DOMAIN s0 = 1..Len(s0) /\ Len(s0) \in Nat
    BY <1>3
  <2>2. IsFiniteSet(1..Len(s0))
    BY <2>1, FS_Interval
  <2> DEFINE at == [i \in 1..Len(s0) |-> s0[i]]
  <2>3. at \in Surjection(1..Len(s0), ToSet(s0))
    BY <2>1 DEF Surjection, ToSet
  <2> HIDE DEF at
  <2> QED BY <2>2, <2>3, FS_Surjection
<1>5. Reported(was, now, landed) \subseteq ToSet(s0)
  <2>1. Len(s0) \in 0..Len(s0)
    BY <1>3
  <2> QED BY <1>2, <2>1 DEF Judging
<1> QED BY <1>4, <1>5, FS_Subset
-----------------------------------------------------------------------------
(* The counts of guards.                                                   *)

LEMMA AnyOrder ==
  ASSUME NEW S, IsFiniteSet(S)
  PROVE  SetToSeq(S) \in Seq(S)
<1>1. Cardinality(S) \in Nat /\ \E f \in [1..Cardinality(S) -> S] : IsInjective(f)
  BY FS_CardinalityType DEF ExistsBijection, Bijection, Injection
<1>2. SetToSeq(S) \in [1..Cardinality(S) -> S]
  BY <1>1 DEF SetToSeq
<1> QED BY <1>1, <1>2

Tier == [left : [Paths -> Nat], taken : 0..GuardsTier]

LEMMA TakeFromType ==
  ASSUME NEW t \in Tier, NEW f \in Paths
  PROVE  TakeFrom(t, f) \in Tier
<1> DEFINE m == Least(Least(t.left[f], GuardsPerFile), GuardsTier - t.taken)
<1>1. /\ t.left \in [Paths -> Nat] /\ t.left[f] \in Nat /\ t.taken \in 0..GuardsTier
      /\ GuardsPerFile \in Nat /\ GuardsTier \in Nat
  BY ReviewAssumption DEF Tier
<1>2. m \in Nat /\ m <= t.left[f] /\ m <= GuardsTier - t.taken
  BY <1>1 DEF Least
<1>3. TakeFrom(t, f) = [left |-> [t.left EXCEPT ![f] = @ - m], taken |-> t.taken + m]
  BY DEF TakeFrom
<1> HIDE DEF m
<1>4. [t.left EXCEPT ![f] = @ - m] \in [Paths -> Nat]
  BY <1>1, <1>2
<1>5. t.taken + m \in 0..GuardsTier
  BY <1>1, <1>2
<1> QED BY <1>3, <1>4, <1>5 DEF Tier

LEMMA TakeType ==
  ASSUME NEW tier, tier.left \in [Paths -> Nat], DOMAIN tier = {"left", "taken"},
         tier = [left |-> tier.left, taken |-> tier.taken], NEW files \in SUBSET Paths
  PROVE  Take(tier, files) \in Tier
<1> DEFINE s0 == SetToSeq(files)
           n == Len(s0)
           base == [tier EXCEPT !.taken = 0]
           step == [p \in Tier \X (1..n) |-> TakeFrom(p[1], s0[p[2]])]
           Fold(f) == [s \in SUBSET (DOMAIN s0) |->
                         IF s = {} THEN base ELSE TakeFrom(f[s \ {Max(s)}], s0[Max(s)])]
           f == CHOOSE g : g = Fold(g)
           T == {i \in 0..n : f[1..i] \in Tier}
<1>1. s0 \in Seq(Paths) /\ n \in Nat /\ DOMAIN s0 = 1..n /\ \A i \in 1..n : s0[i] \in Paths
  <2>1. IsFiniteSet(files)
    BY FS_Subset, ReviewAssumption
  <2>2. s0 \in Seq(files)
    BY <2>1, AnyOrder
  <2> HIDE DEF s0
  <2> QED BY <2>2
<1>2. base \in Tier
  BY ReviewAssumption DEF Tier
<1> HIDE DEF s0
<1>3. \A v \in Tier, i \in 1..n : step[<<v, i>>] = TakeFrom(v, s0[i])
                               /\ TakeFrom(v, s0[i]) \in Tier
  BY <1>1, TakeFromType
<1>4. PICK g \in [SUBSET (1..n) -> Tier] : FoldedBy(g, 1..n, LastOf(n), base, step)
  <2>1. Closed(step, Tier, 1..n)
    BY <1>3 DEF Closed
  <2> HIDE DEF n, base, step
  <2> QED BY <1>1, <1>2, <2>1, LeftFoldExists
<1>5. ASSUME NEW s \in SUBSET (1..n), s # {}
      PROVE  g[s] = TakeFrom(g[s \ {Max(s)}], s0[Max(s)])
  <2>1. Max(s) \in 1..n /\ s \ {Max(s)} \in SUBSET (1..n)
    BY <1>1, <1>5, MaxOfSubset
  <2>2. g[s \ {Max(s)}] \in Tier
    BY <2>1
  <2>3. g[s] = step[<<g[s \ {Max(s)}], Max(s)>>]
    BY <1>4, <1>5 DEF FoldedBy, LastOf
  <2> HIDE DEF step
  <2> QED BY <2>1, <2>2, <2>3, <1>3
<1>6. g = Fold(g)
  <2> HIDE DEF base
  <2> QED BY <1>1, <1>4, <1>5 DEF FoldedBy
<1>7. f = Fold(f)
  <2> HIDE DEF Fold
  <2> QED BY <1>6
<1>8. Take(tier, files) = f[DOMAIN s0]
  BY Zenon DEF Take, FoldLeft, MapThenFoldSet, s0
<1> HIDE DEF f
<1>9. f[1..0] = base
  <2>1. 1..0 = {} /\ f[{}] = base
    BY <1>7
  <2> QED BY <2>1
<1>10. ASSUME NEW i \in 1..n PROVE f[1..i] = TakeFrom(f[1..(i-1)], s0[i])
  <2>1. /\ 1..i \in SUBSET (DOMAIN s0) /\ 1..i # {}
        /\ Max(1..i) = i /\ (1..i) \ {Max(1..i)} = 1..(i-1)
    BY <1>1, MaxOfPrefix
  <2>2. f[1..i] = TakeFrom(f[(1..i) \ {Max(1..i)}], s0[Max(1..i)])
    <3> HIDE DEF base
    <3> QED BY <1>7, <2>1
  <2> QED BY <2>1, <2>2
<1>11. 0 \in T
  BY <1>1, <1>2, <1>9
<1>12. \A i \in 1..n : i - 1 \in T => i \in T
  <2>1. ASSUME NEW i \in 1..n, f[1..(i-1)] \in Tier PROVE f[1..i] \in Tier
    <3> HIDE DEF step
    <3> QED BY <1>3, <1>10, <2>1
  <2> HIDE DEF n
  <2> QED BY <1>1, <2>1
<1>13. n \in T
  <2>1. 0..n \subseteq T
    <3> HIDE DEF T
    <3> QED BY <1>1, <1>11, <1>12, UpTo
  <2> QED BY <1>1, <2>1
<1> QED BY <1>1, <1>8, <1>13

GuardCounts == [Paths \cup {"changed"} -> [naming : Nat, other : Nat]]

LEMMA ByNameType ==
  ASSUME NEW of \in GuardCounts, NEW reach \in SUBSET (Paths \cup {"changed"})
  PROVE  ByName(of, reach) \in Nat
<1> DEFINE D == reach
           Count(x) == of[x].naming + (IF x = "changed" THEN of[x].other ELSE 0)
           pick == [s \in SUBSET D |-> CHOOSE x \in s : TRUE]
           step == [p \in Nat \X D |-> Count(p[2]) + p[1]]
           Fold(f) == [s \in SUBSET D |->
                         IF s = {} THEN 0
                         ELSE Count(CHOOSE x \in s : TRUE) + f[s \ {CHOOSE x \in s : TRUE}]]
           f == CHOOSE g : g = Fold(g)
<1>1. IsFiniteSet(D)
  BY ReviewAssumption, FS_AddElement, FS_Subset
<1>2. \A x \in D : Count(x) \in Nat
  BY DEF GuardCounts
<1> HIDE DEF D, Count
<1>3. Picks(pick, D)
  BY DEF Picks
<1>4. \A v \in Nat, x \in D : step[<<v, x>>] = Count(x) + v /\ Count(x) + v \in Nat
  BY <1>2
<1>5. PICK g \in [SUBSET D -> Nat] : FoldedBy(g, D, pick, 0, step)
  <2>1. Closed(step, Nat, D)
    BY <1>4 DEF Closed
  <2> HIDE DEF pick, step
  <2> QED BY <1>1, <1>3, <2>1, FoldExists
<1>6. ASSUME NEW s \in SUBSET D, s # {}
      PROVE  g[s] = Count(CHOOSE x \in s : TRUE) + g[s \ {CHOOSE x \in s : TRUE}]
  <2>1. pick[s] \in D /\ s \ {pick[s]} \in SUBSET D /\ pick[s] = CHOOSE x \in s : TRUE
    BY <1>3, <1>6 DEF Picks
  <2>2. g[s] = step[<<g[s \ {pick[s]}], pick[s]>>]
    BY <1>5, <1>6 DEF FoldedBy
  <2> HIDE DEF step, pick
  <2> QED BY <2>1, <2>2, <1>4
<1>7. g = Fold(g)
  BY <1>5, <1>6 DEF FoldedBy
<1>8. f = Fold(f)
  <2> HIDE DEF Fold
  <2> QED BY <1>7
<1>9. ByName(of, reach) = f[D]
  BY Zenon DEF ByName, MapThenSumSet, MapThenFoldSet, D, Count
<1> HIDE DEF f
<1> DEFINE G == {s \in SUBSET D : f[s] \in Nat}
<1>10. {} \in G
  BY <1>8
<1>11. ASSUME NEW s \in SUBSET D, s # {}
       PROVE  s \ {pick[s]} \in G => s \in G
  <2>1. pick[s] \in s /\ pick[s] = CHOOSE x \in s : TRUE
    BY <1>11
  <2>2. f[s] = Count(pick[s]) + f[s \ {pick[s]}]
    BY <1>8, <1>11, <2>1
  <2> HIDE DEF pick
  <2> QED BY <1>2, <2>1, <2>2
<1>12. SUBSET D \subseteq G
  <2>1. Grows(G, pick, D)
    BY <1>11 DEF Grows
  <2> HIDE DEF G, pick
  <2> QED BY <1>1, <1>3, <1>10, <2>1, EverySubset
<1> QED BY <1>9, <1>12

LEMMA InReachType ==
  ASSUME NEW of \in GuardCounts, NEW sweep,
         NEW companions \in SUBSET Paths, NEW importers \in SUBSET Paths
  PROVE  InReach(of, sweep, companions, importers) \in Nat
<1> DEFINE tier == [left |-> [f \in Paths |-> of[f].other], taken |-> 0]
           history == Take(tier, companions)
           imports == Take(history, importers)
<1>1. ByName(of, GuardReach(sweep)) \in Nat
  BY ByNameType DEF GuardReach
<1>2. tier.left \in [Paths -> Nat]
  BY DEF GuardCounts
<1>3. history \in Tier
  <2>1. DOMAIN tier = {"left", "taken"} /\ tier = [left |-> tier.left, taken |-> tier.taken]
    OBVIOUS
  <2> HIDE DEF tier
  <2> QED BY <1>2, <2>1, TakeType
<1> HIDE DEF history
<1>4. imports \in Tier
  BY <1>3, TakeType DEF Tier
<1> HIDE DEF imports
<1>5. history.taken \in Nat /\ imports.taken \in Nat
  BY <1>3, <1>4, ReviewAssumption DEF Tier
<1>6. InReach(of, sweep, companions, importers)
        = ByName(of, GuardReach(sweep)) + history.taken + imports.taken
  BY DEF InReach, history, imports
<1> QED BY <1>1, <1>5, <1>6

-----------------------------------------------------------------------------
(* The steps of an answer.                                                 *)

\* The steps a review of a kind goes through.
StepsOf == [preflight |-> {"index", "blast", "reuse", "history", "importers", "trim", "done"},
            check |-> {"index", "diff", "removed", "rebuilt", "companions", "callers",
                       "dependents", "said", "trim", "done"},
            guards |-> {"index", "diff", "guards", "trim", "done"}]

ReviewRecord(kind) ==
  [kind : {kind}, at : StepsOf[kind], symbol : BOOLEAN, truncated : BOOLEAN,
   part : [Sections[kind] -> [found : Nat, shown : Nat]],
   said : SUBSET Sections[kind], gaps : SUBSET Sections[kind]]

\* A section that is cut short is said or a known gap from the step that fills it
\* on; so is an empty one of the first three of a preflight, and from the last
\* step of the other two kinds an answer without any list is said.
CutIsSaid(r) ==
  \A s \in Sections[r.kind] : r.part[s].shown < r.part[s].found => s \in r.said \cup r.gaps
EmptyIsSaid(r, s) == r.part[s].shown = 0 => s \in r.said
PreflightTold(r) ==
  r.kind = "preflight" =>
    /\ r.at \notin {"index", "blast"} => EmptyIsSaid(r, "callers") \/ "callers" \in r.gaps
    /\ r.at \notin {"index", "blast", "reuse"} => EmptyIsSaid(r, "reuse")
    /\ r.at \in {"importers", "trim", "done"} => EmptyIsSaid(r, "history")
NothingTold(r) ==
  r.kind # "preflight" /\ r.at \in {"trim", "done"} =>
    ((\A s \in Sections[r.kind] : r.part[s].shown = 0) => r.said # {})
Honest(r, kind) ==
  r \in ReviewRecord(kind) /\ CutIsSaid(r) /\ PreflightTold(r) /\ NothingTold(r)
ReviewInv == review = NoReview \/ \E kind \in DOMAIN Sections : Honest(review, kind)

\* One section is filled, and perhaps said or a gap.
Filled(s, found, shown, next, told, missed) ==
  [review EXCEPT !.part[s] = [found |-> found, shown |-> shown], !.at = next,
                 !.said = @ \cup told, !.gaps = @ \cup missed]

LEMMA KindsAre ==
  /\ DOMAIN Sections = {"preflight", "check", "guards"}
  /\ Sections["preflight"] = {"reuse", "history", "callers", "leads", "importers"}
  /\ Sections["check"] = {"rebuilt", "companions", "callers", "dependents", "removed"}
  /\ Sections["guards"] = {"guards"}
BY DEF Sections

LEMMA StepsAre ==
  /\ StepsOf["preflight"] = {"index", "blast", "reuse", "history", "importers", "trim", "done"}
  /\ StepsOf["check"] = {"index", "diff", "removed", "rebuilt", "companions", "callers",
                         "dependents", "said", "trim", "done"}
  /\ StepsOf["guards"] = {"index", "diff", "guards", "trim", "done"}
BY DEF StepsOf

LEMMA FilledIs ==
  ASSUME NEW kind \in DOMAIN Sections, review \in ReviewRecord(kind),
         NEW s \in Sections[kind], NEW found, NEW shown, NEW next
  PROVE  Fill(s, found, shown, next) = Filled(s, found, shown, next, {}, {})
BY DEF ReviewRecord, Fill, Filled

LEMMA SayFilled ==
  ASSUME NEW kind \in DOMAIN Sections, review \in ReviewRecord(kind),
         NEW s \in Sections[kind], NEW found, NEW shown, NEW next, NEW told, NEW missed, NEW more
  PROVE  Say(Filled(s, found, shown, next, told, missed), more)
           = Filled(s, found, shown, next, told \cup more, missed)
<1>1. (review.said \cup told) \cup more = review.said \cup (told \cup more)
  OBVIOUS
<1> QED BY <1>1 DEF ReviewRecord, Say, Filled

LEMMA GapFilled ==
  ASSUME NEW kind \in DOMAIN Sections, review \in ReviewRecord(kind),
         NEW s \in Sections[kind], NEW found, NEW shown, NEW next, NEW told, NEW missed, NEW more
  PROVE  Gap(Filled(s, found, shown, next, told, missed), more)
           = Filled(s, found, shown, next, told, missed \cup more)
<1>1. (review.gaps \cup missed) \cup more = review.gaps \cup (missed \cup more)
  OBVIOUS
<1> QED BY <1>1 DEF ReviewRecord, Gap, Filled

LEMMA FilledPart ==
  ASSUME NEW kind \in DOMAIN Sections, review \in ReviewRecord(kind),
         NEW s \in Sections[kind], NEW found, NEW shown, NEW next, NEW told, NEW missed
  PROVE  Filled(s, found, shown, next, told, missed).part[s] = [found |-> found, shown |-> shown]
<1>1. review.part \in [Sections[kind] -> [found : Nat, shown : Nat]]
  BY DEF ReviewRecord
<1> QED BY <1>1 DEF ReviewRecord, Filled

FillsOne(r, kind, s, found, shown, next, told) ==
  /\ r \in ReviewRecord(kind) /\ CutIsSaid(r)
  /\ r.at = next /\ r.kind = kind
  /\ r.part[s] = [found |-> found, shown |-> shown]
  /\ \A t \in Sections[kind] \ {s} : r.part[t] = review.part[t]
  /\ r.said = review.said \cup told /\ review.gaps \subseteq r.gaps

LEMMA FillStep ==
  ASSUME NEW kind \in DOMAIN Sections, Honest(review, kind),
         NEW s \in Sections[kind], NEW found \in Nat, NEW shown \in Nat,
         NEW next \in StepsOf[kind],
         NEW told \in SUBSET Sections[kind], NEW missed \in SUBSET Sections[kind],
         shown < found => s \in told \cup missed
  PROVE  FillsOne(Filled(s, found, shown, next, told, missed), kind, s, found, shown, next, told)
<1> DEFINE r == Filled(s, found, shown, next, told, missed)
<1>1. review \in ReviewRecord(kind) /\ CutIsSaid(review) /\ review.kind = kind
  BY DEF Honest, ReviewRecord
<1>2. /\ r \in ReviewRecord(kind) /\ r.at = next /\ r.kind = kind
      /\ r.part = [review.part EXCEPT ![s] = [found |-> found, shown |-> shown]]
      /\ r.said = review.said \cup told /\ r.gaps = review.gaps \cup missed
  BY <1>1 DEF ReviewRecord, Filled
<1>3. /\ r.part[s] = [found |-> found, shown |-> shown]
      /\ \A t \in Sections[kind] \ {s} : r.part[t] = review.part[t]
  BY <1>1, <1>2 DEF ReviewRecord
<1>4. CutIsSaid(r)
  <2>1. ASSUME NEW t \in Sections[kind], r.part[t].shown < r.part[t].found
        PROVE  t \in r.said \cup r.gaps
    <3>1. CASE t = s
      BY <1>2, <1>3, <2>1, <3>1
    <3>2. CASE t # s
      <4>1. review.part[t].shown < review.part[t].found
        BY <1>3, <2>1, <3>2
      <4>2. t \in review.said \cup review.gaps
        BY <1>1, <4>1 DEF CutIsSaid
      <4> QED BY <1>2, <4>2
    <3> QED BY <3>1, <3>2
  <2> QED BY <1>2, <2>1 DEF CutIsSaid
<1> QED BY <1>2, <1>3, <1>4 DEF FillsOne

LEMMA LeastIs ==
  ASSUME NEW m \in Nat, NEW n \in Nat
  PROVE  /\ Least(m, n) \in Nat /\ Least(m, n) <= m
         /\ Least(m, n) < m => Least(m, n) = n /\ n < m
         /\ Least(m, n) = 0 => m = 0 \/ n = 0
BY DEF Least

LEMMA BeginStep == review = NoReview /\ Begin => ReviewInv'
<1> SUFFICES ASSUME Begin PROVE ReviewInv'
  OBVIOUS
<1>1. PICK kind \in DOMAIN Sections : review' = Reviewing(kind)
  BY DEF Begin
<1> DEFINE r == Reviewing(kind)
<1>2. r \in ReviewRecord(kind) /\ r.at = "index" /\ r.kind = kind
  BY KindsAre DEF Reviewing, ReviewRecord, StepsOf, Unread
<1>3. CutIsSaid(r)
  BY <1>2 DEF CutIsSaid, Reviewing, Unread
<1>4. Honest(r, kind)
  BY <1>2, <1>3 DEF Honest, PreflightTold, NothingTold
<1> QED BY <1>1, <1>4 DEF ReviewInv

\* The steps that only say something and go on.
LEMMA GoOnStep ==
  ASSUME NEW kind \in DOMAIN Sections, Honest(review, kind), review.at \in {"index", "diff"}
  PROVE  /\ Honest(Empty, kind)
         /\ review.at = "index" /\ kind = "preflight" => Honest([review EXCEPT !.at = "blast"], kind)
         /\ review.at = "index" /\ kind # "preflight" => Honest([review EXCEPT !.at = "diff"], kind)
         /\ review.at = "diff" =>
              /\ kind = "check" =>
                   /\ Honest([review EXCEPT !.at = "removed"], kind)
                   /\ Honest(Say([review EXCEPT !.at = "removed", !.truncated = TRUE],
                                 {"rebuilt", "callers", "dependents"}), kind)
              /\ kind # "check" => Honest([review EXCEPT !.at = "guards"], kind)
<1>1. review \in ReviewRecord(kind) /\ CutIsSaid(review) /\ review.kind = kind
  BY DEF Honest, ReviewRecord
<1>2. kind \in {"preflight", "check", "guards"} /\ Sections[kind] # {}
  BY KindsAre
<1>3. Honest(Empty, kind)
  <2> DEFINE r == Empty
  <2>1. r \in ReviewRecord(kind) /\ r.kind = kind /\ r.said = Sections[kind]
    <3>1. "done" \in StepsOf[kind]
      BY <1>2, StepsAre
    <3> QED BY <1>1, <3>1 DEF Empty, Say, ReviewRecord
  <2> HIDE DEF r
  <2>2. kind = "preflight" => "callers" \in r.said /\ "reuse" \in r.said /\ "history" \in r.said
    BY <2>1, KindsAre
  <2> QED BY <1>2, <2>1, <2>2 DEF Honest, CutIsSaid, PreflightTold, EmptyIsSaid, NothingTold, r
<1>4. ASSUME NEW next \in StepsOf[kind], NEW r, r = [review EXCEPT !.at = next],
             next \in {"blast", "diff", "removed", "guards"}, kind = "preflight" => next = "blast"
      PROVE  Honest(r, kind)
  <2>1. /\ r \in ReviewRecord(kind) /\ r.kind = kind /\ r.at = next
        /\ r.part = review.part /\ r.said = review.said /\ r.gaps = review.gaps
    BY <1>1, <1>4 DEF ReviewRecord
  <2> QED BY <1>1, <1>4, <2>1 DEF Honest, CutIsSaid, PreflightTold, NothingTold
<1>5. ASSUME review.at = "diff" PROVE kind # "preflight"
  BY <1>1, <1>5, StepsAre DEF ReviewRecord
<1>6. ASSUME kind = "check", NEW r,
             r = Say([review EXCEPT !.at = "removed", !.truncated = TRUE],
                     {"rebuilt", "callers", "dependents"})
      PROVE  Honest(r, kind)
  <2>1. /\ r \in ReviewRecord(kind) /\ r.kind = kind /\ r.at = "removed"
        /\ r.part = review.part /\ review.said \subseteq r.said /\ r.gaps = review.gaps
    <3>1. "removed" \in StepsOf[kind] /\ {"rebuilt", "callers", "dependents"} \subseteq Sections[kind]
      BY <1>6, StepsAre, KindsAre
    <3> QED BY <1>1, <1>6, <3>1 DEF ReviewRecord, Say
  <2> QED BY <1>1, <1>6, <2>1 DEF Honest, CutIsSaid, PreflightTold, NothingTold
<1>7. /\ kind = "preflight" => "blast" \in StepsOf[kind]
      /\ kind # "preflight" => "diff" \in StepsOf[kind]
      /\ kind = "check" => "removed" \in StepsOf[kind]
      /\ kind = "guards" => "guards" \in StepsOf[kind]
  BY <1>2, StepsAre
<1> QED BY <1>2, <1>3, <1>4, <1>5, <1>6, <1>7

\* A step that fills a section of a preflight keeps what is told of the others.
LEMMA PreflightFill ==
  ASSUME Honest(review, "preflight"),
         NEW s \in Sections["preflight"], NEW found \in Nat, NEW shown \in Nat,
         NEW next \in {"history", "importers", "trim"},
         NEW told \in SUBSET Sections["preflight"], NEW missed \in SUBSET Sections["preflight"],
         shown < found => s \in told \cup missed,
         \/ s = "reuse" /\ review.at = "reuse" /\ next = "history"
         \/ s = "history" /\ review.at = "history" /\ next = "importers"
         \/ s = "importers" /\ review.at = "importers" /\ next = "trim",
         s # "importers" /\ shown = 0 => s \in told,
         review' = Filled(s, found, shown, next, told, missed)
  PROVE  ReviewInv'
<1> DEFINE r == Filled(s, found, shown, next, told, missed)
<1>1. "preflight" \in DOMAIN Sections /\ next \in StepsOf["preflight"]
  BY KindsAre, StepsAre
<1>2. /\ r \in ReviewRecord("preflight") /\ CutIsSaid(r)
      /\ r.at = next /\ r.kind = "preflight"
      /\ r.part[s] = [found |-> found, shown |-> shown]
      /\ \A t \in Sections["preflight"] \ {s} : r.part[t] = review.part[t]
      /\ r.said = review.said \cup told /\ review.gaps \subseteq r.gaps
  <2>1. FillsOne(r, "preflight", s, found, shown, next, told)
    BY <1>1, FillStep
  <2> HIDE DEF r
  <2> QED BY <2>1 DEF FillsOne
<1> HIDE DEF r
<1>3. review.kind = "preflight" /\ PreflightTold(review)
  BY DEF Honest, ReviewRecord
<1>4. PreflightTold(r)
  <2>1. CASE s = "reuse" /\ review.at = "reuse" /\ next = "history"
    BY <1>2, <1>3, <2>1, KindsAre DEF PreflightTold, EmptyIsSaid
  <2>2. CASE s = "history" /\ review.at = "history" /\ next = "importers"
    BY <1>2, <1>3, <2>2, KindsAre DEF PreflightTold, EmptyIsSaid
  <2>3. CASE s = "importers" /\ review.at = "importers" /\ next = "trim"
    BY <1>2, <1>3, <2>3, KindsAre DEF PreflightTold, EmptyIsSaid
  <2> QED BY <2>1, <2>2, <2>3
<1>5. Honest(r, "preflight")
  BY <1>2, <1>4 DEF Honest, NothingTold
<1>6. review' = r
  BY DEF r
<1> QED BY <1>1, <1>5, <1>6 DEF ReviewInv

LEMMA Limits ==
  /\ CommonNameMax \in Nat /\ ResolveMaxFiles \in Nat /\ LeadsShown \in Nat
  /\ DependentsMax \in Nat /\ CompanionsShown \in Nat /\ CheckMaxSymbols \in Nat
  /\ RulesShown \in Nat /\ MatchesShown \in Nat /\ GuardsScan \in Nat
  /\ GuardsShown \in Nat /\ Floor \in Nat /\ DependentsShown \in Nat /\ DependentsShown # 0
BY ReviewAssumption

LEMMA ReuseStep == Honest(review, "preflight") /\ Reuse => ReviewInv'
<1> SUFFICES ASSUME Honest(review, "preflight"), Reuse PROVE ReviewInv'
  OBVIOUS
<1>1. /\ review \in ReviewRecord("preflight") /\ review.at = "reuse"
      /\ "preflight" \in DOMAIN Sections /\ "reuse" \in Sections["preflight"]
  BY KindsAre DEF Honest, Reuse, Doing
<1>2. CASE review' = Say(Fill("reuse", 0, 0, "history"), {"reuse"})
  <2>1. review' = Filled("reuse", 0, 0, "history", {} \cup {"reuse"}, {})
    BY <1>1, <1>2, FilledIs, SayFilled
  <2>2. review' = Filled("reuse", 0, 0, "history", {"reuse"}, {})
    BY <2>1
  <2> QED BY <1>1, <2>2, PreflightFill
<1>3. CASE review.symbol
  <2>1. PICK same \in 0..CommonNameMax + 1, alike \in 0..1 :
          LET common == same > CommonNameMax
              shown == Least(IF common THEN alike ELSE same + alike, CommonNameMax)
              r == Fill("reuse", same + alike, shown, "history")
          IN review' = IF common \/ shown = 0 THEN Say(r, {"reuse"})
                       ELSE IF shown < same + alike THEN Gap(r, {"reuse"}) ELSE r
    BY <1>3 DEF Reuse
  <2> DEFINE found == same + alike
             named == IF same > CommonNameMax THEN alike ELSE same + alike
             shown == Least(named, CommonNameMax)
             r == Fill("reuse", found, shown, "history")
  <2>2. found \in Nat /\ named \in Nat
    BY Limits
  <2>3. review' = IF same > CommonNameMax \/ shown = 0 THEN Say(r, {"reuse"})
                  ELSE IF shown < found THEN Gap(r, {"reuse"}) ELSE r
    BY <2>1
  <2> HIDE DEF found, named
  <2>4. shown \in Nat
    BY <2>2, Limits, LeastIs
  <2> HIDE DEF shown
  <2>5. r = Filled("reuse", found, shown, "history", {}, {})
    BY <1>1, FilledIs
  <2> HIDE DEF r
  <2>6. /\ Say(r, {"reuse"}) = Filled("reuse", found, shown, "history", {} \cup {"reuse"}, {})
        /\ Gap(r, {"reuse"}) = Filled("reuse", found, shown, "history", {}, {} \cup {"reuse"})
    BY <1>1, <2>5, SayFilled, GapFilled
  <2>7. CASE same > CommonNameMax \/ shown = 0
    <3>1. review' = Filled("reuse", found, shown, "history", {"reuse"}, {})
      BY <2>3, <2>6, <2>7
    <3> QED BY <1>1, <2>2, <2>4, <3>1, PreflightFill
  <2>8. CASE ~(same > CommonNameMax \/ shown = 0) /\ shown < found
    <3>1. review' = Filled("reuse", found, shown, "history", {}, {"reuse"})
      BY <2>3, <2>6, <2>8
    <3>2. {} \in SUBSET Sections["preflight"] /\ {"reuse"} \in SUBSET Sections["preflight"]
      BY <1>1
    <3>3. shown # 0 /\ "reuse" \in {} \cup {"reuse"}
      BY <2>8
    <3> QED BY <1>1, <2>2, <2>4, <3>1, <3>2, <3>3, PreflightFill
  <2>9. CASE ~(same > CommonNameMax \/ shown = 0) /\ ~(shown < found)
    <3>1. review' = Filled("reuse", found, shown, "history", {}, {})
      BY <2>3, <2>5, <2>9
    <3> QED BY <1>1, <2>2, <2>4, <2>9, <3>1, PreflightFill
  <2> QED BY <2>7, <2>8, <2>9
<1> QED BY <1>2, <1>3 DEF Reuse

LEMMA HistoryStep == Honest(review, "preflight") /\ HistorySays => ReviewInv'
<1> SUFFICES ASSUME Honest(review, "preflight"), HistorySays PROVE ReviewInv'
  OBVIOUS
<1>1. /\ review \in ReviewRecord("preflight") /\ review.at = "history"
      /\ "preflight" \in DOMAIN Sections /\ "history" \in Sections["preflight"]
  BY KindsAre DEF Honest, HistorySays, Doing
<1>2. PICK available \in BOOLEAN, ranked \in BOOLEAN, pool \in 0..CompanionsShown + 1 :
        \E rules \in 0..pool :
          LET shown == IF rules > 0 THEN Least(rules, RulesShown)
                       ELSE IF ranked THEN Least(pool, CompanionsShown) ELSE 0
              r == Fill("history", pool, shown, "importers")
          IN review' = IF ~available \/ shown = 0 \/ pool > 0 THEN Say(r, {"history"}) ELSE r
  BY DEF HistorySays
<1>3. PICK rules \in 0..pool :
          LET shown == IF rules > 0 THEN Least(rules, RulesShown)
                       ELSE IF ranked THEN Least(pool, CompanionsShown) ELSE 0
              r == Fill("history", pool, shown, "importers")
          IN review' = IF ~available \/ shown = 0 \/ pool > 0 THEN Say(r, {"history"}) ELSE r
  BY <1>2
<1> DEFINE shown == IF rules > 0 THEN Least(rules, RulesShown)
                    ELSE IF ranked THEN Least(pool, CompanionsShown) ELSE 0
<1>4. pool \in Nat /\ rules \in Nat /\ shown \in Nat /\ (pool = 0 => shown = 0)
  BY Limits, LeastIs
<1>5. review' = IF ~available \/ shown = 0 \/ pool > 0
                THEN Say(Fill("history", pool, shown, "importers"), {"history"})
                ELSE Fill("history", pool, shown, "importers")
  BY <1>3
<1> HIDE DEF shown
<1>6. review' = Say(Fill("history", pool, shown, "importers"), {"history"})
  BY <1>4, <1>5
<1>7. review' = Filled("history", pool, shown, "importers", {} \cup {"history"}, {})
  BY <1>1, <1>6, FilledIs, SayFilled
<1>8. review' = Filled("history", pool, shown, "importers", {"history"}, {})
  BY <1>7
<1> QED BY <1>1, <1>4, <1>8, PreflightFill

\* What the importers of a module are counted as.
WidthTells(s, imports, found, shown, told) ==
  /\ shown > 0 => told = {} /\ imports # Failed /\ found = Cardinality(imports)
  /\ imports = {} => shown = 0
  /\ shown = 0 => told = {s} \/ imports = {}
  /\ shown = 0 /\ found > 0 => told = {s}

WidthFills(r, s, imports, next) ==
  \E found \in Nat, shown \in Nat, told \in {{}, {s}} :
    /\ r = Filled(s, found, shown, next, told, {})
    /\ WidthTells(s, imports, found, shown, told)

LEMMA WidthIs ==
  ASSUME NEW kind \in DOMAIN Sections, review \in ReviewRecord(kind),
         NEW s \in Sections[kind], NEW next, NEW imports \in {Failed} \cup SUBSET Paths
  PROVE  WidthFills(Width(s, imports, next), s, imports, next)
<1> USE DEF WidthFills
<1>1. CASE imports = Failed
  <2>1. Width(s, imports, next) = Filled(s, 0, 0, next, {} \cup {s}, {})
    BY <1>1, FilledIs, SayFilled DEF Width
  <2> QED BY <2>1 DEF WidthTells, Failed
<1>2. CASE imports # Failed
  <2>1. IsFiniteSet(imports)
    BY <1>2, ReviewAssumption, FS_Subset
  <2> DEFINE n == Cardinality(imports)
  <2>2. n \in Nat /\ (n = 0 <=> imports = {})
    BY <2>1, FS_CardinalityType, FS_EmptySet
  <2> HIDE DEF n
  <2>3. CASE n > DependentsMax
    <3>1. Width(s, imports, next) = Filled(s, n, 0, next, {} \cup {s}, {})
      BY <1>2, <2>3, FilledIs, SayFilled DEF Width, n
    <3> QED BY <1>2, <2>2, <2>3, <3>1, Limits DEF WidthTells
  <2>4. CASE ~(n > DependentsMax)
    <3>1. Width(s, imports, next) = Filled(s, n, Least(n, DependentsShown), next, {}, {})
      BY <1>2, <2>4, FilledIs DEF Width, n
    <3>2. Least(n, DependentsShown) \in Nat /\ (Least(n, DependentsShown) = 0 <=> n = 0)
      BY <2>2, Limits, LeastIs
    <3> QED BY <1>2, <2>2, <3>1, <3>2 DEF n, WidthTells
  <2> QED BY <2>3, <2>4
<1> QED BY <1>1, <1>2

LEMMA ImportersStep == Honest(review, "preflight") /\ Importers => ReviewInv'
<1> SUFFICES ASSUME Honest(review, "preflight"), Importers PROVE ReviewInv'
  OBVIOUS
<1>1. /\ review \in ReviewRecord("preflight") /\ review.at = "importers"
      /\ "preflight" \in DOMAIN Sections /\ "importers" \in Sections["preflight"]
  BY KindsAre DEF Honest, Importers, Doing
<1>2. CASE review' = Gap(Fill("importers", 0, 0, "trim"), {"importers"})
  <2>1. review' = Filled("importers", 0, 0, "trim", {}, {} \cup {"importers"})
    BY <1>1, <1>2, FilledIs, GapFilled
  <2>2. review' = Filled("importers", 0, 0, "trim", {}, {"importers"})
    BY <2>1
  <2> QED BY <1>1, <2>2, PreflightFill
<1>3. ASSUME NEW imports \in {Failed} \cup SUBSET Paths, NEW r,
             r = Width("importers", imports, "trim"),
             review' = IF imports = {} THEN Gap(r, {"importers"})
                       ELSE IF r.part["importers"].shown > 0 THEN Say(r, {"importers"}) ELSE r
      PROVE  ReviewInv'
  <2>1. PICK found \in Nat, shown \in Nat, told \in {{}, {"importers"}} :
          /\ r = Filled("importers", found, shown, "trim", told, {})
          /\ WidthTells("importers", imports, found, shown, told)
    <3>1. imports \in {Failed} \cup SUBSET Paths
      BY <1>3
    <3>2. WidthFills(Width("importers", imports, "trim"), "importers", imports, "trim")
      BY <1>1, <3>1, WidthIs
    <3> QED BY <1>3, <3>2 DEF WidthFills
  <2>2. r.part["importers"].shown = shown
    <3>1. Filled("importers", found, shown, "trim", told, {}).part["importers"]
            = [found |-> found, shown |-> shown]
      BY <1>1, FilledPart
    <3> QED BY <2>1, <3>1
  <2>3. /\ Say(r, {"importers"}) = Filled("importers", found, shown, "trim", told \cup {"importers"}, {})
        /\ Gap(r, {"importers"}) = Filled("importers", found, shown, "trim", told, {} \cup {"importers"})
    BY <1>1, <2>1, SayFilled, GapFilled
  <2>4. CASE imports = {}
    <3>1. review' = Filled("importers", found, shown, "trim", told, {"importers"})
      <4>1. review' = Gap(r, {"importers"})
        BY <1>3, <2>1, <2>2, <2>4 DEF WidthTells
      <4>2. {} \cup {"importers"} = {"importers"}
        OBVIOUS
      <4> QED BY <2>3, <4>1, <4>2
    <3> QED BY <1>1, <2>1, <3>1, PreflightFill
  <2>5. CASE imports # {} /\ shown > 0
    <3>a. told \cup {"importers"} = {"importers"}
      BY <2>1
    <3>1. review' = Filled("importers", found, shown, "trim", {"importers"}, {})
      BY <1>3, <2>2, <2>3, <2>5, <3>a
    <3> QED BY <1>1, <2>1, <3>1, PreflightFill
  <2>6. CASE imports # {} /\ ~(shown > 0)
    <3>1. review' = Filled("importers", found, shown, "trim", told, {})
      BY <1>3, <2>1, <2>2, <2>6
    <3>2. shown = 0 /\ told = {"importers"}
      BY <2>1, <2>6 DEF WidthTells
    <3> QED BY <1>1, <2>1, <3>1, <3>2, PreflightFill
  <2> QED BY <2>4, <2>5, <2>6
<1>4. \/ review' = Gap(Fill("importers", 0, 0, "trim"), {"importers"})
      \/ \E imports \in {Failed} \cup SUBSET Paths :
          LET r == Width("importers", imports, "trim")
          IN review' = IF imports = {} THEN Gap(r, {"importers"})
                       ELSE IF r.part["importers"].shown > 0 THEN Say(r, {"importers"}) ELSE r
  BY DEF Importers
<1> QED BY <1>2, <1>3, <1>4

LEMMA BlastStep == Honest(review, "preflight") /\ BlastRadius => ReviewInv'
<1> SUFFICES ASSUME Honest(review, "preflight"), BlastRadius PROVE ReviewInv'
  OBVIOUS
<1>1. /\ review \in ReviewRecord("preflight") /\ review.at = "blast" /\ CutIsSaid(review)
      /\ review.kind = "preflight"
      /\ "preflight" \in DOMAIN Sections /\ {"callers", "leads"} \subseteq Sections["preflight"]
      /\ "reuse" \in StepsOf["preflight"]
  BY KindsAre, StepsAre DEF Honest, BlastRadius, Doing, ReviewRecord
<1>2. PICK symbol \in BOOLEAN, defined \in BOOLEAN, cached \in BOOLEAN, resolvable \in BOOLEAN,
           dropped \in BOOLEAN, resolve \in {"on", "off", "auto"}, stored \in SUBSET Paths,
           sweep \in {Failed} \cup SUBSET Paths, result \in {Failed} \cup SUBSET Paths :
      \E written \in SUBSET result :
       LET status == Resolution(symbol, defined, resolve, sweep, cached, resolvable, result)
           resolved == status = "resolved"
           callers == stored \cup (IF resolved THEN written ELSE {})
           there == stored \cup (IF resolved THEN result ELSE {})
           leads == IF Swept(status) /\ sweep # Failed THEN sweep \ callers ELSE {}
           lost == there # callers \/ (status = "cached" /\ dropped)
           r == [review EXCEPT !.part["callers"] = [found |-> Cardinality(there),
                                                    shown |-> Cardinality(callers)],
                   !.part["leads"] = [found |-> Cardinality(leads),
                                      shown |-> Least(Cardinality(leads), LeadsShown)],
                   !.at = "reuse", !.symbol = symbol]
           t == Say(r, (BlastNotes(callers, leads) \ IF lost THEN {"callers"} ELSE {})
                       \cup IF leads # {} THEN {"leads"} ELSE {})
       IN review' = IF lost THEN Gap(t, {"callers"}) ELSE t
  BY DEF BlastRadius
<1> DEFINE status == Resolution(symbol, defined, resolve, sweep, cached, resolvable, result)
           resolved == status = "resolved"
<1>3. PICK written \in SUBSET result :
       LET callers == stored \cup (IF resolved THEN written ELSE {})
           there == stored \cup (IF resolved THEN result ELSE {})
           leads == IF Swept(status) /\ sweep # Failed THEN sweep \ callers ELSE {}
           lost == there # callers \/ (status = "cached" /\ dropped)
           r == [review EXCEPT !.part["callers"] = [found |-> Cardinality(there),
                                                    shown |-> Cardinality(callers)],
                   !.part["leads"] = [found |-> Cardinality(leads),
                                      shown |-> Least(Cardinality(leads), LeadsShown)],
                   !.at = "reuse", !.symbol = symbol]
           t == Say(r, (BlastNotes(callers, leads) \ IF lost THEN {"callers"} ELSE {})
                       \cup IF leads # {} THEN {"leads"} ELSE {})
       IN review' = IF lost THEN Gap(t, {"callers"}) ELSE t
  BY <1>2
<1> DEFINE callers == stored \cup (IF resolved THEN written ELSE {})
           there == stored \cup (IF resolved THEN result ELSE {})
           leads == IF Swept(status) /\ sweep # Failed THEN sweep \ callers ELSE {}
           lost == there # callers \/ (status = "cached" /\ dropped)
<1>10. resolved => result # Failed
  BY DEF Resolution
<1> HIDE DEF status
<1>11. callers \in SUBSET Paths /\ there \in SUBSET Paths /\ leads \in SUBSET Paths
  BY <1>10
<1>12. IsFiniteSet(callers) /\ IsFiniteSet(there) /\ IsFiniteSet(leads)
  BY <1>11, ReviewAssumption, FS_Subset
<1> DEFINE c == Cardinality(callers)
           n == Cardinality(there)
           l == Cardinality(leads)
           missed == IF lost THEN {"callers"} ELSE {}
           told == (BlastNotes(callers, leads) \ missed) \cup IF leads # {} THEN {"leads"} ELSE {}
<1>13. /\ c \in Nat /\ n \in Nat /\ l \in Nat
       /\ c = 0 <=> callers = {}
       /\ l = 0 <=> leads = {}
  BY <1>12, FS_CardinalityType, FS_EmptySet
<1>a. ~lost => c = n
  OBVIOUS
<1> HIDE DEF c, n, l
<1>14. Least(l, LeadsShown) \in Nat /\ Least(l, LeadsShown) <= l
  BY <1>13, Limits, LeastIs
<1>15. /\ told \subseteq {"callers", "leads"} /\ missed \subseteq {"callers"}
       /\ callers = {} => "callers" \in told \cup missed
       /\ c # n => "callers" \in missed
       /\ leads # {} => "leads" \in told
  BY <1>a DEF BlastNotes
<1>c. review' = LET r == [review EXCEPT !.part["callers"] = [found |-> n, shown |-> c],
                            !.part["leads"] = [found |-> l, shown |-> Least(l, LeadsShown)],
                            !.at = "reuse", !.symbol = symbol]
                IN IF lost THEN Gap(Say(r, told), {"callers"}) ELSE Say(r, told)
  BY <1>3 DEF c, n, l
<1> HIDE DEF told, callers, leads, there, lost, missed
<1> DEFINE part == [review.part EXCEPT !["callers"] = [found |-> n, shown |-> c],
                                      !["leads"] = [found |-> l, shown |-> Least(l, LeadsShown)]]
<1>16. review' = [review EXCEPT !.part = part, !.at = "reuse", !.symbol = symbol,
                               !.said = @ \cup told, !.gaps = @ \cup missed]
  BY <1>1, <1>c DEF Say, Gap, ReviewRecord, missed
<1>17. /\ review'.kind = "preflight" /\ review'.at = "reuse" /\ review'.part = part
       /\ review'.said = review.said \cup told /\ review'.gaps = review.gaps \cup missed
  BY <1>1, <1>16 DEF ReviewRecord
<1>18. /\ part \in [Sections["preflight"] -> [found : Nat, shown : Nat]]
       /\ part["callers"] = [found |-> n, shown |-> c]
       /\ part["leads"] = [found |-> l, shown |-> Least(l, LeadsShown)]
       /\ \A t \in Sections["preflight"] \ {"callers", "leads"} : part[t] = review.part[t]
  BY <1>1, <1>13, <1>14 DEF ReviewRecord
<1> HIDE DEF part
<1>19. review' \in ReviewRecord("preflight")
  <2>1. told \in SUBSET Sections["preflight"] /\ missed \in SUBSET Sections["preflight"]
    BY <1>1, <1>15
  <2> QED BY ZenonT(30), <1>1, <1>2, <1>16, <1>18, <2>1 DEF ReviewRecord
<1>20. CutIsSaid(review')
  <2>1. ASSUME NEW t \in Sections["preflight"],
               part[t].shown < part[t].found
        PROVE  t \in review'.said \cup review'.gaps
    <3>1. CASE t = "callers"
      BY <1>13, <1>15, <1>17, <1>18, <2>1, <3>1
    <3>2. CASE t = "leads"
      <4>1. leads # {}
        BY <1>13, <1>14, <1>18, <2>1, <3>2
      <4> QED BY <1>15, <1>17, <3>2, <4>1
    <3>3. CASE t \notin {"callers", "leads"}
      BY <1>1, <1>17, <1>18, <2>1, <3>3 DEF CutIsSaid
    <3> QED BY <3>1, <3>2, <3>3
  <2> QED BY <1>17, <2>1 DEF CutIsSaid
<1>21. PreflightTold(review')
  BY <1>13, <1>15, <1>17, <1>18 DEF PreflightTold, EmptyIsSaid
<1>22. NothingTold(review')
  BY <1>17 DEF NothingTold
<1>23. Honest(review', "preflight")
  BY <1>19, <1>20, <1>21, <1>22 DEF Honest
<1>24. review' = NoReview \/ \E kind \in DOMAIN Sections : Honest(review', kind)
  BY <1>1, <1>23
<1> QED BY <1>24 DEF ReviewInv

\* The same of a check and of a guards answer.
LEMMA OtherFill ==
  ASSUME NEW kind \in DOMAIN Sections, kind # "preflight", Honest(review, kind),
         NEW s \in Sections[kind], NEW found \in Nat, NEW shown \in Nat,
         NEW next \in StepsOf[kind], next # "done",
         NEW told \in SUBSET Sections[kind], NEW missed \in SUBSET Sections[kind],
         shown < found => s \in told \cup missed,
         next = "trim" => kind = "guards" /\ (shown = 0 => s \in told),
         review' = Filled(s, found, shown, next, told, missed)
  PROVE  ReviewInv'
<1> DEFINE r == Filled(s, found, shown, next, told, missed)
<1>2. /\ r \in ReviewRecord(kind) /\ CutIsSaid(r)
      /\ r.at = next /\ r.kind = kind
      /\ r.part[s] = [found |-> found, shown |-> shown]
      /\ r.said = review.said \cup told
  <2>1. FillsOne(r, kind, s, found, shown, next, told)
    BY FillStep
  <2> HIDE DEF r
  <2> QED BY <2>1 DEF FillsOne
<1> HIDE DEF r
<1>3. NothingTold(r)
  <2>1. CASE next = "trim"
    <3>1. kind = "guards" /\ s = "guards" /\ (shown = 0 => s \in told)
      BY <2>1, KindsAre
    <3> QED BY <1>2, <3>1, KindsAre DEF NothingTold
  <2>2. CASE next # "trim"
    BY <1>2, <2>2 DEF NothingTold
  <2> QED BY <2>1, <2>2
<1>4. PreflightTold(r)
  BY <1>2 DEF PreflightTold
<1>5. Honest(r, kind)
  BY <1>2, <1>3, <1>4 DEF Honest
<1>6. review' = r
  BY DEF r
<1> QED BY <1>5, <1>6 DEF ReviewInv

LEMMA CheckFill ==
  ASSUME Honest(review, "check"),
         NEW s \in Sections["check"], NEW found \in Nat, NEW shown \in Nat,
         NEW next \in {"rebuilt", "companions", "callers", "dependents", "said"},
         NEW told \in SUBSET Sections["check"], NEW missed \in SUBSET Sections["check"],
         shown < found => s \in told \cup missed,
         review' = Filled(s, found, shown, next, told, missed)
  PROVE  ReviewInv'
<1>1. "check" \in DOMAIN Sections /\ next \in StepsOf["check"] /\ next \notin {"done", "trim"}
  BY KindsAre, StepsAre
<1> QED BY <1>1, OtherFill

LEMMA GuardsFill ==
  ASSUME Honest(review, "guards"), NEW found \in Nat, NEW shown \in Nat,
         NEW told \in SUBSET Sections["guards"], NEW missed \in SUBSET Sections["guards"],
         shown < found => "guards" \in told \cup missed,
         shown = 0 => "guards" \in told,
         review' = Filled("guards", found, shown, "trim", told, missed)
  PROVE  ReviewInv'
<1>1. /\ "guards" \in DOMAIN Sections /\ "guards" \in Sections["guards"]
      /\ "trim" \in StepsOf["guards"]
  BY KindsAre, StepsAre
<1> QED BY <1>1, OtherFill

\* What a step of a check needs of the review.
LEMMA CheckIs ==
  ASSUME Honest(review, "check")
  PROVE  /\ review \in ReviewRecord("check") /\ "check" \in DOMAIN Sections
         /\ {"rebuilt", "companions", "callers", "dependents", "removed"} = Sections["check"]
         /\ {"rebuilt", "companions", "callers", "dependents", "said"} \subseteq StepsOf["check"]
  BY KindsAre, StepsAre DEF Honest

LEMMA RebuiltStep == Honest(review, "check") /\ Rebuilt => ReviewInv'
<1> SUFFICES ASSUME Honest(review, "check"), Rebuilt PROVE ReviewInv'
  OBVIOUS
<1>1. /\ review \in ReviewRecord("check") /\ "check" \in DOMAIN Sections
      /\ "rebuilt" \in Sections["check"] /\ "companions" \in StepsOf["check"]
  BY CheckIs
<1>2. PICK unreadable \in BOOLEAN, alike \in 0..Floor + 1, copies \in 1..CommonNameMax + 1 :
        LET hidden == unreadable \/ copies > CommonNameMax
            r == Fill("rebuilt", alike, IF hidden THEN 0 ELSE alike, "companions")
        IN review' = IF hidden \/ copies > MatchesShown THEN Gap(r, {"rebuilt"}) ELSE r
  BY DEF Rebuilt
<1> DEFINE hidden == unreadable \/ copies > CommonNameMax
           shown == IF hidden THEN 0 ELSE alike
<1>3. alike \in Nat /\ shown \in Nat /\ (shown < alike => hidden)
  BY Limits
<1>4. CASE hidden \/ copies > MatchesShown
  <2>1. review' = Gap(Fill("rebuilt", alike, shown, "companions"), {"rebuilt"})
    BY <1>2, <1>4
  <2> HIDE DEF shown
  <2>2. review' = Filled("rebuilt", alike, shown, "companions", {}, {} \cup {"rebuilt"})
    BY <1>1, <1>3, <2>1, FilledIs, GapFilled
  <2>3. review' = Filled("rebuilt", alike, shown, "companions", {}, {"rebuilt"})
    BY <2>2
  <2>4. /\ {} \in SUBSET Sections["check"] /\ {"rebuilt"} \in SUBSET Sections["check"]
        /\ "rebuilt" \in {} \cup {"rebuilt"}
    BY <1>1
  <2> QED BY <1>1, <1>3, <2>3, <2>4, CheckFill
<1>5. CASE ~(hidden \/ copies > MatchesShown)
  <2>1. review' = Fill("rebuilt", alike, shown, "companions")
    BY <1>2, <1>5
  <2> HIDE DEF shown
  <2>2. review' = Filled("rebuilt", alike, shown, "companions", {}, {})
    BY <1>1, <1>3, <2>1, FilledIs
  <2>3. {} \in SUBSET Sections["check"] /\ ~(shown < alike)
    BY <1>3, <1>5
  <2> QED BY <1>1, <1>3, <2>2, <2>3, CheckFill
<1> QED BY <1>4, <1>5

LEMMA CompanionsListed == Honest(review, "check") /\ CheckCompanions => ReviewInv'
<1> SUFFICES ASSUME Honest(review, "check"), CheckCompanions PROVE ReviewInv'
  OBVIOUS
<1> DEFINE next == IF review.truncated THEN "said" ELSE "callers"
<1>1. /\ review \in ReviewRecord("check") /\ "check" \in DOMAIN Sections
      /\ "companions" \in Sections["check"]
      /\ next \in {"rebuilt", "companions", "callers", "said"}
  BY CheckIs
<1>2. PICK available \in BOOLEAN, rules \in 0..RulesShown + 1 :
        LET r == Fill("companions", rules, Least(rules, RulesShown), next)
        IN review' = IF ~available THEN Say(Fill("companions", rules, 0, next), {"companions"})
                     ELSE IF rules > RulesShown THEN Gap(r, {"companions"}) ELSE r
  BY DEF CheckCompanions
<1> HIDE DEF next
<1> DEFINE shown == Least(rules, RulesShown)
<1>3. /\ rules \in Nat /\ shown \in Nat /\ (shown < rules => RulesShown < rules)
      /\ {"companions"} \in SUBSET Sections["check"] /\ {} \in SUBSET Sections["check"]
  <2>1. RulesShown \in Nat /\ rules \in Nat
    BY Limits
  <2>2. {"companions"} \in SUBSET Sections["check"] /\ {} \in SUBSET Sections["check"]
    BY <1>1
  <2> QED BY <2>1, <2>2, LeastIs
<1>4. CASE ~available
  <2>1. review' = Filled("companions", rules, 0, next, {} \cup {"companions"}, {})
    BY <1>1, <1>2, <1>4, FilledIs, SayFilled
  <2>2. review' = Filled("companions", rules, 0, next, {"companions"}, {})
    BY <2>1
  <2> QED BY <1>1, <1>3, <2>2, CheckFill
<1>5. CASE available /\ rules > RulesShown
  <2>1. review' = Gap(Fill("companions", rules, shown, next), {"companions"})
    BY <1>2, <1>5
  <2> HIDE DEF shown
  <2>2. review' = Filled("companions", rules, shown, next, {}, {} \cup {"companions"})
    BY <1>1, <1>3, <2>1, FilledIs, GapFilled
  <2>3. review' = Filled("companions", rules, shown, next, {}, {"companions"})
    BY <2>2
  <2> QED BY <1>1, <1>3, <2>3, CheckFill
<1>6. CASE available /\ ~(rules > RulesShown)
  <2>1. review' = Fill("companions", rules, shown, next)
    BY <1>2, <1>6
  <2>2. ~(shown < rules)
    BY <1>3, <1>6, Limits
  <2> HIDE DEF shown
  <2>3. review' = Filled("companions", rules, shown, next, {}, {})
    BY <1>1, <1>3, <2>1, FilledIs
  <2> QED BY <1>1, <1>3, <2>2, <2>3, CheckFill
<1> QED BY <1>4, <1>5, <1>6

LEMMA CheckCallersStep == Honest(review, "check") /\ CheckCallers => ReviewInv'
<1> SUFFICES ASSUME Honest(review, "check"), CheckCallers PROVE ReviewInv'
  OBVIOUS
<1>1. /\ review \in ReviewRecord("check") /\ "check" \in DOMAIN Sections
      /\ "callers" \in Sections["check"] /\ "dependents" \in StepsOf["check"]
  BY CheckIs
<1>2. PICK changed \in 0..CheckMaxSymbols + 1, resolved \in BOOLEAN : \E outside \in 0..changed :
       LET named == IF resolved THEN Least(outside, CheckMaxSymbols) ELSE 0
           r == Fill("callers", outside, named, "dependents")
           t == IF changed > CheckMaxSymbols THEN Say(r, {"callers"}) ELSE r
       IN review' = IF resolved THEN t ELSE Gap(t, {"callers"})
  BY DEF CheckCallers
<1>3. PICK outside \in 0..changed :
       LET named == IF resolved THEN Least(outside, CheckMaxSymbols) ELSE 0
           r == Fill("callers", outside, named, "dependents")
           t == IF changed > CheckMaxSymbols THEN Say(r, {"callers"}) ELSE r
       IN review' = IF resolved THEN t ELSE Gap(t, {"callers"})
  BY <1>2
<1> DEFINE named == IF resolved THEN Least(outside, CheckMaxSymbols) ELSE 0
           told == IF changed > CheckMaxSymbols THEN {"callers"} ELSE {}
           t == IF changed > CheckMaxSymbols
                THEN Say(Fill("callers", outside, named, "dependents"), {"callers"})
                ELSE Fill("callers", outside, named, "dependents")
<1>4. review' = IF resolved THEN t ELSE Gap(t, {"callers"})
  BY <1>3
<1>5. outside \in Nat /\ named \in Nat /\ changed \in Nat
  BY Limits, LeastIs
<1>6. resolved /\ named < outside => changed > CheckMaxSymbols
  BY <1>5, Limits, LeastIs
<1> HIDE DEF named
<1>7. t = Filled("callers", outside, named, "dependents", told, {})
  <2>1. CASE changed > CheckMaxSymbols
    <3>1. t = Filled("callers", outside, named, "dependents", {} \cup {"callers"}, {})
      BY <1>1, <2>1, FilledIs, SayFilled
    <3> QED BY <2>1, <3>1
  <2>2. CASE ~(changed > CheckMaxSymbols)
    BY <1>1, <2>2, FilledIs
  <2> QED BY <2>1, <2>2
<1>8. told \in SUBSET Sections["check"] /\ (resolved /\ named < outside => "callers" \in told)
  BY <1>1, <1>6
<1> HIDE DEF told, t
<1>9. CASE resolved
  <2>1. review' = Filled("callers", outside, named, "dependents", told, {})
    BY <1>4, <1>7, <1>9
  <2>2. {} \in SUBSET Sections["check"] /\ (named < outside => "callers" \in told \cup {})
    BY <1>8, <1>9
  <2> QED BY <1>1, <1>5, <1>8, <2>1, <2>2, CheckFill
<1>10. CASE ~resolved
  <2>1. review' = Filled("callers", outside, named, "dependents", told, {} \cup {"callers"})
    BY <1>1, <1>4, <1>7, <1>10, GapFilled
  <2>2. review' = Filled("callers", outside, named, "dependents", told, {"callers"})
    BY <2>1
  <2>3. {"callers"} \in SUBSET Sections["check"] /\ "callers" \in told \cup {"callers"}
    BY <1>1
  <2> QED BY <1>1, <1>5, <1>8, <2>2, <2>3, CheckFill
<1> QED BY <1>9, <1>10

LEMMA DependentsStep == Honest(review, "check") /\ Dependents => ReviewInv'
<1> SUFFICES ASSUME Honest(review, "check"), Dependents PROVE ReviewInv'
  OBVIOUS
<1>1. /\ review \in ReviewRecord("check") /\ "check" \in DOMAIN Sections
      /\ "dependents" \in Sections["check"] /\ "said" \in StepsOf["check"]
  BY CheckIs
<1>2. PICK imports \in {Failed} \cup SUBSET Paths :
       LET r == Width("dependents", imports, "said")
           named == r.part["dependents"].shown
       IN review' = IF named > 0 /\ named < Cardinality(imports) THEN Gap(r, {"dependents"})
                    ELSE r
  BY DEF Dependents
<1> DEFINE r == Width("dependents", imports, "said")
<1>3. WidthFills(r, "dependents", imports, "said")
  BY <1>1, WidthIs
<1>4. review' = IF r.part["dependents"].shown > 0 /\ r.part["dependents"].shown < Cardinality(imports)
                THEN Gap(r, {"dependents"}) ELSE r
  BY <1>2
<1> HIDE DEF r
<1>5. PICK found \in Nat, shown \in Nat, told \in {{}, {"dependents"}} :
        /\ r = Filled("dependents", found, shown, "said", told, {})
        /\ WidthTells("dependents", imports, found, shown, told)
  BY <1>3 DEF WidthFills
<1>6. r.part["dependents"].shown = shown
  <2>1. Filled("dependents", found, shown, "said", told, {}).part["dependents"]
          = [found |-> found, shown |-> shown]
    BY <1>1, FilledPart
  <2> QED BY <1>5, <2>1
<1>7. told \in SUBSET Sections["check"]
  BY <1>1, <1>5
<1>8. CASE shown > 0 /\ shown < Cardinality(imports)
  <2>1. review' = Filled("dependents", found, shown, "said", told, {} \cup {"dependents"})
    BY <1>1, <1>4, <1>5, <1>6, <1>8, GapFilled
  <2>2. review' = Filled("dependents", found, shown, "said", told, {"dependents"})
    BY <2>1
  <2> QED BY <1>1, <1>5, <1>7, <2>2, CheckFill
<1>9. CASE ~(shown > 0 /\ shown < Cardinality(imports))
  <2>1. review' = Filled("dependents", found, shown, "said", told, {})
    BY <1>4, <1>5, <1>6, <1>9
  <2>2. shown < found => "dependents" \in told
    BY <1>5, <1>9 DEF WidthTells
  <2> QED BY <1>1, <1>5, <1>7, <2>1, <2>2, CheckFill
<1> QED BY <1>8, <1>9

LEMMA ImagesAre ==
  ASSUME NEW s \in Images
  PROVE  s \in Seq(Fences)
<1>1. PICK m \in 0..MaxFences : s \in [1..m -> Fences]
  BY DEF Images, SeqOf
<1>2. m \in Nat
  BY <1>1, ReviewAssumption
<1> QED BY <1>1, <1>2

LEMMA RemovedStep == Honest(review, "check") /\ Removed => ReviewInv'
<1> SUFFICES ASSUME Honest(review, "check"), Removed PROVE ReviewInv'
  OBVIOUS
<1> DEFINE next == IF review.truncated THEN "companions" ELSE "rebuilt"
<1>1. /\ review \in ReviewRecord("check") /\ "check" \in DOMAIN Sections
      /\ "removed" \in Sections["check"]
      /\ next \in {"rebuilt", "companions", "callers", "said"}
  BY CheckIs
<1>2. PICK was \in Images, now \in Images, elsewhere \in SUBSET Fences :
       LET after == ToSet(now) \cup elsewhere
           gone == Gone(was, now, after)
           told == Reported(was, now, Landed(after))
       IN review' = Fill("removed", Cardinality(gone \cup told), Cardinality(told), next)
  BY DEF Removed
<1> DEFINE after == ToSet(now) \cup elsewhere
           told == Reported(was, now, Landed(after))
           n == Cardinality(told)
<1>3. was \in Seq(Fences) /\ now \in Seq(Fences)
  BY ImagesAre
<1>4. Gone(was, now, after) \subseteq told
  <2>1. ToSet(now) \subseteq after
    OBVIOUS
  <2> HIDE DEF after
  <2> QED BY <1>3, <2>1, GoneIsReported
<1>5. n \in Nat
  BY <1>3, ReportedFinite, FS_CardinalityType
<1>6. Gone(was, now, after) \cup told = told
  <2> HIDE DEF told, after
  <2> QED BY <1>4
<1>7. review' = Fill("removed", n, n, next)
  BY <1>2, <1>6
<1> HIDE DEF next, n
<1>8. review' = Filled("removed", n, n, next, {}, {})
  BY <1>1, <1>7, FilledIs
<1> QED BY <1>1, <1>5, <1>8, CheckFill

LEMMA NothingFoundStep == Honest(review, "check") /\ NothingFound => ReviewInv'
<1> SUFFICES ASSUME Honest(review, "check"), NothingFound PROVE ReviewInv'
  OBVIOUS
<1> DEFINE more == IF \A s \in Sections["check"] : review.part[s].shown = 0
                   THEN Sections["check"] ELSE {}
<1>1. /\ review \in ReviewRecord("check") /\ "check" \in DOMAIN Sections /\ CutIsSaid(review)
      /\ Sections["check"] # {} /\ "trim" \in StepsOf["check"] /\ review.kind = "check"
  BY KindsAre, StepsAre DEF Honest, ReviewRecord
<1>2. review' = [review EXCEPT !.at = "trim", !.said = @ \cup more]
  BY DEF NothingFound, Shown
<1>3. /\ more \subseteq Sections["check"]
      /\ (\A s \in Sections["check"] : review.part[s].shown = 0) => more # {}
  BY <1>1
<1> HIDE DEF more
<1>4. /\ review' \in ReviewRecord("check") /\ review'.kind = "check" /\ review'.at = "trim"
      /\ review'.part = review.part /\ review'.gaps = review.gaps
      /\ review'.said = review.said \cup more
  BY <1>1, <1>2, <1>3 DEF ReviewRecord
<1>5. CutIsSaid(review')
  BY <1>1, <1>4 DEF CutIsSaid
<1>6. PreflightTold(review') /\ NothingTold(review')
  BY <1>3, <1>4 DEF PreflightTold, NothingTold
<1>7. review' = NoReview \/ \E kind \in DOMAIN Sections : Honest(review', kind)
  BY <1>1, <1>4, <1>5, <1>6 DEF Honest
<1> QED BY <1>7 DEF ReviewInv

LEMMA GuardsStep == Honest(review, "guards") /\ Guards => ReviewInv'
<1> SUFFICES ASSUME Honest(review, "guards"), Guards PROVE ReviewInv'
  OBVIOUS
<1>1. /\ review \in ReviewRecord("guards") /\ "guards" \in DOMAIN Sections
      /\ "guards" \in Sections["guards"] /\ "trim" \in StepsOf["guards"]
  BY KindsAre, StepsAre DEF Honest
<1>2. PICK of \in [Paths \cup {"changed"} -> [naming : 0..1, other : {0, GuardsPerFile + 1}]],
           sweep \in {"read", "failed", "wide", "unasked"}, scan \in BOOLEAN,
           companions \in SUBSET Paths, importers \in SUBSET Paths :
      \E history \in {companions, {}} \cup {h \in SUBSET companions : Cardinality(h) = GuardsScan} :
       LET there == InReach(of, "read", companions, importers)
           ranked == InReach(of, sweep, history, IF scan THEN importers ELSE {})
           r == Fill("guards", there, Least(ranked, GuardsShown), "trim")
           t == IF sweep = "wide" \/ ~scan \/ ranked = 0 \/ ranked > GuardsShown
                THEN Say(r, {"guards"}) ELSE r
           quiet == sweep \in {"failed", "unasked"} \/ history # companions
       IN /\ Cardinality(history) <= GuardsScan
          /\ review' = IF quiet THEN Gap(t, {"guards"}) ELSE t
  BY DEF Guards
<1>b. PICK history \in SUBSET companions :
       LET there == InReach(of, "read", companions, importers)
           ranked == InReach(of, sweep, history, IF scan THEN importers ELSE {})
           r == Fill("guards", there, Least(ranked, GuardsShown), "trim")
           t == IF sweep = "wide" \/ ~scan \/ ranked = 0 \/ ranked > GuardsShown
                THEN Say(r, {"guards"}) ELSE r
           quiet == sweep \in {"failed", "unasked"} \/ history # companions
       IN review' = IF quiet THEN Gap(t, {"guards"}) ELSE t
  BY <1>2
<1> DEFINE there == InReach(of, "read", companions, importers)
           ranked == InReach(of, sweep, history, IF scan THEN importers ELSE {})
           shown == Least(ranked, GuardsShown)
           said == sweep = "wide" \/ ~scan \/ ranked = 0 \/ ranked > GuardsShown
           told == IF said THEN {"guards"} ELSE {}
           t == IF said THEN Say(Fill("guards", there, shown, "trim"), {"guards"})
                ELSE Fill("guards", there, shown, "trim")
           quiet == sweep \in {"failed", "unasked"} \/ history # companions
<1>3. review' = IF quiet THEN Gap(t, {"guards"}) ELSE t
  BY <1>b
<1>4. of \in GuardCounts
  <2>1. GuardsPerFile + 1 \in Nat
    BY ReviewAssumption
  <2> QED BY <2>1 DEF GuardCounts
<1>5. there \in Nat /\ ranked \in Nat
  BY <1>4, InReachType
<1>6. ~quiet /\ ~said => ranked = there
  <2>1. ASSUME ~quiet, ~said
        PROVE  sweep = "read" /\ history = companions /\ scan
    BY <2>1
  <2> QED BY <2>1
<1> HIDE DEF there, ranked, quiet
<1>7. shown \in Nat /\ (shown = 0 => said) /\ (shown < ranked => said)
  <2>1. /\ shown \in Nat /\ (shown < ranked => GuardsShown < ranked)
        /\ shown = 0 => ranked = 0 \/ GuardsShown = 0
    BY <1>5, Limits, LeastIs
  <2>2. ranked = 0 \/ GuardsShown < ranked => said
    BY <1>5, Limits
  <2> HIDE DEF shown, said
  <2> QED BY <1>5, <2>1, <2>2, Limits
<1> HIDE DEF shown, said
<1>8. t = Filled("guards", there, shown, "trim", told, {})
  <2>1. CASE said
    <3>1. t = Filled("guards", there, shown, "trim", {} \cup {"guards"}, {})
      BY <1>1, <2>1, FilledIs, SayFilled
    <3> QED BY <2>1, <3>1
  <2>2. CASE ~said
    BY <1>1, <2>2, FilledIs
  <2> QED BY <2>1, <2>2
<1>9. told \in SUBSET Sections["guards"] /\ (said => "guards" \in told)
  BY <1>1
<1> HIDE DEF told, t
<1>10. CASE quiet
  <2>1. review' = Filled("guards", there, shown, "trim", told, {} \cup {"guards"})
    BY <1>1, <1>3, <1>8, <1>10, GapFilled
  <2>2. review' = Filled("guards", there, shown, "trim", told, {"guards"})
    BY <2>1
  <2> QED BY <1>1, <1>5, <1>7, <1>9, <2>2, GuardsFill
<1>11. CASE ~quiet
  <2>1. review' = Filled("guards", there, shown, "trim", told, {})
    BY <1>3, <1>8, <1>11
  <2>2. shown < there => "guards" \in told
    BY <1>6, <1>7, <1>9, <1>11
  <2> QED BY <1>1, <1>5, <1>7, <1>9, <2>1, <2>2, GuardsFill
<1> QED BY <1>10, <1>11

\* The budget takes an entry only of a section that has one.
LEMMA DroppedIs ==
  ASSUME NEW kind \in DOMAIN Sections, review \in ReviewRecord(kind), Dropped # "none"
  PROVE  Dropped \in Sections[kind] /\ review.part[Dropped].shown > 0
<1> DEFINE cuts == Cuts[kind]
           over == {i \in DOMAIN cuts : Shown(cuts[i][1]) > cuts[i][2]}
<1>1. /\ Len(cuts) \in Nat /\ DOMAIN cuts = 1..Len(cuts)
      /\ \A i \in DOMAIN cuts : cuts[i][1] \in Sections[kind] /\ cuts[i][2] \in Nat
  <2>1. CASE kind = "preflight"
    BY <2>1, KindsAre, Limits DEF Cuts
  <2>2. CASE kind = "check"
    BY <2>2, KindsAre, Limits DEF Cuts
  <2>3. CASE kind = "guards"
    BY <2>3, KindsAre DEF Cuts
  <2> QED BY <2>1, <2>2, <2>3, KindsAre
<1>2. review.kind = kind /\ \A s \in Sections[kind] : Shown(s) \in Nat
  BY DEF ReviewRecord, Shown
<1> HIDE DEF cuts
<1>3. over # {} /\ Dropped = cuts[Min(over)][1]
  BY <1>2 DEF Dropped, cuts
<1>4. Min(over) \in over
  <2>1. over \in SUBSET (1..Len(cuts))
    BY <1>1
  <2> HIDE DEF over
  <2> QED BY <1>1, <1>3, <2>1, MinOfIndexes
<1>5. Shown(Dropped) > cuts[Min(over)][2] /\ Dropped \in Sections[kind]
  BY <1>1, <1>3, <1>4
<1>6. cuts[Min(over)][2] \in Nat /\ Shown(Dropped) \in Nat
  BY <1>1, <1>2, <1>4, <1>5
<1>7. Shown(Dropped) > 0
  <2> HIDE DEF over
  <2> QED BY <1>5, <1>6
<1> QED BY <1>5, <1>7 DEF Shown

LEMMA TrimStep ==
  ASSUME NEW kind \in DOMAIN Sections, Honest(review, kind), Trim
  PROVE  ReviewInv'
<1> DEFINE d == Dropped
           told == IF kind = "preflight" THEN {d} ELSE Sections[kind]
           part == [review.part EXCEPT ![d].shown = @ - 1]
<1>1. /\ review \in ReviewRecord(kind) /\ review.kind = kind /\ review.at = "trim"
      /\ CutIsSaid(review) /\ PreflightTold(review)
  BY DEF Honest, ReviewRecord, Trim
<1>2. d \in Sections[kind] /\ review.part[d].shown > 0
  BY <1>1, DroppedIs DEF Trim
<1>3. review' = Say(Cut(d), told)
  BY <1>1 DEF Trim
<1> HIDE DEF d
<1>4. told \subseteq Sections[kind] /\ d \in told
  BY <1>2
<1> HIDE DEF told
<1>5. /\ part \in [Sections[kind] -> [found : Nat, shown : Nat]]
      /\ \A t \in Sections[kind] \ {d} : part[t] = review.part[t]
  BY <1>1, <1>2 DEF ReviewRecord
<1>6. review' = [review EXCEPT !.part = part, !.said = @ \cup told]
  BY <1>1, <1>2, <1>3 DEF Say, Cut, ReviewRecord
<1> HIDE DEF part
<1>7. /\ review' \in ReviewRecord(kind) /\ review'.kind = kind /\ review'.at = "trim"
      /\ review'.part = part /\ review'.gaps = review.gaps
      /\ review'.said = review.said \cup told
  BY <1>1, <1>4, <1>5, <1>6 DEF ReviewRecord
<1>8. CutIsSaid(review')
  <2>1. ASSUME NEW t \in Sections[kind], part[t].shown < part[t].found
        PROVE  t \in review'.said \cup review'.gaps
    BY <1>1, <1>4, <1>5, <1>7, <2>1 DEF CutIsSaid
  <2> QED BY <1>7, <2>1 DEF CutIsSaid
<1>9. PreflightTold(review')
  <2>1. ASSUME kind = "preflight", NEW t \in {"reuse", "history", "callers"}, part[t].shown = 0,
               t = "callers" => t \notin review.gaps
        PROVE  t \in review'.said
    <3>1. CASE t = d
      BY <1>4, <1>7, <3>1
    <3>2. CASE t # d
      <4>1. t \in Sections[kind] /\ review.part[t].shown = 0
        BY <1>5, <2>1, <3>2, KindsAre
      <4>2. t \in review.said
        BY <1>1, <2>1, <4>1 DEF PreflightTold, EmptyIsSaid
      <4> QED BY <1>7, <4>2
    <3> QED BY <3>1, <3>2
  <2> QED BY <1>7, <2>1 DEF PreflightTold, EmptyIsSaid
<1>10. NothingTold(review')
  BY <1>4, <1>7 DEF NothingTold
<1>11. review' = NoReview \/ \E k \in DOMAIN Sections : Honest(review', k)
  BY <1>7, <1>8, <1>9, <1>10 DEF Honest
<1> QED BY <1>11 DEF ReviewInv

LEMMA FitsStep ==
  ASSUME NEW kind \in DOMAIN Sections, Honest(review, kind), Fits
  PROVE  ReviewInv'
<1>1. /\ review \in ReviewRecord(kind) /\ review.kind = kind /\ review.at = "trim"
      /\ CutIsSaid(review) /\ PreflightTold(review) /\ NothingTold(review)
      /\ "done" \in StepsOf[kind]
  BY KindsAre, StepsAre DEF Honest, ReviewRecord, Fits
<1>2. /\ review' \in ReviewRecord(kind) /\ review'.kind = kind /\ review'.at = "done"
      /\ review'.part = review.part /\ review'.gaps = review.gaps
      /\ review'.said = review.said
  BY <1>1 DEF ReviewRecord, Fits
<1>3. CutIsSaid(review') /\ PreflightTold(review') /\ NothingTold(review')
  BY <1>1, <1>2 DEF CutIsSaid, PreflightTold, NothingTold, EmptyIsSaid
<1>4. review' = NoReview \/ \E k \in DOMAIN Sections : Honest(review', k)
  BY <1>2, <1>3 DEF Honest
<1> QED BY <1>4 DEF ReviewInv

LEMMA GoneOnStep ==
  ASSUME NEW kind \in DOMAIN Sections, Honest(review, kind), Indexed \/ NotIndexed \/ Diff
  PROVE  ReviewInv'
<1>1. review.kind = kind /\ review.at \in {"index", "diff"}
  BY DEF Honest, ReviewRecord, Indexed, NotIndexed, Diff
<1>2. review.at = "diff" => kind # "preflight"
  BY StepsAre DEF Honest, ReviewRecord
<1>3. Honest(review', kind)
  <2>1. CASE Indexed
    BY <1>1, <2>1, GoOnStep DEF Indexed
  <2>2. CASE NotIndexed
    BY <1>1, <2>2, GoOnStep DEF NotIndexed
  <2>3. CASE Diff
    BY <1>1, <2>3, GoOnStep DEF Diff
  <2> QED BY <2>1, <2>2, <2>3
<1>4. review' = NoReview \/ \E k \in DOMAIN Sections : Honest(review', k)
  BY <1>3
<1> QED BY <1>4 DEF ReviewInv

LEMMA ReviewStep == ReviewInv /\ [ReviewNext]_reviewVars => ReviewInv'
<1> SUFFICES ASSUME ReviewInv, [ReviewNext]_reviewVars PROVE ReviewInv'
  OBVIOUS
<1>1. CASE UNCHANGED reviewVars
  BY <1>1 DEF reviewVars, ReviewInv, Honest, ReviewRecord, CutIsSaid, PreflightTold, NothingTold, EmptyIsSaid
<1>2. CASE ReviewNext /\ review = NoReview
  <2>1. review.kind = "none" /\ review.at = "none"
    BY <1>2 DEF NoReview
  <2>2. Begin
    BY <1>2, <2>1 DEF ReviewNext, Doing, Indexed, NotIndexed, Reuse, HistorySays, BlastRadius,
       Importers, Diff, Rebuilt, CheckCompanions, CheckCallers, Dependents, Removed, NothingFound,
       Guards, Trim, Fits, Hand
  <2> QED BY <1>2, <2>2, BeginStep
<1>3. ASSUME ReviewNext, NEW kind \in DOMAIN Sections, Honest(review, kind) PROVE ReviewInv'
  <2>1. review.kind = kind /\ review # NoReview
    BY <1>3, KindsAre DEF Honest, ReviewRecord, NoReview
  <2>2. /\ Reuse \/ HistorySays \/ BlastRadius \/ Importers => kind = "preflight"
        /\ Rebuilt \/ CheckCompanions \/ CheckCallers \/ Dependents \/ Removed \/ NothingFound
             => kind = "check"
        /\ Guards => kind = "guards"
    BY <2>1 DEF Doing, Reuse, HistorySays, BlastRadius, Importers, Rebuilt, CheckCompanions,
       CheckCallers, Dependents, Removed, NothingFound, Guards
  <2>3. CASE Indexed \/ NotIndexed \/ Diff
    BY <1>3, <2>3, GoneOnStep
  <2>4. CASE Reuse
    BY <1>3, <2>2, <2>4, ReuseStep
  <2>5. CASE HistorySays
    BY <1>3, <2>2, <2>5, HistoryStep
  <2>6. CASE BlastRadius
    BY <1>3, <2>2, <2>6, BlastStep
  <2>7. CASE Importers
    BY <1>3, <2>2, <2>7, ImportersStep
  <2>8. CASE Rebuilt
    BY <1>3, <2>2, <2>8, RebuiltStep
  <2>9. CASE CheckCompanions
    BY <1>3, <2>2, <2>9, CompanionsListed
  <2>10. CASE CheckCallers
    BY <1>3, <2>2, <2>10, CheckCallersStep
  <2>11. CASE Dependents
    BY <1>3, <2>2, <2>11, DependentsStep
  <2>12. CASE Removed
    BY <1>3, <2>2, <2>12, RemovedStep
  <2>13. CASE NothingFound
    BY <1>3, <2>2, <2>13, NothingFoundStep
  <2>14. CASE Guards
    BY <1>3, <2>2, <2>14, GuardsStep
  <2>15. CASE Trim
    BY <1>3, <2>15, TrimStep
  <2>16. CASE Fits
    BY <1>3, <2>16, FitsStep
  <2>17. CASE Hand
    BY <2>17 DEF Hand, ReviewInv
  <2>18. CASE Begin
    BY <2>1, <2>18 DEF Begin
  <2> QED BY <1>3, <2>3, <2>4, <2>5, <2>6, <2>7, <2>8, <2>9, <2>10, <2>11, <2>12, <2>13,
             <2>14, <2>15, <2>16, <2>17, <2>18 DEF ReviewNext
<1> QED BY <1>1, <1>2, <1>3 DEF ReviewInv

LEMMA ReviewSays == ReviewInv => SilenceIsSaid
<1> SUFFICES ASSUME ReviewInv, review.at = "done" PROVE SilenceIsSaid
  BY DEF SilenceIsSaid
<1>1. PICK kind \in DOMAIN Sections : Honest(review, kind)
  BY DEF ReviewInv, NoReview
<1>2. /\ review.kind = kind /\ CutIsSaid(review) /\ PreflightTold(review) /\ NothingTold(review)
  BY <1>1 DEF Honest, ReviewRecord
<1>3. \A s \in Sections[kind] \ review.gaps :
        review.part[s].shown < review.part[s].found => s \in review.said
  BY <1>2 DEF CutIsSaid
<1>4. kind = "preflight" =>
        /\ \A s \in {"reuse", "history"} : review.part[s].shown = 0 => s \in review.said
        /\ review.part["callers"].shown = 0 => "callers" \in review.said \cup review.gaps
  BY <1>2 DEF PreflightTold, EmptyIsSaid
<1>5. (\A s \in Sections[kind] : review.part[s].shown = 0) => review.said # {}
  <2>1. CASE kind = "preflight"
    BY <1>4, <2>1, KindsAre
  <2>2. CASE kind # "preflight"
    BY <1>2, <2>2 DEF NothingTold
  <2> QED BY <2>1, <2>2
<1> QED BY <1>2, <1>3, <1>4, <1>5 DEF SilenceIsSaid, Shown

\* No answer of preflight, check or guards lets silence pass for absence, for any
\* number of files, of guards and of callers and any limits.
THEOREM SilenceCorrect == ReviewSpec => []SilenceIsSaid
<1>1. ReviewInit => ReviewInv
  BY DEF ReviewInit, ReviewInv
<1> QED BY <1>1, ReviewStep, ReviewSays, PTL DEF ReviewSpec

(***************************************************************************)
(* Surfaces and ToolCalls: the question is the same on every surface.      *)
(***************************************************************************)
-----------------------------------------------------------------------------
(* What the tables say, operation by operation.                            *)

LEMMA ClientParts ==
  /\ DOMAIN ClientQueries = {"get_symbols", "get_map", "preflight", "check", "guards", "status"}
  /\ DOMAIN ClientScans = {"find_references", "index_project", "find_deadcode", "find_ai_usage",
                           "find_unwired"}
  /\ DOMAIN ClientComments = {"get_comment_overview", "find_comment_tags", "get_comments",
                              "find_duplicates", "call_hierarchy", "impact"}
BY DEF ClientQueries, ClientScans, ClientComments

LEMMA ClientIs ==
  /\ \A op \in DOMAIN ClientQueries : Client[op] = ClientQueries[op]
  /\ \A op \in DOMAIN ClientScans : Client[op] = ClientScans[op]
  /\ \A op \in DOMAIN ClientComments : Client[op] = ClientComments[op]
  /\ Operations = DOMAIN ClientQueries \cup DOMAIN ClientScans \cup DOMAIN ClientComments
BY ClientParts DEF Client, Beside, Operations

LEMMA EndpointParts ==
  /\ DOMAIN EndpointQueries = {"get_symbols", "find_references", "get_map", "reindex", "status"}
  /\ DOMAIN EndpointScans = {"deadcode", "ai_usage", "call_hierarchy", "impact", "find_unwired"}
  /\ DOMAIN EndpointReviews = {"preflight", "check", "guards"}
  /\ DOMAIN EndpointComments = {"comment_overview", "comment_tags", "get_comments", "find_duplicates"}
BY DEF EndpointQueries, EndpointScans, EndpointReviews, EndpointComments

LEMMA EndpointIs ==
  /\ \A r \in DOMAIN EndpointQueries : Endpoint[r] = EndpointQueries[r]
  /\ \A r \in DOMAIN EndpointScans : Endpoint[r] = EndpointScans[r]
  /\ \A r \in DOMAIN EndpointReviews : Endpoint[r] = EndpointReviews[r]
  /\ \A r \in DOMAIN EndpointComments : Endpoint[r] = EndpointComments[r]
BY EndpointParts DEF Endpoint, Beside

\* What the tables of client and daemon say of an operation.
Tabled(op) ==
  LET names == Client[op][3]
      reads == Endpoint[Client[op][2]]
      post == Client[op][1] = "POST"
  IN /\ Client[op][2] \in IF post THEN RoutesPost ELSE RoutesGet
     /\ \A p \in Params(op) : reads[p] \in DOMAIN names /\ names[reads[p]] = p
     /\ Required(op) \subseteq Params(op)
     /\ post => \A p \in Params(op) \ (Flags \cup {"direction"}) :
                  p \notin Lists /\ p # "resolve" /\ Default(op, p) = "none"

LEMMA QueriesTabled == \A op \in DOMAIN ClientQueries : Tabled(op)
<1> USE DEF Tabled, Params, Required, RoutesGet, RoutesPost, Default, Flags, Lists
<1>1. Tabled("get_symbols")
  <2>1. Client["get_symbols"] = ClientQueries["get_symbols"] /\ Endpoint["get_symbols"] = EndpointQueries["get_symbols"]
    BY ClientParts, ClientIs, EndpointParts, EndpointIs
  <2> QED BY <2>1 DEF ClientQueries, EndpointQueries
<1>2. Tabled("get_map")
  <2>1. Client["get_map"] = ClientQueries["get_map"] /\ Endpoint["get_map"] = EndpointQueries["get_map"]
    BY ClientParts, ClientIs, EndpointParts, EndpointIs
  <2> QED BY <2>1 DEF ClientQueries, EndpointQueries
<1>3. Tabled("preflight")
  <2>1. Client["preflight"] = ClientQueries["preflight"] /\ Endpoint["preflight"] = EndpointReviews["preflight"]
    BY ClientParts, ClientIs, EndpointParts, EndpointIs
  <2> QED BY <2>1 DEF ClientQueries, EndpointReviews
<1>4. Tabled("check")
  <2>1. Client["check"] = ClientQueries["check"] /\ Endpoint["check"] = EndpointReviews["check"]
    BY ClientParts, ClientIs, EndpointParts, EndpointIs
  <2> QED BY <2>1 DEF ClientQueries, EndpointReviews
<1>5. Tabled("guards")
  <2>1. Client["guards"] = ClientQueries["guards"] /\ Endpoint["guards"] = EndpointReviews["guards"]
    BY ClientParts, ClientIs, EndpointParts, EndpointIs
  <2> QED BY <2>1 DEF ClientQueries, EndpointReviews
<1>6. Tabled("status")
  <2>1. Client["status"] = ClientQueries["status"] /\ Endpoint["status"] = EndpointQueries["status"]
    BY ClientParts, ClientIs, EndpointParts, EndpointIs
  <2> QED BY <2>1 DEF ClientQueries, EndpointQueries
<1> QED BY <1>1, <1>2, <1>3, <1>4, <1>5, <1>6, ClientParts

LEMMA ScansTabled == \A op \in DOMAIN ClientScans : Tabled(op)
<1> USE DEF Tabled, Params, Required, RoutesGet, RoutesPost, Default, Flags, Lists
<1>1. Tabled("find_references")
  <2>1. Client["find_references"] = ClientScans["find_references"] /\ Endpoint["find_references"] = EndpointQueries["find_references"]
    BY ClientParts, ClientIs, EndpointParts, EndpointIs
  <2> QED BY <2>1 DEF ClientScans, EndpointQueries
<1>2. Tabled("index_project")
  <2>1. Client["index_project"] = ClientScans["index_project"] /\ Endpoint["reindex"] = EndpointQueries["reindex"]
    BY ClientParts, ClientIs, EndpointParts, EndpointIs
  <2> QED BY <2>1 DEF ClientScans, EndpointQueries
<1>3. Tabled("find_deadcode")
  <2>1. Client["find_deadcode"] = ClientScans["find_deadcode"] /\ Endpoint["deadcode"] = EndpointScans["deadcode"]
    BY ClientParts, ClientIs, EndpointParts, EndpointIs
  <2> QED BY <2>1 DEF ClientScans, EndpointScans
<1>4. Tabled("find_ai_usage")
  <2>1. Client["find_ai_usage"] = ClientScans["find_ai_usage"] /\ Endpoint["ai_usage"] = EndpointScans["ai_usage"]
    BY ClientParts, ClientIs, EndpointParts, EndpointIs
  <2> QED BY <2>1 DEF ClientScans, EndpointScans
<1>5. Tabled("find_unwired")
  <2>1. Client["find_unwired"] = ClientScans["find_unwired"] /\ Endpoint["find_unwired"] = EndpointScans["find_unwired"]
    BY ClientParts, ClientIs, EndpointParts, EndpointIs
  <2> QED BY <2>1 DEF ClientScans, EndpointScans
<1> QED BY <1>1, <1>2, <1>3, <1>4, <1>5, ClientParts

LEMMA CommentsTabled == \A op \in DOMAIN ClientComments : Tabled(op)
<1> USE DEF Tabled, Params, Required, RoutesGet, RoutesPost, Default, Flags, Lists
<1>1. Tabled("get_comment_overview")
  <2>1. Client["get_comment_overview"] = ClientComments["get_comment_overview"] /\ Endpoint["comment_overview"] = EndpointComments["comment_overview"]
    BY ClientParts, ClientIs, EndpointParts, EndpointIs
  <2> QED BY <2>1 DEF ClientComments, EndpointComments
<1>2. Tabled("find_comment_tags")
  <2>1. Client["find_comment_tags"] = ClientComments["find_comment_tags"] /\ Endpoint["comment_tags"] = EndpointComments["comment_tags"]
    BY ClientParts, ClientIs, EndpointParts, EndpointIs
  <2> QED BY <2>1 DEF ClientComments, EndpointComments
<1>3. Tabled("get_comments")
  <2>1. Client["get_comments"] = ClientComments["get_comments"] /\ Endpoint["get_comments"] = EndpointComments["get_comments"]
    BY ClientParts, ClientIs, EndpointParts, EndpointIs
  <2> QED BY <2>1 DEF ClientComments, EndpointComments
<1>4. Tabled("find_duplicates")
  <2>1. Client["find_duplicates"] = ClientComments["find_duplicates"] /\ Endpoint["find_duplicates"] = EndpointComments["find_duplicates"]
    BY ClientParts, ClientIs, EndpointParts, EndpointIs
  <2> QED BY <2>1 DEF ClientComments, EndpointComments
<1>5. Tabled("call_hierarchy")
  <2>1. Client["call_hierarchy"] = ClientComments["call_hierarchy"] /\ Endpoint["call_hierarchy"] = EndpointScans["call_hierarchy"]
    BY ClientParts, ClientIs, EndpointParts, EndpointIs
  <2> QED BY <2>1 DEF ClientComments, EndpointScans
<1>6. Tabled("impact")
  <2>1. Client["impact"] = ClientComments["impact"] /\ Endpoint["impact"] = EndpointScans["impact"]
    BY ClientParts, ClientIs, EndpointParts, EndpointIs
  <2> QED BY <2>1 DEF ClientComments, EndpointScans
<1> QED BY <1>1, <1>2, <1>3, <1>4, <1>5, <1>6, ClientParts

LEMMA OperationsTabled == \A op \in Operations : Tabled(op)
  BY ClientIs, QueriesTabled, ScansTabled, CommentsTabled

LEMMA ToolsAreOperations == DOMAIN Tools \subseteq Operations
<1>1. /\ DOMAIN ToolsReview = {"preflight", "check", "guards"}
      /\ DOMAIN ToolsScan = {"get_map", "find_references", "impact", "get_symbols",
                             "find_duplicates", "index_project", "status"}
  BY DEF ToolsReview, ToolsScan
<1>2. DOMAIN Tools = DOMAIN ToolsReview \cup DOMAIN ToolsScan
  BY DEF Tools, Beside
<1> QED BY <1>1, <1>2, ClientParts, ClientIs

LEMMA CommandsAreOperations == DOMAIN Commands \subseteq Operations
<1>1. /\ DOMAIN CommandsFirst = {"index_project", "get_symbols", "find_references", "get_map"}
      /\ DOMAIN CommandsReview = {"preflight", "guards"}
      /\ DOMAIN CommandsAfter = {"check"} /\ DOMAIN CommandsStatus = {"status"}
      /\ DOMAIN CommandsScan = {"find_deadcode", "find_ai_usage", "find_unwired"}
      /\ DOMAIN CommandsComments = {"get_comment_overview", "find_comment_tags",
                                    "get_comments", "find_duplicates"}
      /\ DOMAIN CommandsCalls = {"call_hierarchy", "impact"}
  BY DEF CommandsFirst, CommandsReview, CommandsAfter, CommandsStatus, CommandsScan,
         CommandsComments, CommandsCalls
<1>2. DOMAIN Commands = DOMAIN CommandsFirst \cup DOMAIN CommandsReview \cup DOMAIN CommandsAfter
                        \cup DOMAIN CommandsStatus \cup DOMAIN CommandsScan
                        \cup DOMAIN CommandsComments \cup DOMAIN CommandsCalls
  BY DEF Commands, Beside
<1> QED BY <1>1, <1>2, ClientParts, ClientIs

-----------------------------------------------------------------------------
(* What the conversions do to one parameter.                               *)

\* Names without commas survive being joined and split.
LEMMA JoinedNames ==
  ASSUME NEW S, NEW names \in Seq(Seq(S) \ {<<>>}), \A i \in DOMAIN names : Len(names[i]) <= 1
  PROVE  /\ [i \in DOMAIN FlattenSeq(names) |-> <<FlattenSeq(names)[i]>>] = names
<1> DEFINE n == Len(names)
           Flat(f) == [i \in 1..n |-> IF i = 1 THEN names[i] ELSE f[i-1] \o names[i]]
           f == CHOOSE g : g = Flat(g)
           Firsts(i) == [j \in 1..i |-> names[j][1]]
<1>1. n \in Nat /\ DOMAIN names = 1..n /\ \A i \in 1..n : names[i] \in Seq(S) \ {<<>>}
  OBVIOUS
<1> HIDE DEF n, f, Flat, Firsts
<1>2. ASSUME NEW i \in 1..n
      PROVE  /\ names[i] \in Seq(S) /\ Len(names[i]) = 1
             /\ names[i][1] \in S /\ names[i] = <<names[i][1]>>
  <2>1. names[i] \in Seq(S) /\ names[i] # <<>> /\ Len(names[i]) <= 1
    BY <1>1
  <2>2. Len(names[i]) = 1 /\ names[i][1] \in S
    <3>1. Len(names[i]) \in Nat \ {0}
      BY <2>1, EmptySeq
    <3>2. Len(names[i]) = 1
      <4>1. \A k \in Nat \ {0} : k <= 1 => k = 1
        OBVIOUS
      <4> QED BY <2>1, <3>1, <4>1
    <3> QED BY <2>1, <3>2, ElementOfSeq
  <2> DEFINE one == <<names[i][1]>>
  <2>3. one \in Seq(S) /\ Len(one) = 1 /\ one[1] = names[i][1]
    BY <2>2
  <2> HIDE DEF one
  <2>4. names[i] = one
    BY <2>1, <2>2, <2>3, SeqEqual
  <2> QED BY <2>1, <2>2, <2>4 DEF one
<1>3. ASSUME NEW i \in 1..n, i # 1
      PROVE  Firsts(i-1) \o names[i] = Firsts(i)
  <2>1. /\ Firsts(i-1) \in Seq(S) /\ Len(Firsts(i-1)) = i-1
        /\ Firsts(i) \in Seq(S) /\ Len(Firsts(i)) = i
    <3>1. \A j \in 1..i : names[j][1] \in S
      BY <1>1, <1>2
    <3>2. Firsts(i-1) \in [1..(i-1) -> S] /\ Firsts(i) \in [1..i -> S]
      BY <3>1, <1>1, <1>3 DEF Firsts
    <3>3. i - 1 \in Nat /\ i \in Nat
      BY <1>1
    <3> QED BY <3>2, <3>3
  <2>2. names[i] \in Seq(S) /\ Len(names[i]) = 1
    BY <1>2
  <2> DEFINE both == Firsts(i-1) \o names[i]
  <2>3. /\ both \in Seq(S) /\ Len(both) = i
        /\ \A j \in 1..i : both[j] = IF j <= i-1 THEN Firsts(i-1)[j] ELSE names[i][j-(i-1)]
    BY <2>1, <2>2, <1>1, ConcatProperties
  <2> HIDE DEF both
  <2>4. ASSUME NEW j \in 1..i PROVE both[j] = Firsts(i)[j]
    <3>1. CASE j <= i-1
      BY <3>1, <2>3, <1>1 DEF Firsts
    <3>2. CASE j = i
      BY <3>2, <2>3, <1>1 DEF Firsts
    <3> QED BY <3>1, <3>2, <1>1
  <2>5. both = Firsts(i)
    BY <2>1, <2>3, <2>4, SeqEqual
  <2> QED BY <2>5 DEF both
<1>8. n # 0 => names[1] = Firsts(1)
  BY <1>1, <1>2 DEF Firsts
<1>4. \E g : g = Flat(g)
  <2> DEFINE g == [i \in 1..n |-> Firsts(i)]
  <2>1. ASSUME NEW i \in 1..n PROVE g[i] = IF i = 1 THEN names[i] ELSE g[i-1] \o names[i]
    <3>1. CASE i = 1
      BY <1>1, <1>8, <3>1
    <3>2. CASE i # 1
      <4>1. g[i] = Firsts(i) /\ g[i-1] = Firsts(i-1)
        BY <3>2, <1>1
      <4> HIDE DEF g
      <4> QED BY <3>2, <4>1, <1>3
    <3> QED BY <3>1, <3>2
  <2>2. g = Flat(g)
    BY <2>1 DEF Flat
  <2> QED BY <2>2
<1>5. f = Flat(f)
  BY <1>4 DEF f
<1>6. CASE n = 0
  <2>1. FlattenSeq(names) = names /\ names = <<>>
    BY <1>1, <1>6 DEF FlattenSeq, n
  <2> QED BY <2>1
<1>7. CASE n # 0
  <2>1. FlattenSeq(names) = f[n]
    BY <1>7, Zenon DEF FlattenSeq, f, Flat, n
  <2> DEFINE T == {i \in 0..n : i = 0 \/ f[i] = Firsts(i)}
  <2>2. ASSUME NEW i \in 1..n, i - 1 \in T PROVE i \in T
    <3>1. CASE i = 1
      <4>1. f[1] = names[1]
        BY <1>5, <3>1 DEF Flat
      <4> QED BY <1>7, <1>8, <3>1, <4>1
    <3>2. CASE i # 1
      <4>1. f[i] = f[i-1] \o names[i]
        BY <1>5, <3>2 DEF Flat
      <4>2. f[i-1] = Firsts(i-1)
        BY <1>1, <2>2, <3>2
      <4>3. f[i] = Firsts(i)
        BY <4>1, <4>2, <1>3, <3>2
      <4> QED BY <4>3
    <3> QED BY <3>1, <3>2
  <2>3. 0..n \subseteq T
    <3>1. 0 \in T
      BY <1>1
    <3> HIDE DEF T
    <3> QED BY <1>1, <2>2, <3>1, UpTo
  <2>4. f[n] = Firsts(n)
    <3>1. n \in T
      BY <1>1, <2>3
    <3> QED BY <3>1, <1>7
  <2>5. names = [i \in 1..n |-> <<names[i][1]>>]
    BY <1>1, <1>2
  <2>6. DOMAIN Firsts(n) = 1..n /\ \A i \in 1..n : Firsts(n)[i] = names[i][1]
    BY <1>1 DEF Firsts
  <2> QED BY <2>1, <2>4, <2>5, <2>6
<1> QED BY <1>6, <1>7

\* Arguments that can be passed on: no text is empty but the one that says how
\* to resolve, and nothing that is required is missing.
Tidy(op, args) ==
  /\ DOMAIN args = Params(op) /\ ~Refused(op, args)
  /\ \A p \in Params(op) :
       /\ p \in Flags => args[p] \in {"true", "false"}
       /\ p \in Lists => args[p] \in Seq(Seq(STRING \ {""}) \ {<<>>})
       /\ p = "direction" => args[p] \in {"both", "up", "down"}
       /\ p \notin Lists \cup {"resolve"} => args[p] # ""

LEMMA Kinds ==
  /\ \A p \in Flags : p \notin Lists \cup Numbers \cup {"resolve", "direction", "limit"}
  /\ \A p \in Lists : p \notin Numbers \cup {"resolve", "direction", "limit", "check_freshness"}
  /\ \A p \in Numbers : p \notin {"resolve", "direction", "check_freshness"}
  /\ "check_freshness" \in Flags /\ "limit" \in Numbers
BY DEF Flags, Lists, Numbers

LEMMA RequiredIs == \A op : Required(op) \subseteq {"target", "symbol"}
BY DEF Required

LEMMA DefaultIs ==
  ASSUME NEW op, NEW p
  PROVE  /\ p \in Flags => Default(op, p) \in {"true", "false"}
         /\ p \in Lists => Default(op, p) = <<>>
         /\ p = "resolve" => Default(op, p) = "auto"
         /\ p = "direction" => Default(op, p) = "both"
BY Kinds DEF Default, Flags, Lists

LEMMA NormalizedUnset == Normalized("none") = "auto" /\ Normalized("") = "auto" /\ Normalized("auto") = "auto"
BY DEF Normalized, Truthy

LEMMA Typed ==
  ASSUME NEW op, NEW args, WellFormed(op, args), NEW p \in Params(op)
  PROVE  /\ p \in Flags => args[p] \in {"true", "false"}
         /\ p \in Lists => args[p] \in Seq(Seq(STRING \ {""}) \ {<<>>})
         /\ p = "direction" => args[p] \in {"both", "up", "down"}
BY Kinds DEF WellFormed

LEMMA LenOfName ==
  ASSUME NEW S, NEW names \in Seq(Seq(S) \ {<<>>}), NEW i \in DOMAIN names
  PROVE  Len(names[i]) \in Nat
<1>1. names[i] \in Seq(S)
  OBVIOUS
<1> QED BY <1>1, LenProperties

LEMMA CoercedIsTidy ==
  ASSUME NEW op, Required(op) \subseteq Params(op), NEW args, WellFormed(op, args), ~Refused(op, args)
  PROVE  Tidy(op, Coerced(op, args))
<1> DEFINE c == Coerced(op, args)
<1>1. DOMAIN c = Params(op)
  BY DEF Coerced
<1>2. ASSUME NEW p \in Params(op)
      PROVE  /\ p \in Flags => c[p] \in {"true", "false"}
             /\ p \in Lists => c[p] = args[p]
             /\ p = "direction" => c[p] \in {"both", "up", "down"}
             /\ p \notin Lists \cup {"resolve"} => c[p] # ""
             /\ p \in {"target", "symbol"} /\ args[p] \notin {"", "none"} => c[p] = args[p]
  <2>1. c[p] = CASE p = "check_freshness" -> "true"
                 [] p = "limit" /\ args[p] = "0" -> "none"
                 [] p \notin Lists \cup {"resolve", "check_freshness"} /\ args[p] = "" -> "none"
                 [] OTHER -> args[p]
    BY DEF Coerced
  <2> HIDE DEF c
  <2>2. CASE p = "check_freshness"
    BY <2>1, <2>2, Kinds
  <2>3. CASE p = "limit" /\ args[p] = "0"
    BY <2>1, <2>3, Kinds
  <2>4. CASE p # "check_freshness" /\ ~(p = "limit" /\ args[p] = "0")
             /\ p \notin Lists \cup {"resolve"} /\ args[p] = ""
    <3>1. c[p] = "none"
      BY <2>1, <2>4
    <3>2. p \notin Flags /\ p # "direction"
      BY <2>4, Typed
    <3>3. p \notin {"target", "symbol"} \/ args[p] \in {"", "none"}
      BY <2>4
    <3> QED BY <3>1, <3>2, <3>3, <2>4
  <2>5. CASE p # "check_freshness" /\ ~(p = "limit" /\ args[p] = "0")
             /\ ~(p \notin Lists \cup {"resolve"} /\ args[p] = "")
    <3>1. c[p] = args[p]
      BY <2>1, <2>5
    <3> QED BY <3>1, <2>5, Typed
  <2> QED BY <2>2, <2>3, <2>4, <2>5
<1> HIDE DEF c
<1>4. ~Refused(op, c)
  <2>1. ASSUME NEW p \in Required(op) PROVE c[p] \notin {"", "none"}
    <3>1. p \in Params(op) /\ p \in {"target", "symbol"} /\ args[p] \notin {"", "none"}
      BY RequiredIs DEF Refused
    <3> QED BY <1>2, <3>1
  <2> QED BY <2>1 DEF Refused
<1>5. \A p \in Params(op) : p \in Lists => args[p] \in Seq(Seq(STRING \ {""}) \ {<<>>})
  BY Typed
<1> QED BY <1>1, <1>2, <1>4, <1>5 DEF Tidy, c

LEMMA DirectAsksTheSame ==
  ASSUME NEW op, NEW args, Tidy(op, args)
  PROVE  Direct(op, args) = Meant(op, args)
<1>1. ASSUME NEW p \in Params(op)
      PROVE  Direct(op, args)[p] = Meant(op, args)[p]
  <2>1. CASE p = "resolve"
    BY <2>1 DEF Direct, Meant
  <2>2. CASE p \in Lists
    BY <2>2, Kinds DEF Direct, Meant
  <2>3. CASE p \notin Lists \cup {"resolve"}
    <3>1. args[p] # ""
      BY <2>3 DEF Tidy
    <3> QED BY <2>3, <3>1 DEF Direct, Meant
  <2> QED BY <2>1, <2>2, <2>3
<1> QED BY <1>1 DEF Direct, Meant

LEMMA DaemonAsksTheSame ==
  ASSUME NEW op, Tabled(op), NEW args, Tidy(op, args), ~Splits(args)
  PROVE  ByDaemon(op, args) = Meant(op, args)
<1> DEFINE post == Client[op][1] = "POST"
           names == Client[op][3]
           reads == Endpoint[Client[op][2]]
           value(p) == IF reads[p] \notin DOMAIN names THEN Default(op, p)
                       ELSE LET q == names[reads[p]]
                            IN IF post THEN args[q] ELSE Read(op, p, Sent(q, args[q]))
           asked(p) == IF p = "resolve" THEN Normalized(value(p)) ELSE value(p)
<1>1. ASSUME NEW p \in Params(op)
      PROVE  value(p) = IF post THEN args[p] ELSE Read(op, p, Sent(p, args[p]))
  BY DEF Tabled
<1>2. Client[op][2] \in IF post THEN RoutesPost ELSE RoutesGet
  BY DEF Tabled
<1>3. ASSUME NEW p \in Params(op), ~post, p \in Flags
      PROVE  value(p) = args[p]
  <2>1. args[p] \in {"true", "false"} /\ p \notin Lists /\ ~IsText(p)
    BY <1>3, Kinds DEF Tidy, IsText
  <2>2. Sent(p, args[p]) = IF args[p] = "true" THEN "1" ELSE "none"
    BY <1>3, <2>1 DEF Sent
  <2>3. \A v : Read(op, p, v) = IF v \in Truthy THEN "true" ELSE "false"
    BY <1>3, <2>1 DEF Read
  <2>4. value(p) = Read(op, p, Sent(p, args[p]))
    BY <1>1, <1>3
  <2>5. "1" \in Truthy /\ "none" \notin Truthy
    BY DEF Truthy
  <2> HIDE DEF value
  <2> QED BY <2>1, <2>2, <2>3, <2>4, <2>5
<1>4. ASSUME NEW p \in Params(op), ~post, p \in Lists
      PROVE  value(p) = args[p]
  <2>1. args[p] \in Seq(Seq(STRING \ {""}) \ {<<>>})
    BY <1>4 DEF Tidy
  <2>2. \A i \in DOMAIN args[p] : Len(args[p][i]) <= 1
    <3>1. p \in DOMAIN args
      BY DEF Tidy
    <3>2. ASSUME NEW i \in DOMAIN args[p] PROVE Len(args[p][i]) <= 1
      <4>1. ~(Len(args[p][i]) > 1)
        BY <1>4, <3>1 DEF Splits
      <4>2. Len(args[p][i]) \in Nat
        BY <2>1, LenOfName
      <4> QED BY <4>1, <4>2
    <3> QED BY <3>2
  <2>3. Sent(p, args[p]) = FlattenSeq(args[p])
    BY <1>4, Kinds DEF Sent, IsText
  <2>4. value(p) = [i \in DOMAIN FlattenSeq(args[p]) |-> <<FlattenSeq(args[p])[i]>>]
    BY <1>1, <1>4, <2>3, Kinds DEF Read, IsText
  <2> QED BY <2>1, <2>2, <2>4, JoinedNames
<1>5. ASSUME NEW p \in Params(op), ~post, p \notin Flags \cup Lists
      PROVE  value(p) = IF args[p] \in {"", "none"} THEN Default(op, p) ELSE args[p]
  BY <1>1, <1>5 DEF Read, Sent, IsText
<1>6. ASSUME NEW p \in Params(op), post
      PROVE  asked(p) = Meant(op, args)[p]
  <2>1. value(p) = args[p]
    BY <1>1, <1>6
  <2>2. CASE p \in Flags
    BY <2>1, <2>2, Kinds DEF Tidy, Meant
  <2>3. CASE p = "direction"
    BY <2>1, <2>3, Kinds DEF Tidy, Meant
  <2>4. CASE p \notin Flags \cup {"direction"}
    <3>1. p \notin Lists \cup {"resolve"} /\ Default(op, p) = "none"
      BY <1>6, <2>4 DEF Tabled
    <3>2. args[p] # ""
      BY <3>1 DEF Tidy
    <3> QED BY <2>1, <3>1, <3>2 DEF Meant
  <2> QED BY <2>2, <2>3, <2>4
<1>7. ASSUME NEW p \in Params(op), ~post
      PROVE  asked(p) = Meant(op, args)[p]
  <2> HIDE DEF value
  <2>1. CASE p \in Flags
    BY <1>3, <1>7, <2>1, Kinds DEF Tidy, Meant
  <2>2. CASE p \in Lists
    BY <1>4, <1>7, <2>2, Kinds DEF Meant
  <2>3. CASE p = "resolve"
    BY <1>5, <1>7, <2>3, Kinds, DefaultIs, NormalizedUnset DEF Meant
  <2>4. CASE p \notin Flags \cup Lists \cup {"resolve"}
    BY <1>5, <1>7, <2>4 DEF Meant
  <2> QED BY <2>1, <2>2, <2>3, <2>4
<1>8. ASSUME NEW p \in Required(op) PROVE value(p) \notin {"", "none"}
  <2>1. p \in Params(op) /\ args[p] \notin {"", "none"}
    BY DEF Tabled, Tidy, Refused
  <2>2. p \notin Flags \cup Lists
    BY RequiredIs DEF Flags, Lists
  <2> HIDE DEF value
  <2> QED BY <1>1, <1>5, <2>1, <2>2
<1>9. ByDaemon(op, args) = [p \in Params(op) |-> asked(p)]
  <2>1. ByDaemon(op, args) =
          IF \/ Client[op][2] \notin (IF post THEN RoutesPost ELSE RoutesGet)
             \/ \E p \in Required(op) : value(p) \in {"", "none"}
          THEN <<>> ELSE [p \in Params(op) |-> asked(p)]
    BY DEF ByDaemon
  <2> HIDE DEF value, asked
  <2> QED BY <1>2, <1>8, <2>1
<1>10. \A p \in Params(op) : asked(p) = Meant(op, args)[p]
  BY <1>6, <1>7
<1> HIDE DEF asked
<1> QED BY <1>9, <1>10 DEF Meant

LEMMA CommandAsksTheSame ==
  ASSUME NEW op, NEW args, WellFormed(op, args), Plain(args), args \in Settable(op, Commands[op])
  PROVE  ByCommand(op, args) = Meant(op, args)
<1> DEFINE set(p) == p \in Commands[op]
           given(p) == IF set(p) THEN Parsed(op, p, args[p]) ELSE Default(op, p)
<1>1. ASSUME NEW p \in Params(op), p \in Lists
      PROVE  given(p) = args[p]
  <2>1. CASE set(p)
    <3>1. args[p] \in Seq(Seq(STRING \ {""}) \ {<<>>})
      BY <1>1, Typed
    <3>2. \A i \in DOMAIN args[p] : Len(args[p][i]) <= 1
      <4>1. p \in DOMAIN args
        BY DEF WellFormed
      <4>2. ASSUME NEW i \in DOMAIN args[p] PROVE Len(args[p][i]) <= 1
        <5>1. ~(Len(args[p][i]) > 1)
          BY <1>1, <4>1 DEF Plain, Splits
        <5>2. Len(args[p][i]) \in Nat
          BY <3>1, LenOfName
        <5> QED BY <5>1, <5>2
      <4> QED BY <4>2
    <3>3. given(p) = [i \in DOMAIN FlattenSeq(args[p]) |-> <<FlattenSeq(args[p])[i]>>]
      BY <1>1, <2>1 DEF Parsed
    <3> QED BY <3>1, <3>2, <3>3, JoinedNames
  <2>2. CASE ~set(p)
    BY <1>1, <2>2, Kinds DEF Settable, Unset
  <2> QED BY <2>1, <2>2
<1>2. ASSUME NEW p \in Params(op), p \notin Lists
      PROVE  given(p) = IF args[p] = "none" THEN Default(op, p) ELSE args[p]
  <2>1. CASE set(p)
    BY <1>2, <2>1 DEF Parsed
  <2>2. CASE ~set(p)
    BY <1>2, <2>2, DefaultIs DEF Settable, Unset
  <2> QED BY <2>1, <2>2
<1>3. ASSUME NEW p \in Params(op), p \notin Lists
      PROVE  args[p] # ""
  BY <1>3 DEF Plain, WellFormed
<1>4. ByCommand(op, args)
        = [p \in Params(op) |-> IF p = "resolve" THEN Normalized(given(p)) ELSE given(p)]
  BY DEF ByCommand
<1> HIDE DEF given
<1>5. ASSUME NEW p \in Params(op)
      PROVE  (IF p = "resolve" THEN Normalized(given(p)) ELSE given(p)) = Meant(op, args)[p]
  <2>1. CASE p \in Lists
    BY <1>1, <2>1, Kinds DEF Meant
  <2>2. CASE p = "resolve"
    BY <1>2, <2>2, Kinds, DefaultIs, NormalizedUnset DEF Meant
  <2>3. CASE p \notin Lists \cup {"resolve"}
    BY <1>2, <1>3, <2>3 DEF Meant
  <2> QED BY <2>1, <2>2, <2>3
<1> QED BY <1>4, <1>5 DEF Meant

-----------------------------------------------------------------------------
(* The calls.                                                              *)

\* A call in hand has arguments that can be passed on, and once it has been
\* answered it was asked what its arguments mean.
AskedRightly(t) ==
  \/ t.error
  \/ t.by = "daemon" /\ Splits(t.args)
  \/ t.asked = Meant(t.op, t.args)
InHand ==
  tool # NoTool =>
    /\ tool.op \in Operations /\ Tidy(tool.op, tool.args)
    /\ tool.at = "reply" => tool.by \in {"daemon", "process"} /\ AskedRightly(tool)
AskInv == ToolsInv /\ InHand /\ SameQuestion

LEMMA AskStart == ToolsInit => AskInv
<1>1. ToolsInit => tool = NoTool /\ reply = NoReply
  BY DEF ToolsInit
<1>2. NoReply.by = "none"
  BY DEF NoReply
<1>3. ToolsInit => InHand /\ SameQuestion
  BY <1>1, <1>2 DEF InHand, SameQuestion
<1> QED BY <1>3, ToolsStart DEF AskInv

LEMMA AskedIsMeant ==
  ASSUME InHand, tool # NoTool
  PROVE  (Place = "daemon" /\ Splits(tool.args)) \/ Asked = Meant(tool.op, tool.args)
<1>1. Tabled(tool.op) /\ Tidy(tool.op, tool.args)
  BY OperationsTabled DEF InHand
<1>2. CASE ByClient
  BY <1>1, <1>2, DaemonAsksTheSame DEF Asked, Place
<1>3. CASE ~ByClient
  BY <1>1, <1>3, DirectAsksTheSame DEF Asked
<1> QED BY <1>2, <1>3

LEMMA AskStep == AskInv /\ [ToolsNext]_toolVars => AskInv'
<1> SUFFICES ASSUME AskInv, [ToolsNext]_toolVars PROVE InHand' /\ SameQuestion'
  BY ToolsStep DEF AskInv
<1>0. tool = NoTool \/ tool \in ToolRecord
  BY DEF AskInv, ToolsInv
<1>1. CASE UNCHANGED <<tool, reply>>
  BY <1>1 DEF AskInv, InHand, AskedRightly, SameQuestion
<1>2. CASE Initialize \/ Connect \/ Lose \/ Elsewhere \/ UNCHANGED toolVars
  BY <1>1, <1>2 DEF Initialize, Connect, Lose, Elsewhere, toolVars
<1>3. CASE Answer
  <2>1. tool # NoTool /\ UNCHANGED reply
    BY <1>3 DEF Answer, Can, Attempting, NoTool
  <2>2. /\ tool'.op = tool.op /\ tool'.args = tool.args /\ tool'.by = Place
        /\ tool'.asked = Asked
    BY <1>0, <1>3, <2>1 DEF Answer, ToolRecord
  <2>3. Place \in {"daemon", "process"}
    BY DEF Place
  <2>4. InHand'
    BY <2>1, <2>2, <2>3, AskedIsMeant DEF AskInv, InHand, AskedRightly
  <2> QED BY <2>1, <2>4 DEF AskInv, SameQuestion
<1>4. CASE Fail
  <2>1. tool # NoTool /\ UNCHANGED reply
    BY <1>4 DEF Fail, Can, Attempting, NoTool
  <2>2. /\ tool'.op = tool.op /\ tool'.args = tool.args /\ tool'.by = Place /\ tool'.error
    BY <1>0, <1>4, <2>1 DEF Fail, ToolRecord
  <2>3. Place \in {"daemon", "process"}
    BY DEF Place
  <2>4. InHand'
    BY <2>1, <2>2, <2>3 DEF AskInv, InHand, AskedRightly
  <2> QED BY <2>1, <2>4 DEF AskInv, SameQuestion
<1>5. CASE Unindexed
  <2>1. tool # NoTool /\ UNCHANGED reply
    BY <1>5 DEF Unindexed, Can, Attempting, NoTool
  <2>2. /\ tool'.op = tool.op /\ tool'.args = tool.args
        /\ tool'.at = "build" \/ (tool'.by = Place /\ tool'.error)
    BY <1>0, <1>5, <2>1 DEF Unindexed, ToolRecord
  <2>3. Place \in {"daemon", "process"}
    BY DEF Place
  <2>4. InHand'
    BY <2>1, <2>2, <2>3 DEF AskInv, InHand, AskedRightly
  <2> QED BY <2>1, <2>4 DEF AskInv, SameQuestion
<1>6. CASE Build
  <2>1. tool # NoTool /\ UNCHANGED reply
    BY <1>6 DEF Build, Can, Attempting, NoTool
  <2>2. tool'.op = tool.op /\ tool'.args = tool.args /\ tool'.at = "again"
    BY <1>0, <1>6, <2>1 DEF Build, ToolRecord
  <2>3. InHand'
    BY <2>1, <2>2 DEF AskInv, InHand
  <2> QED BY <2>1, <2>3 DEF AskInv, SameQuestion
<1>7. CASE Reply
  <2>1. tool # NoTool /\ tool' = NoTool
    BY <1>7 DEF Reply, NoTool
  <2>2. /\ reply'.by = tool.by /\ reply'.op = tool.op /\ reply'.args = tool.args
        /\ reply'.asked = tool.asked /\ reply'.error = tool.error
    BY <1>7 DEF Reply
  <2>3. tool.by \in {"daemon", "process"} /\ AskedRightly(tool)
    BY <1>7, <2>1 DEF Reply, AskInv, InHand
  <2> QED BY <2>1, <2>2, <2>3 DEF InHand, SameQuestion, AskedRightly
<1>8. CASE Deliver
  BY <1>8 DEF Deliver, AskInv, InHand, AskedRightly, SameQuestion, NoReply
<1>9. ASSUME NEW op \in DOMAIN Tools, NEW args \in ToolArguments[op],
             CallTool(op, args) \/ RefuseCall(op, args)
      PROVE  InHand' /\ SameQuestion'
  <2>1. op \in Operations /\ WellFormed(op, args) /\ Required(op) \subseteq Params(op)
    BY ToolsAreOperations, ToolsAssumption, OperationsTabled DEF ToolArguments, Settable, Tabled
  <2>2. CASE RefuseCall(op, args)
    BY <2>2 DEF RefuseCall, AskInv, InHand, AskedRightly, SameQuestion
  <2>3. CASE CallTool(op, args)
    <3>1. Tidy(op, Coerced(op, args))
      BY <2>1, <2>3, CoercedIsTidy DEF CallTool
    <3>2. /\ tool'.op = op /\ tool'.args = Coerced(op, args) /\ tool'.at = "ask"
          /\ UNCHANGED reply
      BY <2>3 DEF CallTool, Fresh
    <3>3. InHand'
      BY <2>1, <3>1, <3>2 DEF InHand
    <3> QED BY <3>2, <3>3 DEF AskInv, SameQuestion
  <2> QED BY <1>9, <2>2, <2>3
<1>10. ASSUME NEW op \in DOMAIN Commands, NEW args \in CommandArguments[op], Command(op, args)
       PROVE  InHand' /\ SameQuestion'
  <2>1. op \in Operations /\ args \in Settable(op, Commands[op]) /\ WellFormed(op, args)
    BY CommandsAreOperations, ToolsAssumption DEF CommandArguments, Settable
  <2>2. ByCommand(op, args) = Meant(op, args)
    BY <1>10, <2>1, CommandAsksTheSame DEF Command
  <2>3. /\ UNCHANGED tool /\ reply'.by = "command" /\ reply'.op = op /\ reply'.args = args
        /\ reply'.asked = ByCommand(op, args)
    BY <1>10 DEF Command
  <2> QED BY <2>2, <2>3 DEF AskInv, InHand, AskedRightly, SameQuestion
<1>11. ASSUME NEW op \in Operations, NEW args \in MethodArguments[op], Method(op, args)
       PROVE  InHand' /\ SameQuestion'
  <2>1. Tabled(op) /\ WellFormed(op, args)
    BY ToolsAssumption, OperationsTabled DEF MethodArguments, Settable
  <2>2. Tidy(op, args) /\ ~Splits(args)
    BY <1>11, <2>1, Typed DEF Method, Plain, Tidy, WellFormed
  <2>3. ByDaemon(op, args) = Meant(op, args)
    BY <2>1, <2>2, DaemonAsksTheSame
  <2>4. /\ UNCHANGED tool /\ reply'.by = "method" /\ reply'.op = op /\ reply'.args = args
        /\ reply'.asked = ByDaemon(op, args)
    BY <1>11 DEF Method
  <2> QED BY <2>3, <2>4 DEF AskInv, InHand, AskedRightly, SameQuestion
<1>12. CASE ServerStep
  BY <1>2, <1>3, <1>4, <1>5, <1>6, <1>7, <1>8, <1>12 DEF ServerStep
<1> QED BY <1>2, <1>9, <1>10, <1>11, <1>12 DEF ToolsNext

\* From a command, a client's method or a tool, through the daemon or in this
\* process, after a fall-back or a first index: the engine is asked what the
\* caller means, for arguments of any kind and all parameters at once.
THEOREM SameQuestionCorrect == ToolsSpec => []SameQuestion
<1>1. AskInv => SameQuestion
  BY DEF AskInv
<1> QED BY <1>1, AskStart, AskStep, PTL DEF ToolsSpec
==============================================================================
