--------------------------- MODULE AnthropicProofs ---------------------------
(***************************************************************************)
(* The Claude usage fetch, for every number of processes, every TTL,       *)
(* MAX_STALE and backoff.  First the types; then the safety properties,    *)
(* each proved from the type invariant and from the ones before it: the    *)
(* lock is exclusive, so only its holder writes the directory and the      *)
(* credential, so what a fetch has looked up stays true while it asks; and *)
(* last that the fetch rotates the shared login as the provider asks,      *)
(* AnthropicFetch implements TokenRotation.                                *)
(*                                                                         *)
(* Then the history a Claude Desktop switch carries along, for every       *)
(* number of accounts, routines, chats, edits and failures: what the       *)
(* ledger, the copies and the plan together say of a deletion, and of an   *)
(* edit, at every step of a switch.                                        *)
(***************************************************************************)
EXTENDS AnthropicFetch, DesktopHistory, FiniteSetTheorems, WellFoundedInduction, TLAPS

-----------------------------------------------------------------------------
(* What the operations on a cache directory preserve and return. *)

(***************************************************************************)
(* A sidecar operation leaves a directory a directory (cache.rs).          *)
(***************************************************************************)
LEMMA FileOpType ==
  ASSUME NEW dir \in Dirs, NEW file \in FileOps, NEW status \in Codes \cup {NoError}
  PROVE  FileOp(dir, file, status) \in Dirs
<1>1. CASE file = "rmPayload"
  <2>1. [dir EXCEPT !.payload = NoPayload] \in Dirs
    BY DEF Dirs, Payloads
  <2>2. \A d \in Dirs : [d EXCEPT !.age = 0] \in Dirs
    BY ClockAssumption DEF Dirs
  <2>3. FileOp(dir, file, status) = [dir EXCEPT !.payload = NoPayload, !.age = 0]
    BY <1>1 DEF FileOp
  <2> QED BY <2>1, <2>2, <2>3
<1>2. CASE file # "rmPayload"
  <2> SUFFICES ASSUME NEW d, d = FileOp(dir, file, status) PROVE d \in Dirs
    OBVIOUS
  <2> USE ClockAssumption DEF Dirs, NoPayload, NoError, Payloads, FileOp
  <2>1. CASE file = "rmStale" BY <2>1
  <2>2. CASE file = "rmErr" BY <2>2
  <2>3. CASE file = "rmRetry" BY <2>3
  <2>4. CASE file = "setStale" BY <2>4
  <2>5. CASE file = "setErr" BY <2>5
  <2>6. CASE file = "arm" BY <2>6
  <2> QED BY <1>2, <2>1, <2>2, <2>3, <2>4, <2>5, <2>6 DEF FileOps
<1> QED BY <1>1, <1>2

(***************************************************************************)
(* Persisting a payload that parses leaves a directory a directory.        *)
(***************************************************************************)
LEMMA PersistType ==
  ASSUME NEW dir \in Dirs, NEW login \in Logins
  PROVE  Persist(dir, login) \in Dirs
<1>1. [dir EXCEPT !.payload = login] \in Dirs
  BY DEF Dirs, Payloads
<1>2. \A d \in Dirs : [d EXCEPT !.age = 0] \in Dirs
  BY ClockAssumption DEF Dirs
<1> QED BY <1>1, <1>2 DEF Persist

(***************************************************************************)
(* Time leaves a directory a directory: ages stop at MaxStale + 1.         *)
(***************************************************************************)
LEMMA AgedType ==
  ASSUME NEW dir \in Dirs
  PROVE  Aged(dir) \in Dirs
<1> DEFINE age == IF dir.payload # NoPayload /\ dir.age <= MaxStale THEN dir.age + 1
                  ELSE dir.age
           retry == IF dir.retry > 0 THEN dir.retry - 1 ELSE 0
<1>1. age \in 0 .. MaxStale + 1 /\ retry \in 0 .. Backoff
  BY ClockAssumption DEF Dirs
<1> SUFFICES ASSUME NEW d, d = [dir EXCEPT !.age = age, !.retry = retry]
             PROVE  d \in Dirs
  BY DEF Aged
<1> HIDE DEF age, retry
<1> QED BY <1>1 DEF Dirs

(***************************************************************************)
(* The hook before the network returns a payload or the 429, and sends a   *)
(* fetch to the network only when nothing readable is fresh and, unless    *)
(* the payload does not parse, no backoff is armed.                        *)
(***************************************************************************)
LEMMA FreshPayloadDecides ==
  ASSUME NEW dir \in Dirs, NEW limit \in Nat
  PROVE  LET found == FreshPayload(dir, limit)
         IN  /\ found \in Payloads \cup {Limited}
             /\ found \notin Logins \cup {Limited} =>
                  /\ ~BackedOff(dir) \/ dir.payload = Corrupt
                  /\ ~(dir.payload \in Logins /\ dir.age < limit)
BY ClockAssumption, LoginAssumption
   DEF Dirs, FreshPayload, Payloads, BackedOff, Servable, NoPayload, Corrupt, Limited

(***************************************************************************)
(* A payload taken from the hook is inside MAX_STALE; a wire-only caller   *)
(* is given none.                                                          *)
(***************************************************************************)
LEMMA FreshPayloadAge ==
  ASSUME NEW dir \in Dirs, NEW limit \in {0, Ttl}, FreshPayload(dir, limit) \in Logins
  PROVE  dir.age <= MaxStale /\ limit = Ttl
BY ClockAssumption, LoginAssumption
   DEF Dirs, FreshPayload, Payloads, BackedOff, Servable, NoPayload, Corrupt, Limited

(***************************************************************************)
(* The outcomes that read nothing back from the directory.                 *)
(***************************************************************************)
LEMMA PlainOutcomes ==
  /\ NoOutcome \in Outcomes /\ NoOutcome.kind = "none"
  /\ Failed \in Outcomes /\ Failed.kind = "error"
  /\ \A login \in Logins : Fresh(login) \in Outcomes /\ Fresh(login).kind = "fresh"
<1>1. NoOutcome \in Outcomes /\ NoOutcome.kind = "none"
  BY ClockAssumption DEF NoOutcome, Outcomes, Payloads, NoError, NoPayload
<1>2. Failed \in Outcomes /\ Failed.kind = "error"
  BY <1>1 DEF Failed, Outcomes
<1>3. \A login \in Logins : Fresh(login) \in Outcomes /\ Fresh(login).kind = "fresh"
  BY ClockAssumption DEF Fresh, Outcomes, Payloads, NoError, NoPayload
<1> QED BY <1>1, <1>2, <1>3

(***************************************************************************)
(* What a failed fetch returns: the error, or a payload inside MAX_STALE   *)
(* that is flagged stale.                                                  *)
(***************************************************************************)
LEMMA FallbackType ==
  ASSUME NEW dir \in Dirs, NEW lastError \in Codes \cup {NoError}
  PROVE  LET outcome == Fallback(dir, lastError)
         IN  /\ outcome \in Outcomes
             /\ outcome.kind = "cached" => outcome.stale /\ outcome.read <= MaxStale
<1> USE ClockAssumption, LoginAssumption
        DEF Dirs, Outcomes, Payloads, NoPayload, NoError, Codes
<1>1. CASE FallbackPayload(dir) \in Logins
  <2>1. dir.payload \in Logins /\ dir.age <= MaxStale
    BY <1>1 DEF FallbackPayload, Servable
  <2> SUFFICES ASSUME NEW outcome, outcome = Fallback(dir, lastError)
               PROVE  /\ outcome \in Outcomes
                      /\ outcome.stale /\ outcome.read <= MaxStale
    OBVIOUS
  <2>2. outcome.kind = "cached" /\ outcome.stale /\ outcome.read = dir.age
    BY <1>1 DEF Fallback, CachedOutcome
  <2> QED BY <1>1, <2>1, <2>2 DEF Fallback, CachedOutcome
<1>2. CASE FallbackPayload(dir) \notin Logins
  <2>1. Fallback(dir, lastError) = Failed
    BY <1>2 DEF Fallback
  <2> QED BY <2>1, PlainOutcomes
<1> QED BY <1>1, <1>2

(***************************************************************************)
(* What a fetch that answers from the cache returns.                       *)
(***************************************************************************)
LEMMA CachedOutcomeType ==
  ASSUME NEW dir \in Dirs, NEW payload \in Payloads, NEW seen \in 0 .. MaxStale + 1,
         NEW stale \in BOOLEAN
  PROVE  /\ CachedOutcome(dir, payload, seen, stale) \in Outcomes
         /\ CachedOutcome(dir, payload, seen, stale).read = seen
<1> SUFFICES ASSUME NEW outcome, outcome = CachedOutcome(dir, payload, seen, stale)
             PROVE  outcome \in Outcomes /\ outcome.read = seen
  OBVIOUS
<1> QED BY DEF CachedOutcome, Outcomes, Dirs, BackedOff

(***************************************************************************)
(* The compound operations are sequences of sidecar operations.            *)
(***************************************************************************)
LEMMA CompoundOps ==
  ASSUME NEW status \in Codes
  PROVE  /\ ClearMarkers \in Seq(FileOps)
         /\ ClearLastError \in Seq({"rmErr", "rmRetry"})
         /\ WriteLastError(status) \in Seq(FileOps)
         /\ MarkStale \o WriteLastError(status) \in Seq(FileOps)
<1>1. <<"setErr">> \in Seq(FileOps) /\ <<"setErr", "arm">> \in Seq(FileOps)
  BY DEF FileOps
<1>2. WriteLastError(status) \in Seq(FileOps)
  BY <1>1 DEF WriteLastError
<1>3. MarkStale \in Seq(FileOps)
  BY DEF MarkStale, FileOps
<1>4. ClearMarkers \in Seq(FileOps)
  BY DEF ClearMarkers, FileOps
<1>5. ClearLastError \in Seq({"rmErr", "rmRetry"})
  BY DEF ClearLastError
<1> QED BY <1>2, <1>3, <1>4, <1>5

-----------------------------------------------------------------------------
(* Type correctness. *)

(***************************************************************************)
(* Returning from a fetch, or dying, keeps the types.                      *)
(***************************************************************************)
LEMMA ReturnType ==
  ASSUME TypeOK, NEW p \in Procs, NEW outcome \in Outcomes, Return(p, outcome)
  PROVE  /\ lock' \in Procs \cup {NoOne}
         /\ pc' \in [Procs -> Labels]
         /\ ttl' \in [Procs -> {0, Ttl}]
         /\ creds' \in [Procs -> Blobs \cup {Unreadable}]
         /\ read' \in [Procs -> [payload : Payloads, age : 0 .. MaxStale + 1]]
         /\ wire' \in [Procs -> Answers]
         /\ code' \in [Procs -> Codes \cup {NoError}]
         /\ todo' \in [Procs -> Seq(FileOps)]
         /\ out' \in [Procs -> Outcomes]
<1> USE DEF TypeOK, Return, Goto
<1>1. lock' \in Procs \cup {NoOne}
  BY DEF Freed
<1>2. pc' \in [Procs -> Labels]
  BY DEF Labels
<1>3. [payload |-> NoPayload, age |-> 0] \in [payload : Payloads, age : 0 .. MaxStale + 1]
  BY ClockAssumption DEF Payloads
<1>4. read' \in [Procs -> [payload : Payloads, age : 0 .. MaxStale + 1]]
  BY <1>3
<1>5. /\ ttl' \in [Procs -> {0, Ttl}]
      /\ creds' \in [Procs -> Blobs \cup {Unreadable}]
      /\ out' \in [Procs -> Outcomes]
  OBVIOUS
<1>6. wire' \in [Procs -> Answers] /\ code' \in [Procs -> Codes \cup {NoError}]
  BY DEF Answers
<1>7. todo' \in [Procs -> Seq(FileOps)]
  OBVIOUS
<1> QED BY <1>1, <1>2, <1>4, <1>5, <1>6, <1>7

LEMMA BlobFields ==
  ASSUME NEW blob \in Blobs
  PROVE  blob.login \in Logins /\ blob.rt \in 0 .. MaxRotations + 1
BY DEF Blobs

(***************************************************************************)
(* The server's bookkeeping keeps its type under the bound MaxRotations.   *)
(***************************************************************************)
LEMMA RotateType ==
  ASSUME TypeOK, NEW login \in Logins, issued[login] <= MaxRotations, Rotate(login)
  PROVE  issued' \in [Logins -> 1 .. MaxRotations + 1]
<1>1. issued[login] + 1 \in 1 .. MaxRotations + 1
  BY ProcAssumption DEF TypeOK
<1> QED BY <1>1 DEF TypeOK, Rotate

LEMMA AbandonType ==
  ASSUME TypeOK, NEW p \in Procs, creds[p] \in Blobs \/ wire[p] # "sent", Abandon(p)
  PROVE  /\ issued' \in [Logins -> 1 .. MaxRotations + 1]
         /\ stray' \subseteq [login : Logins, rt : 0 .. MaxRotations + 1]
         /\ lost' \in BOOLEAN
<1>1. stray' \subseteq [login : Logins, rt : 0 .. MaxRotations + 1]
  BY DEF TypeOK, Abandon, Blobs
<1>2. lost' \in BOOLEAN
  BY DEF TypeOK, Abandon
<1> QED BY <1>1, <1>2 DEF TypeOK, Abandon

(***************************************************************************)
(* A process past the look-up has a readable credential; its grant is      *)
(* under way only while it waits for it or writes it back.                 *)
(***************************************************************************)
CredsKnown(p) == pc[p] \in Holding \ {"credlock", "creds"} => creds[p] \in Blobs

WireState(p) ==
  /\ wire[p] # "none" => pc[p] \in {"grant", "save"}
  /\ wire[p] \in {"sent", "refused"} => pc[p] = "grant"
  /\ pc[p] = "save" => wire[p] \in {"kept", "rotated"}

ReadState(p) ==
  pc[p] = "reuse" => /\ read[p].payload \in Logins
                     /\ read[p].age <= MaxStale
                     /\ ttl[p] = Ttl

LocalInv == \A p \in Procs : CredsKnown(p) /\ WireState(p) /\ ReadState(p)

TypeInv == TypeOK /\ LocalInv

LEMMA InitialDirs ==
  ASSUME NEW payload \in Payloads, NEW age \in 0 .. MaxStale + 1
  PROVE  PlainDir(payload, age) \in Dirs
BY ClockAssumption DEF PlainDir, Dirs, NoError

LEMMA TypeInit == Init => TypeInv
<1> SUFFICES ASSUME Init PROVE TypeInv
  OBVIOUS
<1>1. cache \in Dirs
  <2>1. cache \in StartingDirs
    BY Zenon DEF Init
  <2>2. PICK payload \in Payloads, age \in {0, Ttl, MaxStale + 1} :
          cache = PlainDir(payload, age)
    BY <2>1 DEF StartingDirs, EmptyDir, Payloads
  <2>3. age \in 0 .. MaxStale + 1
    BY ClockAssumption
  <2> QED BY <2>2, <2>3, InitialDirs
<1>2. lock \in Procs \cup {NoOne}
  BY DEF Init
<1>3. slot \in Blobs \cup {Unreadable}
  <2>1. \A b \in [login : Logins, access : {"present", "blank"}, expiring : BOOLEAN,
                  rt : {0, 1}] : b \in Blobs
    BY ProcAssumption DEF Blobs
  <2> QED BY <2>1, Zenon DEF Init
<1>4. issued \in [Logins -> 1 .. MaxRotations + 1]
  <2>1. 1 \in 1 .. MaxRotations + 1
    BY ProcAssumption
  <2> QED BY <2>1, Zenon DEF Init
<1>5. pc \in [Procs -> Labels] /\ ttl \in [Procs -> {0, Ttl}]
  BY Zenon DEF Init, Labels
<1>6. creds \in [Procs -> Blobs \cup {Unreadable}] /\ wire \in [Procs -> Answers]
  BY Zenon DEF Init, Answers
<1>7. read \in [Procs -> [payload : Payloads, age : 0 .. MaxStale + 1]]
  <2>1. [payload |-> NoPayload, age |-> 0] \in [payload : Payloads, age : 0 .. MaxStale + 1]
    BY ClockAssumption DEF Payloads
  <2> QED BY <2>1, Zenon DEF Init
<1>8. code \in [Procs -> Codes \cup {NoError}] /\ out \in [Procs -> Outcomes]
  BY PlainOutcomes, Zenon DEF Init
<1>9. todo \in [Procs -> Seq(FileOps)]
  <2>1. <<>> \in Seq(FileOps)
    OBVIOUS
  <2> QED BY <2>1, Zenon DEF Init
<1>10. stray \subseteq [login : Logins, rt : 0 .. MaxRotations + 1] /\ lost \in BOOLEAN
  BY Zenon DEF Init
<1>11. \A p \in Procs : pc[p] = "idle" /\ wire[p] = "none"
  BY Zenon DEF Init
<1>12. LocalInv
  BY <1>11 DEF LocalInv, CredsKnown, WireState, ReadState, Holding
<1> QED BY <1>1, <1>2, <1>3, <1>4, <1>5, <1>6, <1>7, <1>8, <1>9, <1>10, <1>12, Zenon
        DEF TypeOK, TypeInv
(***************************************************************************)
(* The steps that move one process on and write at most one local.         *)
(***************************************************************************)
LEMMA SimpleStepsType ==
  ASSUME TypeInv, NEW p \in Procs,
         \/ Start(p) \/ TakeLock(p) \/ TakeCredLock(p) \/ DecideRefresh(p)
         \/ ErrorCleared(p) \/ ServerGrants(p) \/ Granted(p) \/ CheckBearer(p)
         \/ UsageFails(p) \/ UsageLost(p)
  PROVE  TypeInv'
<1> USE DEF TypeInv, TypeOK, files, server, locals, Goto
<1>1. CASE Start(p)
  <2>1. TypeOK'
    BY <1>1, PlainOutcomes DEF Start, Labels
  <2>2. LocalInv'
    BY <1>1 DEF Start, LocalInv, CredsKnown, WireState, ReadState, Holding
  <2> QED BY <2>1, <2>2
<1>2. CASE TakeLock(p)
  <2>1. TypeOK'
    BY <1>2 DEF TakeLock, Labels, Holding
  <2>2. LocalInv'
    BY <1>2 DEF TakeLock, LocalInv, CredsKnown, WireState, ReadState, Holding
  <2> QED BY <2>1, <2>2
<1>3. CASE TakeCredLock(p)
  <2>1. TypeOK'
    BY <1>3 DEF TakeCredLock, Labels, Holding
  <2>2. LocalInv'
    BY <1>3 DEF TakeCredLock, LocalInv, CredsKnown, WireState, ReadState, Holding
  <2> QED BY <2>1, <2>2
<1>4. CASE DecideRefresh(p)
  <2>1. ClearLastError \in Seq(FileOps)
    BY DEF ClearLastError, FileOps
  <2>2. todo' \in [Procs -> Seq(FileOps)]
    BY <1>4, <2>1 DEF DecideRefresh
  <2>3. pc' \in [Procs -> Labels] /\ wire' \in [Procs -> Answers]
    BY <1>4 DEF DecideRefresh, Labels, Holding, Answers
  <2>4. TypeOK'
    BY <1>4, <2>2, <2>3 DEF DecideRefresh
  <2>5. LocalInv'
    BY <1>4 DEF DecideRefresh, LocalInv, CredsKnown, WireState, ReadState, Holding
  <2> QED BY <2>4, <2>5
<1>5. CASE ErrorCleared(p)
  <2>1. TypeOK'
    BY <1>5 DEF ErrorCleared, Labels, Holding
  <2>2. LocalInv'
    BY <1>5 DEF ErrorCleared, LocalInv, CredsKnown, WireState, ReadState, Holding
  <2> QED BY <2>1, <2>2
<1>6. CASE ServerGrants(p)
  <2>1. pc[p] = "grant"
    BY <1>6 DEF ServerGrants, LocalInv, WireState
  <2>2. creds[p] \in Blobs
    BY <2>1 DEF LocalInv, CredsKnown, Holding
  <2>3. creds[p].login \in Logins
    BY <2>2, BlobFields
  <2>4. issued' \in [Logins -> 1 .. MaxRotations + 1]
    <3>1. \/ issued' = issued
          \/ issued[creds[p].login] <= MaxRotations /\ Rotate(creds[p].login)
      BY <1>6 DEF ServerGrants
    <3> QED BY <3>1, <2>3, RotateType
  <2>5. wire' \in [Procs -> Answers]
    BY <1>6 DEF ServerGrants, Answers
  <2>6. TypeOK'
    BY <1>6, <2>4, <2>5 DEF ServerGrants
  <2>7. LocalInv'
    BY <1>6 DEF ServerGrants, LocalInv, CredsKnown, WireState, ReadState
  <2> QED BY <2>6, <2>7
<1>7. CASE Granted(p)
  <2>1. creds[p] \in Blobs
    BY <1>7 DEF Granted, LocalInv, CredsKnown, Holding
  <2>2. NewToken(p) \in 0 .. MaxRotations + 1
    BY <2>1, ProcAssumption DEF NewToken, Blobs
  <2>3. Refreshed(creds[p], NewToken(p)) \in Blobs
    BY <2>1, <2>2 DEF Refreshed, Blobs
  <2>4. creds' \in [Procs -> Blobs \cup {Unreadable}]
    BY <1>7, <2>3 DEF Granted
  <2>5. pc' \in [Procs -> Labels]
    BY <1>7 DEF Granted, Labels, Holding
  <2>6. TypeOK'
    BY <1>7, <2>4, <2>5 DEF Granted
  <2>7. LocalInv'
    BY <1>7, ProcAssumption DEF Granted, Refreshed, NewToken, LocalInv, CredsKnown, WireState, ReadState, Holding, Blobs
  <2> QED BY <2>6, <2>7
<1>8. CASE CheckBearer(p)
  <2>1. TypeOK'
    BY <1>8 DEF CheckBearer, Freed, Labels, Holding
  <2>2. LocalInv'
    BY <1>8 DEF CheckBearer, LocalInv, CredsKnown, WireState, ReadState, Holding
  <2> QED BY <2>1, <2>2
<1>9. CASE UsageFails(p)
  <2>1. TypeOK'
    BY <1>9, CompoundOps DEF UsageFails, Labels, Holding
  <2>2. LocalInv'
    BY <1>9 DEF UsageFails, LocalInv, CredsKnown, WireState, ReadState, Holding
  <2> QED BY <2>1, <2>2
<1>10. CASE UsageLost(p)
  <2>1. TypeOK'
    BY <1>10 DEF UsageLost, Labels, Holding
  <2>2. LocalInv'
    BY <1>10 DEF UsageLost, LocalInv, CredsKnown, WireState, ReadState, Holding
  <2> QED BY <2>1, <2>2
<1> QED BY <1>1, <1>2, <1>3, <1>4, <1>5, <1>6, <1>7, <1>8, <1>9, <1>10

(***************************************************************************)
(* The steps that return: what is local goes back to where it started.     *)
(***************************************************************************)
LEMMA ReturnInv ==
  ASSUME TypeInv, NEW p \in Procs, NEW outcome \in Outcomes, Return(p, outcome),
         UNCHANGED files,
         UNCHANGED server \/ Abandon(p)
  PROVE  TypeInv'
<1>1. creds[p] \in Blobs \/ wire[p] # "sent"
  BY DEF TypeInv, LocalInv, CredsKnown, WireState, Holding
<1>2. /\ issued' \in [Logins -> 1 .. MaxRotations + 1]
      /\ stray' \subseteq [login : Logins, rt : 0 .. MaxRotations + 1]
      /\ lost' \in BOOLEAN
  BY <1>1, AbandonType DEF TypeInv, TypeOK, server
<1>3. TypeOK'
  BY <1>2, ReturnType DEF TypeInv, TypeOK, files
<1>4. LocalInv'
  BY DEF TypeInv, TypeOK, LocalInv, Return, Goto, CredsKnown, WireState, ReadState,
         Holding
<1> QED BY <1>3, <1>4 DEF TypeInv

LEMMA ReturningStepsType ==
  ASSUME TypeInv, NEW p \in Procs,
         \/ LockTimeout(p) \/ ReuseCache(p) \/ ReturnFresh(p) \/ ReturnFallback(p)
         \/ Crash(p)
  PROVE  TypeInv'
<1>1. CASE LockTimeout(p)
  BY <1>1, PlainOutcomes, ReturnInv DEF LockTimeout
<1>2. CASE ReuseCache(p)
  <2>1. read[p].payload \in Payloads /\ read[p].age \in 0 .. MaxStale + 1
    BY DEF TypeInv, TypeOK
  <2>2. CachedOutcome(cache, read[p].payload, read[p].age, FALSE) \in Outcomes
    BY <2>1, CachedOutcomeType DEF TypeInv, TypeOK
  <2> QED BY <1>2, <2>2, ReturnInv DEF ReuseCache
<1>3. CASE ReturnFresh(p)
  <2>1. creds[p] \in Blobs
    BY <1>3 DEF ReturnFresh, TypeInv, LocalInv, CredsKnown, Holding
  <2>2. Fresh(creds[p].login) \in Outcomes
    BY <2>1, BlobFields, PlainOutcomes
  <2> QED BY <1>3, <2>2, ReturnInv DEF ReturnFresh
<1>4. CASE ReturnFallback(p)
  <2>1. cache \in Dirs /\ code[p] \in Codes \cup {NoError}
    BY DEF TypeInv, TypeOK
  <2>2. Fallback(cache, IF pc[p] = "fail" THEN code[p] ELSE NoError) \in Outcomes
    BY <2>1, FallbackType
  <2> QED BY <1>4, <2>2, ReturnInv DEF ReturnFallback
<1>5. CASE Crash(p)
  BY <1>5, PlainOutcomes, ReturnInv DEF Crash
<1> QED BY <1>1, <1>2, <1>3, <1>4, <1>5

(***************************************************************************)
(* The steps that look at the credential and at the cache.                 *)
(***************************************************************************)
LEMMA LookingStepsType ==
  ASSUME TypeInv, NEW p \in Procs, ResolveCreds(p) \/ LookInCache(p)
  PROVE  TypeInv'
<1>1. CASE ResolveCreds(p)
  <2>1. CASE slot = Unreadable
    BY <1>1, <2>1, PlainOutcomes, ReturnInv DEF ResolveCreds
  <2>2. CASE slot # Unreadable
    <3>1. slot \in Blobs
      BY <2>2 DEF TypeInv, TypeOK
    <3>2. TypeOK'
      BY <1>1, <2>2, <3>1 DEF ResolveCreds, TypeInv, TypeOK, files, server, Goto,
                              Labels, Holding
    <3>3. LocalInv'
      BY <1>1, <2>2, <3>1 DEF ResolveCreds, TypeInv, TypeOK, files, server, Goto,
                              LocalInv, CredsKnown, WireState, ReadState, Holding
    <3> QED BY <3>2, <3>3 DEF TypeInv
  <2> QED BY <2>1, <2>2
<1>2. CASE LookInCache(p)
  <2> DEFINE found == FreshPayload(cache, ttl[p])
  <2>1. cache \in Dirs /\ ttl[p] \in {0, Ttl}
    BY DEF TypeInv, TypeOK
  <2>2. CASE found = Limited
    <3> HIDE DEF found
    <3>1. found \notin Logins
      BY <2>2, LoginAssumption DEF Limited
    <3>2. Return(p, Failed) /\ UNCHANGED <<files, server>>
      BY <1>2, <2>2, <3>1, Zenon DEF LookInCache, found
    <3> QED BY <3>2, PlainOutcomes, ReturnInv
  <2>3. CASE found \in Logins
    <3>1. found # Limited
      BY <2>3, LoginAssumption DEF Limited
    <3>2. cache.age <= MaxStale /\ ttl[p] = Ttl /\ cache.age \in 0 .. MaxStale + 1
      BY <2>1, <2>3, FreshPayloadAge DEF Dirs
    <3> HIDE DEF found
    <3>3. /\ pc[p] = "look"
          /\ read' = [read EXCEPT ![p] = [payload |-> found, age |-> cache.age]]
          /\ Goto(p, "reuse")
          /\ UNCHANGED <<files, lock, server, ttl, creds, wire, code, todo, out>>
      BY <1>2, <2>3, <3>1 DEF LookInCache, found
    <3>4. [payload |-> found, age |-> cache.age] \in [payload : Payloads, age : 0 .. MaxStale + 1]
      BY <3>2, <2>3 DEF Payloads
    <3>5. TypeOK'
      BY <3>3, <3>4 DEF TypeInv, TypeOK, files, server, Goto,
                        Labels, Holding
    <3>6. LocalInv'
      BY <3>2, <3>3, <2>3 DEF TypeInv, TypeOK, files, server, Goto,
                  LocalInv, CredsKnown, WireState, ReadState, Holding
    <3> QED BY <3>5, <3>6 DEF TypeInv
  <2>4. CASE found \notin Logins \cup {Limited}
    <3>1. Goto(p, "token") /\ UNCHANGED <<files, lock, server, locals>>
      BY <1>2, <2>4 DEF LookInCache
    <3>2. TypeOK'
      BY <3>1 DEF TypeInv, TypeOK, files, server, locals, Goto,
                  Labels, Holding
    <3>3. LocalInv'
      BY <1>2, <3>1 DEF TypeInv, TypeOK, files, server, locals, Goto, LookInCache,
                  LocalInv, CredsKnown, WireState, ReadState, Holding
    <3> QED BY <3>2, <3>3 DEF TypeInv
  <2> QED BY <2>2, <2>3, <2>4
<1> QED BY <1>1, <1>2

(***************************************************************************)
(* The steps that end a refresh.                                           *)
(***************************************************************************)
LEMMA RefreshStepsType ==
  ASSUME TypeInv, NEW p \in Procs,
         RefreshRefused(p) \/ RefreshLost(p) \/ SaveCreds(p) \/ SaveFails(p)
  PROVE  TypeInv'
<1> USE DEF files, server, Goto
<1>1. pc[p] \in {"grant", "save"} /\ creds[p] \in Blobs
  BY DEF RefreshRefused, RefreshLost, SaveCreds, SaveFails,
         TypeInv, LocalInv, CredsKnown, Holding
<1>2. CASE SaveCreds(p)
  <2>1. TypeOK'
    BY <1>1, <1>2 DEF SaveCreds, TypeInv, TypeOK, Labels, Holding, Answers
  <2>2. LocalInv'
    BY <1>1, <1>2 DEF SaveCreds, TypeInv, TypeOK, LocalInv, CredsKnown, WireState,
                      ReadState, Holding
  <2> QED BY <2>1, <2>2 DEF TypeInv
<1>3. ASSUME Abandon(p), UNCHANGED <<files, lock, ttl, creds, read, out>>,
             wire' = [wire EXCEPT ![p] = "none"],
             NEW label \in {"authfail", "authquiet", "bearer"}, Goto(p, label),
             code' \in [Procs -> Codes \cup {NoError}], todo' \in [Procs -> Seq(FileOps)]
      PROVE  TypeInv'
  <2>1. /\ issued' \in [Logins -> 1 .. MaxRotations + 1]
        /\ stray' \subseteq [login : Logins, rt : 0 .. MaxRotations + 1]
        /\ lost' \in BOOLEAN
    BY <1>1, <1>3, AbandonType DEF TypeInv
  <2>2. TypeOK'
    BY <1>3, <2>1 DEF TypeInv, TypeOK, Labels, Holding, Answers
  <2>3. LocalInv'
    BY <1>1, <1>3 DEF TypeInv, TypeOK, LocalInv, CredsKnown, WireState, ReadState,
                      Holding
  <2> QED BY <2>2, <2>3 DEF TypeInv
<1>4. CASE RefreshRefused(p)
  <2>1. PICK c \in Codes : /\ code' = [code EXCEPT ![p] = c]
                           /\ todo' = [todo EXCEPT ![p] = WriteLastError(c)]
    BY <1>4 DEF RefreshRefused
  <2>2. code' \in [Procs -> Codes \cup {NoError}] /\ todo' \in [Procs -> Seq(FileOps)]
    BY <2>1, CompoundOps DEF TypeInv, TypeOK
  <2> QED BY <1>3, <1>4, <2>2 DEF RefreshRefused
<1>5. CASE RefreshLost(p)
  BY <1>3, <1>5 DEF RefreshLost, TypeInv, TypeOK
<1>6. CASE SaveFails(p)
  <2>1. "local" \in Codes /\ WriteLastError("local") \in Seq(FileOps)
    BY CompoundOps DEF Codes
  <2>2. code' \in [Procs -> Codes \cup {NoError}] /\ todo' \in [Procs -> Seq(FileOps)]
    BY <1>6, <2>1 DEF SaveFails, TypeInv, TypeOK
  <2>3. PICK label \in {"authfail", "authquiet", "bearer"} : Goto(p, label)
    BY <1>6 DEF SaveFails
  <2> QED BY <1>3, <1>6, <2>2, <2>3 DEF SaveFails
<1> QED BY <1>2, <1>4, <1>5, <1>6

(***************************************************************************)
(* The steps that write the cache directory, and time.                     *)
(***************************************************************************)
LEMMA WritingStepsType ==
  ASSUME TypeInv, NEW p \in Procs, UsageAnswered(p) \/ RunFileOp(p)
  PROVE  TypeInv'
<1> USE DEF files, server, Goto
<1>1. CASE UsageAnswered(p)
  <2>1. pc[p] = "usage" /\ creds[p] \in Blobs
    BY <1>1 DEF UsageAnswered, TypeInv, LocalInv, CredsKnown, Holding
  <2>2. CASE Return(p, Failed) /\ UNCHANGED cache
    BY <1>1, <2>2, PlainOutcomes, ReturnInv DEF UsageAnswered
  <2>3. CASE /\ cache' = Persist(cache, creds[p].login)
             /\ todo' = [todo EXCEPT ![p] = ClearMarkers]
             /\ Goto(p, "stored")
             /\ UNCHANGED <<lock, ttl, creds, read, wire, code, out, slot, server>>
    <3>1. cache' \in Dirs
      BY <2>1, <2>3, BlobFields, PersistType DEF TypeInv, TypeOK
    <3>2. todo' \in [Procs -> Seq(FileOps)]
      BY <2>3, CompoundOps DEF TypeInv, TypeOK, Codes
    <3>3. TypeOK'
      BY <2>3, <3>1, <3>2 DEF TypeInv, TypeOK, Labels, Holding
    <3>4. LocalInv'
      BY <2>1, <2>3 DEF TypeInv, TypeOK, LocalInv, CredsKnown, WireState, ReadState,
                        Holding
    <3> QED BY <3>3, <3>4 DEF TypeInv
  <2> QED BY <1>1, <2>2, <2>3 DEF UsageAnswered
<1>2. CASE RunFileOp(p)
  <2>1. todo[p] \in Seq(FileOps) /\ todo[p] # <<>>
    BY <1>2 DEF RunFileOp, TypeInv, TypeOK
  <2>2. Head(todo[p]) \in FileOps /\ Tail(todo[p]) \in Seq(FileOps)
    BY <2>1
  <2>3. cache' \in Dirs
    <3>1. cache \in Dirs /\ code[p] \in Codes \cup {NoError}
      BY DEF TypeInv, TypeOK
    <3> QED BY <1>2, <2>2, <3>1, FileOpType DEF RunFileOp
  <2>4. TypeOK'
    BY <1>2, <2>2, <2>3 DEF RunFileOp, TypeInv, TypeOK
  <2>5. LocalInv'
    BY <1>2 DEF RunFileOp, TypeInv, LocalInv, CredsKnown, WireState, ReadState
  <2> QED BY <2>4, <2>5 DEF TypeInv
<1> QED BY <1>1, <1>2

LEMMA EnvironmentStepsType ==
  ASSUME TypeInv, StrayGrant \/ Tick \/ TokenExpires \/ UNCHANGED vars
  PROVE  TypeInv'
<1> USE DEF files, server, locals
<1>1. UNCHANGED <<pc, locals>>
  BY Zenon DEF StrayGrant, Tick, TokenExpires, vars
<1>2. LocalInv'
  BY <1>1 DEF TypeInv, LocalInv, CredsKnown, WireState, ReadState
<1>3. CASE StrayGrant
  <2>1. PICK grant \in stray :
          /\ stray' = stray \ {grant}
          /\ \/ /\ issued[grant.login] <= MaxRotations
                /\ Rotate(grant.login)
                /\ lost' = TRUE
             \/ UNCHANGED <<issued, lost>>
    BY <1>3 DEF StrayGrant
  <2>2. grant.login \in Logins
    BY DEF TypeInv, TypeOK
  <2>3. issued' \in [Logins -> 1 .. MaxRotations + 1] /\ lost' \in BOOLEAN
    BY <2>1, <2>2, RotateType DEF TypeInv, TypeOK
  <2>4. TypeOK'
    BY <1>1, <1>3, <2>1, <2>3 DEF StrayGrant, TypeInv, TypeOK
  <2> QED BY <1>2, <2>4 DEF TypeInv
<1>4. CASE Tick
  <2>1. cache' \in Dirs
    BY <1>4, AgedType DEF Tick, TypeInv, TypeOK
  <2>2. TypeOK'
    BY <1>1, <1>4, <2>1 DEF Tick, TypeInv, TypeOK
  <2> QED BY <1>2, <2>2 DEF TypeInv
<1>5. CASE TokenExpires
  <2>1. slot' \in Blobs
    BY <1>5 DEF TokenExpires, TypeInv, TypeOK, Blobs
  <2>2. TypeOK'
    BY <1>1, <1>5, <2>1 DEF TokenExpires, TypeInv, TypeOK
  <2> QED BY <1>2, <2>2 DEF TypeInv
<1>6. CASE UNCHANGED vars
  <2>1. TypeOK'
    BY <1>6, Zenon DEF vars, TypeInv, TypeOK
  <2> QED BY <1>2, <2>1 DEF TypeInv
<1> QED BY <1>3, <1>4, <1>5, <1>6

LEMMA TypeStep == TypeInv /\ [Next]_vars => TypeInv'
BY SimpleStepsType, ReturningStepsType, LookingStepsType, RefreshStepsType,
   WritingStepsType, EnvironmentStepsType DEF Next, Step

(***************************************************************************)
(* Every reachable state is well typed: every process count, TTL, limit    *)
(* and token count.                                                        *)
(***************************************************************************)
THEOREM TypeCorrect == Spec => []TypeOK
<1>1. TypeInv => TypeOK
  BY DEF TypeInv
<1> QED BY TypeInit, TypeStep, <1>1, PTL DEF Spec

-----------------------------------------------------------------------------
(* The safety properties. *)

LEMMA TypesAlways == Spec => []TypeInv
BY TypeInit, TypeStep, PTL DEF Spec

LEMMA InitLocals ==
  ASSUME Init
  PROVE  /\ lock = NoOne
         /\ \A p \in Procs : /\ pc[p] = "idle" /\ wire[p] = "none"
                             /\ todo[p] = <<>> /\ out[p].kind = "none"
BY PlainOutcomes, Zenon DEF Init

-----------------------------------------------------------------------------
(* The lock. *)

LEMMA LockStep == TypeInv /\ CacheLockExclusive /\ [Next]_vars => CacheLockExclusive'
<1> SUFFICES ASSUME TypeInv, CacheLockExclusive, [Next]_vars PROVE CacheLockExclusive'
  OBVIOUS
<1> USE DEF TypeInv, TypeOK, CacheLockExclusive
<1>1. ASSUME NEW p \in Procs, NEW outcome, Return(p, outcome) PROVE CacheLockExclusive'
  BY <1>1, ProcAssumption DEF Return, Freed, Goto, Holding
<1>2. ASSUME UNCHANGED <<pc, lock>> PROVE CacheLockExclusive'
  BY <1>2
<1>3. ASSUME NEW p \in Procs, NEW label \in Labels, Goto(p, label), UNCHANGED lock,
             pc[p] \in Holding <=> label \in Holding
      PROVE  CacheLockExclusive'
  BY <1>3 DEF Goto
<1>4. ASSUME NEW p \in Procs, Start(p) \/ Step(p) \/ ServerGrants(p) \/ Crash(p)
      PROVE  CacheLockExclusive'
  <2> USE DEF Labels, Holding, locals, files
  <2>1. CASE Start(p)              BY <1>3, <2>1 DEF Start
  <2>2. CASE TakeLock(p)           BY <2>2, ProcAssumption DEF TakeLock, Goto
  <2>3. CASE LockTimeout(p)        BY <1>1, <2>3 DEF LockTimeout
  <2>4. CASE TakeCredLock(p)       BY <1>3, <2>4 DEF TakeCredLock
  <2>5. CASE ResolveCreds(p)       BY <1>1, <1>3, <2>5 DEF ResolveCreds
  <2>6. CASE LookInCache(p)        BY <1>1, <1>3, <2>6 DEF LookInCache
  <2>7. CASE ReuseCache(p)         BY <1>1, <2>7 DEF ReuseCache
  <2>8. CASE DecideRefresh(p)      BY <1>3, <2>8 DEF DecideRefresh
  <2>9. CASE ErrorCleared(p)       BY <1>3, <2>9 DEF ErrorCleared
  <2>10. CASE Granted(p)           BY <1>3, <2>10 DEF Granted
  <2>11. CASE RefreshRefused(p)    BY <1>3, <2>11 DEF RefreshRefused
  <2>12. CASE RefreshLost(p)       BY <1>3, <2>12 DEF RefreshLost
  <2>13. CASE SaveCreds(p)         BY <1>3, <2>13 DEF SaveCreds
  <2>14. CASE SaveFails(p)         BY <1>3, <2>14 DEF SaveFails
  <2>15. CASE CheckBearer(p)       BY <1>3, <2>15 DEF CheckBearer
  <2>16. CASE UsageAnswered(p)     BY <1>1, <1>3, <2>16 DEF UsageAnswered
  <2>17. CASE UsageFails(p)        BY <1>3, <2>17 DEF UsageFails
  <2>18. CASE UsageLost(p)         BY <1>3, <2>18 DEF UsageLost
  <2>19. CASE RunFileOp(p)         BY <1>2, <2>19 DEF RunFileOp
  <2>20. CASE ReturnFresh(p)       BY <1>1, <2>20 DEF ReturnFresh
  <2>21. CASE ReturnFallback(p)    BY <1>1, <2>21 DEF ReturnFallback
  <2>22. CASE ServerGrants(p)      BY <1>2, <2>22 DEF ServerGrants
  <2>23. CASE Crash(p)             BY <1>1, <2>23 DEF Crash
  <2> QED BY <1>4, <2>1, <2>2, <2>3, <2>4, <2>5, <2>6, <2>7, <2>8, <2>9, <2>10, <2>11,
             <2>12, <2>13, <2>14, <2>15, <2>16, <2>17, <2>18, <2>19, <2>20, <2>21,
             <2>22, <2>23 DEF Step
<1>5. CASE StrayGrant              BY <1>2, <1>5 DEF StrayGrant
<1>6. CASE Tick                    BY <1>2, <1>6 DEF Tick
<1>7. CASE TokenExpires            BY <1>2, <1>7 DEF TokenExpires
<1>8. CASE UNCHANGED vars          BY <1>2, <1>8 DEF vars
<1> QED BY <1>4, <1>5, <1>6, <1>7, <1>8 DEF Next

(***************************************************************************)
(* The flock excludes: a process between taking it and returning is its    *)
(* holder, whoever times out, crashes or returns meanwhile.                *)
(***************************************************************************)
THEOREM LockIsExclusive == Spec => []CacheLockExclusive
<1>1. Init => CacheLockExclusive
  BY InitLocals, ProcAssumption DEF CacheLockExclusive, Holding
<1> QED BY <1>1, TypesAlways, LockStep, PTL DEF Spec

-----------------------------------------------------------------------------
(* What is written, and by whom. *)

(***************************************************************************)
(* File operations are pending only after an answer or a failure, and the  *)
(* ones that run before the request remove no more than the markers.       *)
(***************************************************************************)
TodoInv ==
  \A p \in Procs :
    /\ todo[p] # <<>> => pc[p] \in {"clear", "stored", "fail", "authfail"}
    /\ pc[p] = "clear" => todo[p] \in Seq({"rmErr", "rmRetry"})

LEMMA TodoStep == TypeInv /\ TodoInv /\ [Next]_vars => TodoInv'
<1> SUFFICES ASSUME TypeInv, TodoInv, [Next]_vars PROVE TodoInv'
  OBVIOUS
<1> USE DEF TypeInv, TypeOK, TodoInv
<1>1. ASSUME NEW p \in Procs, NEW outcome, Return(p, outcome) PROVE TodoInv'
  BY <1>1 DEF Return, Goto
<1>2. ASSUME UNCHANGED <<pc, todo>> PROVE TodoInv'
  BY <1>2
<1>3. ASSUME NEW p \in Procs, NEW label \in Labels \ {"clear"}, Goto(p, label),
             UNCHANGED todo, todo[p] = <<>>
      PROVE  TodoInv'
  BY <1>3 DEF Goto
<1>4. ASSUME NEW p \in Procs, NEW label \in {"stored", "fail", "authfail"},
             Goto(p, label), NEW ops, todo' = [todo EXCEPT ![p] = ops]
      PROVE  TodoInv'
  BY <1>4 DEF Goto
<1>5. ASSUME NEW p \in Procs, Start(p) \/ Step(p) \/ ServerGrants(p) \/ Crash(p)
      PROVE  TodoInv'
  <2> USE DEF Labels, Holding, locals, files
  <2>1. CASE Start(p)              BY <1>3, <2>1 DEF Start
  <2>2. CASE TakeLock(p)           BY <1>3, <2>2 DEF TakeLock
  <2>3. CASE LockTimeout(p)        BY <1>1, <2>3 DEF LockTimeout
  <2>4. CASE TakeCredLock(p)       BY <1>3, <2>4 DEF TakeCredLock
  <2>5. CASE ResolveCreds(p)       BY <1>1, <1>3, <2>5 DEF ResolveCreds
  <2>6. CASE LookInCache(p)        BY <1>1, <1>3, <2>6 DEF LookInCache
  <2>7. CASE ReuseCache(p)         BY <1>1, <2>7 DEF ReuseCache
  <2>8. CASE DecideRefresh(p)
    <3>1. todo[p] = <<>>
      BY <2>8 DEF DecideRefresh
    <3>2. CASE Goto(p, "clear") /\ todo' = [todo EXCEPT ![p] = ClearLastError]
      BY <3>2, CompoundOps DEF Goto, Codes
    <3> QED BY <1>3, <2>8, <3>1, <3>2 DEF DecideRefresh
  <2>9. CASE ErrorCleared(p)       BY <1>3, <2>9 DEF ErrorCleared
  <2>10. CASE Granted(p)           BY <1>3, <2>10 DEF Granted
  <2>11. CASE RefreshRefused(p)    BY <1>4, <2>11 DEF RefreshRefused
  <2>12. CASE RefreshLost(p)       BY <1>3, <2>12 DEF RefreshLost
  <2>13. CASE SaveCreds(p)         BY <1>3, <2>13 DEF SaveCreds
  <2>14. CASE SaveFails(p)         BY <1>3, <1>4, <2>14 DEF SaveFails
  <2>15. CASE CheckBearer(p)       BY <1>3, <2>15 DEF CheckBearer
  <2>16. CASE UsageAnswered(p)     BY <1>1, <1>4, <2>16 DEF UsageAnswered
  <2>17. CASE UsageFails(p)        BY <1>4, <2>17 DEF UsageFails
  <2>18. CASE UsageLost(p)         BY <1>3, <2>18 DEF UsageLost
  <2>19. CASE RunFileOp(p)
    <3>1. \A ops : ops \in Seq({"rmErr", "rmRetry"}) /\ ops # <<>>
                   => Tail(ops) \in Seq({"rmErr", "rmRetry"})
      OBVIOUS
    <3> QED BY <2>19, <3>1 DEF RunFileOp
  <2>20. CASE ReturnFresh(p)       BY <1>1, <2>20 DEF ReturnFresh
  <2>21. CASE ReturnFallback(p)    BY <1>1, <2>21 DEF ReturnFallback
  <2>22. CASE ServerGrants(p)      BY <1>2, <2>22 DEF ServerGrants
  <2>23. CASE Crash(p)             BY <1>1, <2>23 DEF Crash
  <2> QED BY <1>5, <2>1, <2>2, <2>3, <2>4, <2>5, <2>6, <2>7, <2>8, <2>9, <2>10, <2>11,
             <2>12, <2>13, <2>14, <2>15, <2>16, <2>17, <2>18, <2>19, <2>20, <2>21,
             <2>22, <2>23 DEF Step
<1>6. CASE StrayGrant              BY <1>2, <1>6 DEF StrayGrant, locals
<1>7. CASE Tick                    BY <1>2, <1>7 DEF Tick, locals
<1>8. CASE TokenExpires            BY <1>2, <1>8 DEF TokenExpires, locals
<1>9. CASE UNCHANGED vars          BY <1>2, <1>9 DEF vars
<1> QED BY <1>5, <1>6, <1>7, <1>8, <1>9 DEF Next

LEMMA TodoAlways == Spec => []TodoInv
<1>1. Init => TodoInv
  BY InitLocals DEF TodoInv
<1> QED BY <1>1, TypesAlways, TodoStep, PTL DEF Spec

-----------------------------------------------------------------------------
(* Nobody asks the vendor needlessly. *)

(***************************************************************************)
(* The directory the question was decided on; t is the caller's TTL.       *)
(***************************************************************************)
MayAsk(dir, t) == /\ ~BackedOff(dir) \/ dir.payload = Corrupt
                  /\ ~(dir.payload \in Logins /\ dir.age < t)

LEMMA AskIsMayAsk == NoNeedlessRequest <=> \A p \in Procs : Asking(p) => MayAsk(cache, ttl[p])
BY DEF NoNeedlessRequest, NoRequestWhileBackedOff, NoRequestWhileFresh, MayAsk

(***************************************************************************)
(* Time and the removal of a marker never make a request needless.         *)
(***************************************************************************)
LEMMA MayAskPersists ==
  ASSUME NEW dir \in Dirs, NEW t \in {0, Ttl}, MayAsk(dir, t),
         NEW c, NEW file \in {"rmErr", "rmRetry"}
  PROVE  MayAsk(Aged(dir), t) /\ MayAsk(FileOp(dir, file, c), t)
<1>1. MayAsk(Aged(dir), t)
  <2> SUFFICES ASSUME NEW d, d = Aged(dir) PROVE MayAsk(d, t)
    OBVIOUS
  <2>1. d.payload = dir.payload /\ dir.age <= d.age /\ (dir.retry = 0 => d.retry = 0)
    BY ClockAssumption DEF Aged, Dirs
  <2>2. d.age \in Nat /\ d.retry \in Nat /\ dir.age \in Nat /\ dir.retry \in Nat /\ t \in Nat
    BY AgedType, ClockAssumption DEF Dirs
  <2> QED BY <2>1, <2>2 DEF MayAsk, BackedOff
<1>2. MayAsk(FileOp(dir, file, c), t)
  <2> SUFFICES ASSUME NEW d, d = FileOp(dir, file, c) PROVE MayAsk(d, t)
    OBVIOUS
  <2>1. d.payload = dir.payload /\ d.age = dir.age /\ (d.retry = dir.retry \/ d.retry = 0)
    BY DEF FileOp, Dirs
  <2> QED BY <2>1 DEF MayAsk, BackedOff
<1> QED BY <1>1, <1>2

LEMMA AskStep ==
  TypeInv /\ CacheLockExclusive /\ TodoInv /\ NoNeedlessRequest /\ [Next]_vars => NoNeedlessRequest'
<1> SUFFICES ASSUME TypeInv, CacheLockExclusive, TodoInv, [Next]_vars,
                    \A p \in Procs : Asking(p) => MayAsk(cache, ttl[p])
             PROVE  \A p \in Procs : Asking(p)' => MayAsk(cache', ttl'[p])
  BY AskIsMayAsk DEF NoNeedlessRequest, NoRequestWhileBackedOff, NoRequestWhileFresh, MayAsk,
                     Asking, BackedOff
<1> DEFINE Goal == \A p \in Procs : Asking(p)' => MayAsk(cache', ttl'[p])
<1> USE DEF TypeInv, TypeOK, Asking
<1>1. ASSUME NEW p \in Procs, NEW outcome, Return(p, outcome), UNCHANGED cache PROVE Goal
  BY <1>1 DEF Return, Goto
<1>2. ASSUME UNCHANGED <<pc, ttl, cache>> PROVE Goal
  BY <1>2
<1>3. ASSUME NEW p \in Procs, NEW label \in Labels, Goto(p, label), UNCHANGED <<ttl, cache>>,
             \/ Asking(p)
             \/ label \notin {"token", "clear", "grant", "save", "bearer", "usage"}
      PROVE  Goal
  BY <1>3 DEF Goto
<1>4. ASSUME NEW p \in Procs, pc[p] \in Holding
      PROVE  \A q \in Procs : Asking(q) => q = p
  BY <1>4 DEF CacheLockExclusive, Holding
<1>5. ASSUME NEW p \in Procs, Start(p) \/ Step(p) \/ ServerGrants(p) \/ Crash(p)
      PROVE  Goal
  <2> USE DEF Labels, Holding, locals, files
  <2> HIDE DEF Goal
  <2>1. CASE Start(p)              BY <2>1 DEF Start, Goto, Goal
  <2>2. CASE TakeLock(p)           BY <1>3, <2>2 DEF TakeLock
  <2>3. CASE LockTimeout(p)        BY <1>1, <2>3 DEF LockTimeout
  <2>4. CASE TakeCredLock(p)       BY <1>3, <2>4 DEF TakeCredLock
  <2>5. CASE ResolveCreds(p)       BY <1>1, <1>3, <2>5 DEF ResolveCreds
  <2>6. CASE LookInCache(p)
    <3> DEFINE found == FreshPayload(cache, ttl[p])
    <3>1. CASE found \in Logins \cup {Limited}
      BY <1>1, <1>3, <2>6, <3>1 DEF LookInCache
    <3>2. CASE found \notin Logins \cup {Limited}
      <4>1. cache \in Dirs /\ ttl[p] \in Nat
        BY ClockAssumption
      <4>2. MayAsk(cache, ttl[p])
        BY <3>2, <4>1, FreshPayloadDecides, Zenon DEF MayAsk
      <4> HIDE DEF found
      <4>3. Goto(p, "token") /\ UNCHANGED <<ttl, cache>>
        BY <2>6, <3>2 DEF LookInCache, found
      <4> QED BY <4>2, <4>3 DEF Goto, Goal
    <3> QED BY <3>1, <3>2
  <2>7. CASE ReuseCache(p)         BY <1>1, <2>7 DEF ReuseCache
  <2>8. CASE DecideRefresh(p)      BY <1>3, <2>8 DEF DecideRefresh
  <2>9. CASE ErrorCleared(p)       BY <1>3, <2>9 DEF ErrorCleared
  <2>10. CASE Granted(p)           BY <1>3, <2>10 DEF Granted
  <2>11. CASE RefreshRefused(p)    BY <1>3, <2>11 DEF RefreshRefused
  <2>12. CASE RefreshLost(p)       BY <1>3, <2>12 DEF RefreshLost
  <2>13. CASE SaveCreds(p)         BY <1>3, <2>13 DEF SaveCreds
  <2>14. CASE SaveFails(p)         BY <1>3, <2>14 DEF SaveFails
  <2>15. CASE CheckBearer(p)       BY <1>3, <2>15 DEF CheckBearer
  <2>16. CASE UsageAnswered(p)
    <3>1. CASE Return(p, Failed) /\ UNCHANGED cache
      BY <1>1, <3>1
    <3>2. CASE Goto(p, "stored")
      <4>1. \A q \in Procs : Asking(q) => q = p
        BY <1>4, <2>16 DEF UsageAnswered
      <4> QED BY <3>2, <4>1 DEF Goto, Goal
    <3> QED BY <2>16, <3>1, <3>2 DEF UsageAnswered
  <2>17. CASE UsageFails(p)        BY <1>3, <2>17 DEF UsageFails
  <2>18. CASE UsageLost(p)         BY <1>3, <2>18 DEF UsageLost
  <2>19. CASE RunFileOp(p)
    <3>1. pc[p] \in {"clear", "stored", "fail", "authfail"} /\ UNCHANGED <<pc, ttl>>
      BY <2>19 DEF RunFileOp, TodoInv
    <3>2. \A q \in Procs : Asking(q) => q = p
      BY <1>4, <3>1
    <3>3. ASSUME Asking(p), cache' # cache PROVE MayAsk(cache', ttl[p])
      <4>1. Head(todo[p]) \in {"rmErr", "rmRetry"}
        BY <2>19, <3>1, <3>3 DEF RunFileOp, TodoInv
      <4> QED BY <2>19, <3>3, <4>1, MayAskPersists DEF RunFileOp
    <3> QED BY <3>1, <3>2, <3>3 DEF Goal
  <2>20. CASE ReturnFresh(p)       BY <1>1, <2>20 DEF ReturnFresh
  <2>21. CASE ReturnFallback(p)    BY <1>1, <2>21 DEF ReturnFallback
  <2>22. CASE ServerGrants(p)      BY <1>2, <2>22 DEF ServerGrants
  <2>23. CASE Crash(p)             BY <1>1, <2>23 DEF Crash
  <2> QED BY <1>5, <2>1, <2>2, <2>3, <2>4, <2>5, <2>6, <2>7, <2>8, <2>9, <2>10, <2>11,
             <2>12, <2>13, <2>14, <2>15, <2>16, <2>17, <2>18, <2>19, <2>20, <2>21,
             <2>22, <2>23 DEF Step
<1>6. CASE StrayGrant              BY <1>2, <1>6 DEF StrayGrant, locals, files
<1>7. CASE Tick
  <2>1. cache' = Aged(cache) /\ UNCHANGED <<pc, ttl>>
    BY <1>7 DEF Tick, locals
  <2> QED BY <2>1, MayAskPersists
<1>8. CASE TokenExpires            BY <1>2, <1>8 DEF TokenExpires, locals
<1>9. CASE UNCHANGED vars          BY <1>2, <1>9 DEF vars
<1> QED BY <1>5, <1>6, <1>7, <1>8, <1>9 DEF Next

(***************************************************************************)
(* While a 429 backoff is armed no process asks the vendor anything, the   *)
(* payload that does not parse excepted; and nobody fetches again what     *)
(* another process has just fetched.                                       *)
(***************************************************************************)
THEOREM AsksOnlyWhenNeeded == Spec => []NoNeedlessRequest
<1>1. Init => NoNeedlessRequest
  BY InitLocals DEF NoNeedlessRequest, NoRequestWhileBackedOff, NoRequestWhileFresh, Asking
<1> QED BY <1>1, TypesAlways, LockIsExclusive, TodoAlways, AskStep, PTL DEF Spec

-----------------------------------------------------------------------------
(* The refresh token on disk. *)

(***************************************************************************)
(* Between reading the credential and writing it back a process holds what *)
(* is on disk, or the one token the server accepts.                        *)
(***************************************************************************)
SlotState(p) ==
  /\ pc[p] \in {"look", "token", "clear", "grant", "save"} =>
       slot \in Blobs /\ creds[p].login = slot.login
  /\ \/ pc[p] \in {"look", "token", "clear", "grant"}
     \/ pc[p] = "save" /\ wire[p] = "kept"
     => creds[p].rt = slot.rt
  /\ pc[p] = "save" /\ wire[p] = "rotated" =>
       lost \/ creds[p].rt = issued[creds[p].login]

SlotInv == \A p \in Procs : SlotState(p)

LEMMA SlotStep ==
  TypeInv /\ CacheLockExclusive /\ SlotInv /\ [Next]_vars => SlotInv'
<1> SUFFICES ASSUME TypeInv, CacheLockExclusive, SlotInv, [Next]_vars PROVE SlotInv'
  OBVIOUS
<1> USE DEF TypeInv, TypeOK, SlotInv, SlotState
<1>1. ASSUME NEW p \in Procs, NEW outcome, Return(p, outcome), UNCHANGED <<slot, issued>>,
             lost => lost'
      PROVE  SlotInv'
  BY <1>1 DEF Return, Goto
<1>2. ASSUME UNCHANGED <<pc, slot, creds, wire, issued>>, lost => lost' PROVE SlotInv'
  BY <1>2
<1>3. ASSUME NEW p \in Procs, NEW label \in Labels, Goto(p, label),
             UNCHANGED <<slot, issued, creds>>, lost => lost',
             \A q \in Procs \ {p} : wire'[q] = wire[q],
             \/ label \notin {"look", "token", "clear", "grant", "save"}
             \/ /\ label \in {"token", "clear", "grant"}
                /\ pc[p] \in {"look", "token", "clear", "grant"}
      PROVE  SlotInv'
  <2>1. pc'[p] = label /\ \A q \in Procs \ {p} : pc'[q] = pc[q]
    BY <1>3 DEF Goto
  <2>2. SlotState(p)'
    BY <1>3, <2>1
  <2>3. \A q \in Procs \ {p} : SlotState(q)'
    BY <1>3, <2>1
  <2> QED BY <2>2, <2>3
<1>4. ASSUME NEW p \in Procs, pc[p] \in Holding
      PROVE  \A q \in Procs \ {p} : pc[q] \notin Holding
  BY <1>4 DEF CacheLockExclusive
<1>5. ASSUME NEW p \in Procs, Start(p) \/ Step(p) \/ ServerGrants(p) \/ Crash(p)
      PROVE  SlotInv'
  <2> USE DEF Labels, Holding, locals, files, server
  <2>1. CASE Start(p)              BY <1>3, <2>1 DEF Start
  <2>2. CASE TakeLock(p)           BY <1>3, <2>2 DEF TakeLock
  <2>3. CASE LockTimeout(p)        BY <1>1, <2>3 DEF LockTimeout
  <2>4. CASE TakeCredLock(p)       BY <1>3, <2>4 DEF TakeCredLock
  <2>5. CASE ResolveCreds(p)
    <3>1. CASE slot = Unreadable
      BY <1>1, <2>5, <3>1 DEF ResolveCreds
    <3>2. CASE slot # Unreadable
      <4>1. /\ slot \in Blobs /\ creds'[p] = slot /\ pc'[p] = "look"
            /\ \A q \in Procs \ {p} : pc'[q] = pc[q] /\ creds'[q] = creds[q]
            /\ UNCHANGED <<slot, wire, issued, lost>>
        BY <2>5, <3>2 DEF ResolveCreds, Goto
      <4>2. SlotState(p)'
        BY <4>1
      <4>3. \A q \in Procs \ {p} : SlotState(q)'
        BY <4>1
      <4> QED BY <4>2, <4>3
    <3> QED BY <3>1, <3>2
  <2>6. CASE LookInCache(p)        BY <1>1, <1>3, <2>6 DEF LookInCache
  <2>7. CASE ReuseCache(p)         BY <1>1, <2>7 DEF ReuseCache
  <2>8. CASE DecideRefresh(p)      BY <1>3, <2>8 DEF DecideRefresh
  <2>9. CASE ErrorCleared(p)       BY <1>3, <2>9 DEF ErrorCleared
  <2>10. CASE Granted(p)
    <3>1. creds'[p] = Refreshed(creds[p], NewToken(p)) /\ pc[p] = "grant"
      BY <2>10 DEF Granted
    <3>2. creds'[p].login = creds[p].login /\ creds'[p].rt = NewToken(p)
      BY <3>1 DEF Refreshed
    <3>3. SlotState(p)'
      BY <2>10, <3>1, <3>2 DEF Granted, Goto, NewToken
    <3>4. \A q \in Procs \ {p} : SlotState(q)'
      BY <2>10 DEF Granted, Goto
    <3> QED BY <3>3, <3>4
  <2>11. CASE RefreshRefused(p)    BY <1>3, <2>11 DEF RefreshRefused, Abandon
  <2>12. CASE RefreshLost(p)       BY <1>3, <2>12 DEF RefreshLost, Abandon
  <2>13. CASE SaveCreds(p)
    <3>1. \A q \in Procs \ {p} : pc[q] \notin Holding
      BY <1>4, <2>13 DEF SaveCreds
    <3> QED BY <2>13, <3>1 DEF SaveCreds, Goto
  <2>14. CASE SaveFails(p)         BY <1>3, <2>14 DEF SaveFails, Abandon
  <2>15. CASE CheckBearer(p)       BY <1>3, <2>15 DEF CheckBearer
  <2>16. CASE UsageAnswered(p)     BY <1>1, <1>3, <2>16 DEF UsageAnswered
  <2>17. CASE UsageFails(p)        BY <1>3, <2>17 DEF UsageFails
  <2>18. CASE UsageLost(p)         BY <1>3, <2>18 DEF UsageLost
  <2>19. CASE RunFileOp(p)         BY <1>2, <2>19 DEF RunFileOp
  <2>20. CASE ReturnFresh(p)       BY <1>1, <2>20 DEF ReturnFresh
  <2>21. CASE ReturnFallback(p)    BY <1>1, <2>21 DEF ReturnFallback
  <2>22. CASE ServerGrants(p)
    <3>1. pc[p] = "grant"
      BY <2>22 DEF ServerGrants, LocalInv, WireState
    <3>2. \A q \in Procs \ {p} : pc[q] \notin Holding
      BY <1>4, <3>1
    <3>3. SlotState(p)'
      BY <2>22, <3>1 DEF ServerGrants
    <3>4. \A q \in Procs \ {p} : SlotState(q)'
      BY <2>22, <3>2 DEF ServerGrants
    <3> QED BY <3>3, <3>4
  <2>23. CASE Crash(p)             BY <1>1, <2>23 DEF Crash, Abandon
  <2> QED BY <1>5, <2>1, <2>2, <2>3, <2>4, <2>5, <2>6, <2>7, <2>8, <2>9, <2>10, <2>11,
             <2>12, <2>13, <2>14, <2>15, <2>16, <2>17, <2>18, <2>19, <2>20, <2>21,
             <2>22, <2>23 DEF Step
<1>6. CASE StrayGrant
  <2>1. UNCHANGED <<pc, slot, creds, wire>> /\ (lost' \/ UNCHANGED <<issued, lost>>)
    BY <1>6 DEF StrayGrant, files, locals
  <2> QED BY <2>1
<1>7. CASE Tick                    BY <1>2, <1>7 DEF Tick, locals, server
<1>8. CASE TokenExpires
  <2>1. /\ slot \in Blobs /\ slot' \in Blobs
        /\ slot'.login = slot.login /\ slot'.rt = slot.rt
    BY <1>8 DEF TokenExpires, Blobs
  <2> QED BY <1>8, <2>1 DEF TokenExpires, locals, server
<1>9. CASE UNCHANGED vars          BY <1>2, <1>9 DEF vars
<1> QED BY <1>5, <1>6, <1>7, <1>8, <1>9 DEF Next

LEMMA SlotAlways == Spec => []SlotInv
<1>1. Init => SlotInv
  BY InitLocals DEF SlotInv, SlotState
<1> QED BY <1>1, TypesAlways, LockIsExclusive, SlotStep, PTL DEF Spec

(***************************************************************************)
(* No process spends a refresh token another one has replaced on disk.     *)
(***************************************************************************)
THEOREM SendsTheTokenOnDisk == Spec => []SendsWhatTheDiskHolds
<1>1. TypeInv /\ SlotInv => SendsWhatTheDiskHolds
  <2> SUFFICES ASSUME TypeInv, SlotInv, NEW p \in Procs, wire[p] = "sent"
               PROVE  creds[p].rt = slot.rt
    BY DEF SendsWhatTheDiskHolds
  <2>1. pc[p] = "grant"
    BY DEF TypeInv, LocalInv, WireState
  <2> QED BY <2>1 DEF SlotInv, SlotState
<1> QED BY <1>1, TypesAlways, SlotAlways, PTL

LEMMA LiveStep ==
  TypeInv /\ SlotInv /\ TokenOnDiskIsLive /\ [Next]_vars => TokenOnDiskIsLive'
<1> SUFFICES ASSUME TypeInv, SlotInv, TokenOnDiskIsLive, [Next]_vars
             PROVE  TokenOnDiskIsLive'
  OBVIOUS
<1> USE DEF TypeInv, TypeOK, TokenOnDiskIsLive
<1>1. ASSUME UNCHANGED <<slot, issued>>, lost => lost',
             \A q \in Procs : wire[q] = "rotated" => wire'[q] = "rotated" \/ lost'
      PROVE  TokenOnDiskIsLive'
  BY <1>1
<1>2. ASSUME NEW p \in Procs, NEW outcome, Return(p, outcome), UNCHANGED <<slot, server>>,
             wire[p] # "rotated"
      PROVE  TokenOnDiskIsLive'
  BY <1>1, <1>2 DEF Return, server
<1>3. \A p \in Procs : wire[p] # "none" => pc[p] \in {"grant", "save"}
  BY DEF LocalInv, WireState
<1>4. ASSUME NEW p \in Procs, Start(p) \/ Step(p) \/ ServerGrants(p) \/ Crash(p)
      PROVE  TokenOnDiskIsLive'
  <2> USE DEF locals, files, server
  <2>1. CASE Start(p)              BY <1>1, <2>1 DEF Start
  <2>2. CASE TakeLock(p)           BY <1>1, <2>2 DEF TakeLock
  <2>3. CASE LockTimeout(p)        BY <1>2, <1>3, <2>3 DEF LockTimeout
  <2>4. CASE TakeCredLock(p)       BY <1>1, <2>4 DEF TakeCredLock
  <2>5. CASE ResolveCreds(p)       BY <1>1, <1>2, <1>3, <2>5 DEF ResolveCreds
  <2>6. CASE LookInCache(p)        BY <1>1, <1>2, <1>3, <2>6 DEF LookInCache
  <2>7. CASE ReuseCache(p)         BY <1>2, <1>3, <2>7 DEF ReuseCache
  <2>8. CASE DecideRefresh(p)      BY <1>1, <1>3, <2>8 DEF DecideRefresh
  <2>9. CASE ErrorCleared(p)       BY <1>1, <2>9 DEF ErrorCleared
  <2>10. CASE Granted(p)           BY <1>1, <2>10 DEF Granted
  <2>11. CASE RefreshRefused(p)    BY <1>1, <2>11 DEF RefreshRefused, Abandon
  <2>12. CASE RefreshLost(p)       BY <1>1, <2>12 DEF RefreshLost, Abandon
  <2>13. CASE SaveCreds(p)
    <3>1. /\ slot' = creds[p] /\ UNCHANGED <<issued, lost>>
          /\ \A q \in Procs \ {p} : wire'[q] = wire[q]
      BY <2>13 DEF SaveCreds
    <3>2. CASE wire[p] = "rotated"
      BY <2>13, <3>1, <3>2 DEF SaveCreds, SlotInv, SlotState
    <3>3. CASE wire[p] = "kept"
      <4>1. slot.login = creds[p].login /\ slot.rt = creds[p].rt /\ slot \in Blobs
        BY <2>13, <3>3 DEF SaveCreds, SlotInv, SlotState
      <4>2. slot # Unreadable
        BY <4>1, LoginAssumption DEF Unreadable, Blobs, NoPayload
      <4> QED BY <3>1, <3>3, <4>1, <4>2
    <3> QED BY <2>13, <3>2, <3>3 DEF SaveCreds, LocalInv, WireState
  <2>14. CASE SaveFails(p)         BY <1>1, <2>14 DEF SaveFails, Abandon
  <2>15. CASE CheckBearer(p)       BY <1>1, <2>15 DEF CheckBearer
  <2>16. CASE UsageAnswered(p)     BY <1>1, <1>2, <1>3, <2>16 DEF UsageAnswered
  <2>17. CASE UsageFails(p)        BY <1>1, <2>17 DEF UsageFails
  <2>18. CASE UsageLost(p)         BY <1>1, <2>18 DEF UsageLost
  <2>19. CASE RunFileOp(p)         BY <1>1, <2>19 DEF RunFileOp
  <2>20. CASE ReturnFresh(p)       BY <1>2, <1>3, <2>20 DEF ReturnFresh
  <2>21. CASE ReturnFallback(p)    BY <1>2, <1>3, <2>21 DEF ReturnFallback
  <2>22. CASE ServerGrants(p)      BY <1>1, <2>22 DEF ServerGrants
  <2>23. CASE Crash(p)             BY <1>1, <2>23 DEF Crash, Abandon, Return
  <2> QED BY <1>4, <2>1, <2>2, <2>3, <2>4, <2>5, <2>6, <2>7, <2>8, <2>9, <2>10, <2>11,
             <2>12, <2>13, <2>14, <2>15, <2>16, <2>17, <2>18, <2>19, <2>20, <2>21,
             <2>22, <2>23 DEF Step
<1>5. CASE StrayGrant              BY <1>1, <1>5 DEF StrayGrant, files, locals
<1>6. CASE Tick                    BY <1>1, <1>6 DEF Tick, locals, server
<1>7. CASE TokenExpires
  <2>1. /\ slot \in Blobs /\ slot'.login = slot.login /\ slot'.rt = slot.rt
    BY <1>7 DEF TokenExpires, Blobs
  <2>2. slot # Unreadable
    BY <1>7 DEF TokenExpires
  <2> QED BY <1>7, <2>1, <2>2 DEF TokenExpires, locals, server
<1>8. CASE UNCHANGED vars          BY <1>1, <1>8 DEF vars
<1> QED BY <1>4, <1>5, <1>6, <1>7, <1>8 DEF Next

(***************************************************************************)
(* The refresh token on disk stays one the server accepts, whatever        *)
(* refusals, crashes, timeouts and payload failures happen, as long as no  *)
(* rotated answer or write-back was itself lost.                           *)
(***************************************************************************)
THEOREM RefreshKeepsTheTokenLive == Spec => []TokenOnDiskIsLive
<1>1. Init => TokenOnDiskIsLive
  <2> SUFFICES ASSUME Init PROVE TokenOnDiskIsLive
    OBVIOUS
  <2>1. /\ slot \in {Unreadable} \cup
             [login : Logins, access : {"present", "blank"}, expiring : BOOLEAN, rt : {0, 1}]
        /\ issued = [login \in Logins |-> 1]
    BY Zenon DEF Init
  <2> QED BY <2>1 DEF TokenOnDiskIsLive
<1> QED BY <1>1, TypesAlways, SlotAlways, LiveStep, PTL DEF Spec

-----------------------------------------------------------------------------
(* What is shown. *)

LEMMA OutStep == TypeInv /\ HonestOutcome /\ [Next]_vars => HonestOutcome'
<1> SUFFICES ASSUME TypeInv, HonestOutcome, [Next]_vars PROVE HonestOutcome'
  OBVIOUS
<1> USE DEF TypeInv, TypeOK, HonestOutcome, NothingTooOldIsShown, WireOnlyIsFlagged
<1>1. ASSUME NEW p \in Procs, NEW outcome \in Outcomes, Return(p, outcome),
             outcome.kind = "cached" =>
               outcome.read <= MaxStale /\ (ttl[p] = 0 => outcome.stale)
      PROVE  HonestOutcome'
  BY <1>1 DEF Return
<1>2. ASSUME UNCHANGED <<out, ttl>> PROVE HonestOutcome'
  BY <1>2
<1>3. ASSUME NEW p \in Procs, Start(p) \/ Step(p) \/ ServerGrants(p) \/ Crash(p)
      PROVE  HonestOutcome'
  <2> USE DEF locals, server
  <2>1. CASE Start(p)              BY <2>1, PlainOutcomes DEF Start
  <2>2. CASE TakeLock(p)           BY <1>2, <2>2 DEF TakeLock
  <2>3. CASE LockTimeout(p)        BY <1>1, <2>3, PlainOutcomes DEF LockTimeout
  <2>4. CASE TakeCredLock(p)       BY <1>2, <2>4 DEF TakeCredLock
  <2>5. CASE ResolveCreds(p)       BY <1>1, <1>2, <2>5, PlainOutcomes DEF ResolveCreds
  <2>6. CASE LookInCache(p)        BY <1>1, <1>2, <2>6, PlainOutcomes DEF LookInCache
  <2>7. CASE ReuseCache(p)
    <3> DEFINE outcome == CachedOutcome(cache, read[p].payload, read[p].age, FALSE)
    <3>1. /\ read[p].payload \in Logins /\ read[p].age <= MaxStale /\ ttl[p] = Ttl
      BY <2>7 DEF ReuseCache, LocalInv, ReadState
    <3>2. read[p].age \in 0 .. MaxStale + 1 /\ read[p].payload \in Payloads
      OBVIOUS
    <3>3. outcome \in Outcomes /\ outcome.read = read[p].age
      BY <3>2, CachedOutcomeType
    <3>4. ttl[p] # 0
      BY <3>1, ClockAssumption
    <3> HIDE DEF outcome
    <3>5. Return(p, outcome)
      BY <2>7 DEF ReuseCache, outcome
    <3> QED BY <1>1, <3>1, <3>3, <3>4, <3>5
  <2>8. CASE DecideRefresh(p)      BY <1>2, <2>8 DEF DecideRefresh
  <2>9. CASE ErrorCleared(p)       BY <1>2, <2>9 DEF ErrorCleared
  <2>10. CASE Granted(p)           BY <1>2, <2>10 DEF Granted
  <2>11. CASE RefreshRefused(p)    BY <1>2, <2>11 DEF RefreshRefused
  <2>12. CASE RefreshLost(p)       BY <1>2, <2>12 DEF RefreshLost
  <2>13. CASE SaveCreds(p)         BY <1>2, <2>13 DEF SaveCreds
  <2>14. CASE SaveFails(p)         BY <1>2, <2>14 DEF SaveFails
  <2>15. CASE CheckBearer(p)       BY <1>2, <2>15 DEF CheckBearer
  <2>16. CASE UsageAnswered(p)     BY <1>1, <1>2, <2>16, PlainOutcomes DEF UsageAnswered
  <2>17. CASE UsageFails(p)        BY <1>2, <2>17 DEF UsageFails
  <2>18. CASE UsageLost(p)         BY <1>2, <2>18 DEF UsageLost
  <2>19. CASE RunFileOp(p)         BY <1>2, <2>19 DEF RunFileOp
  <2>20. CASE ReturnFresh(p)
    <3>1. creds[p] \in Blobs
      BY <2>20 DEF ReturnFresh, LocalInv, CredsKnown, Holding
    <3>2. Fresh(creds[p].login) \in Outcomes /\ Fresh(creds[p].login).kind = "fresh"
      BY <3>1, BlobFields, PlainOutcomes
    <3> QED BY <1>1, <2>20, <3>2 DEF ReturnFresh
  <2>21. CASE ReturnFallback(p)
    <3> DEFINE lastError == IF pc[p] = "fail" THEN code[p] ELSE NoError
               outcome == Fallback(cache, lastError)
    <3>1. cache \in Dirs /\ lastError \in Codes \cup {NoError}
      OBVIOUS
    <3>2. /\ outcome \in Outcomes
          /\ outcome.kind = "cached" => outcome.stale /\ outcome.read <= MaxStale
      BY <3>1, FallbackType
    <3> HIDE DEF lastError, outcome
    <3>3. Return(p, outcome)
      BY <2>21, Zenon DEF ReturnFallback, lastError, outcome
    <3> QED BY <1>1, <3>2, <3>3
  <2>22. CASE ServerGrants(p)      BY <1>2, <2>22 DEF ServerGrants
  <2>23. CASE Crash(p)             BY <1>1, <2>23, PlainOutcomes DEF Crash
  <2> QED BY <1>3, <2>1, <2>2, <2>3, <2>4, <2>5, <2>6, <2>7, <2>8, <2>9, <2>10, <2>11,
             <2>12, <2>13, <2>14, <2>15, <2>16, <2>17, <2>18, <2>19, <2>20, <2>21,
             <2>22, <2>23 DEF Step
<1>4. CASE StrayGrant              BY <1>2, <1>4 DEF StrayGrant, locals
<1>5. CASE Tick                    BY <1>2, <1>5 DEF Tick, locals
<1>6. CASE TokenExpires            BY <1>2, <1>6 DEF TokenExpires, locals
<1>7. CASE UNCHANGED vars          BY <1>2, <1>7 DEF vars
<1> QED BY <1>3, <1>4, <1>5, <1>6, <1>7 DEF Next

(***************************************************************************)
(* Neither a fallback nor an armed backoff shows a figure past MAX_STALE,  *)
(* and a wire-only read never passes a cached figure off as its own.       *)
(***************************************************************************)
THEOREM OutcomesAreHonest == Spec => []HonestOutcome
<1>1. Init => HonestOutcome
  BY InitLocals DEF HonestOutcome, NothingTooOldIsShown, WireOnlyIsFlagged
<1> QED BY <1>1, TypesAlways, OutStep, PTL DEF Spec

-----------------------------------------------------------------------------
(***************************************************************************)
(* A grant is asked for, or answered, only with a refresh token there is,  *)
(* while the slot has one too.                                             *)
(***************************************************************************)
SpendInv == \A p \in Procs : wire[p] # "none" => creds[p].rt # 0 /\ slot.rt # 0

Sound == /\ TypeInv
         /\ CacheLockExclusive
         /\ SlotInv
         /\ TokenOnDiskIsLive
         /\ SpendInv

(***************************************************************************)
(* While a process holds the lock nobody else has a grant under way.       *)
(***************************************************************************)
LEMMA OthersAreQuiet ==
  ASSUME TypeInv, CacheLockExclusive, NEW p \in Procs, pc[p] \in Holding
  PROVE  \A q \in Procs \ {p} : wire[q] = "none"
BY DEF CacheLockExclusive, TypeInv, TypeOK, LocalInv, WireState, Holding

(***************************************************************************)
(* The sender, and its copy, agree with the slot.                          *)
(***************************************************************************)
LEMMA SenderHolds ==
  ASSUME Sound, NEW p \in Procs, wire[p] # "none"
  PROVE  /\ pc[p] \in {"grant", "save"}
         /\ \A q \in Procs \ {p} : wire[q] = "none"
         /\ slot \in Blobs /\ creds[p].login = slot.login
         /\ slot.rt # 0 /\ creds[p].rt # 0
<1>1. pc[p] \in {"grant", "save"}
  BY DEF Sound, TypeInv, TypeOK, LocalInv, WireState
<1>2. \A q \in Procs \ {p} : wire[q] = "none"
  BY <1>1, OthersAreQuiet DEF Sound, Holding
<1>3. slot \in Blobs /\ creds[p].login = slot.login
  BY <1>1 DEF Sound, SlotInv, SlotState
<1> QED BY <1>1, <1>2, <1>3 DEF Sound, SpendInv

LEMMA SpendStep ==
  Sound /\ TypeInv' /\ [Next]_vars => SpendInv'
<1> SUFFICES ASSUME Sound, TypeInv', [Next]_vars PROVE SpendInv'
  OBVIOUS
<1> USE DEF Sound, TypeInv, TypeOK, SpendInv
<1>1. ASSUME NEW p \in Procs, NEW outcome, Return(p, outcome), UNCHANGED slot
      PROVE  SpendInv'
  BY <1>1 DEF Return
<1>2. ASSUME UNCHANGED <<slot, creds, wire>> PROVE SpendInv'
  BY <1>2
<1>3. ASSUME NEW p \in Procs, UNCHANGED <<slot, creds>>, wire' = [wire EXCEPT ![p] = "none"]
      PROVE  SpendInv'
  BY <1>3
<1>4. ASSUME NEW p \in Procs, Start(p) \/ Step(p) \/ ServerGrants(p) \/ Crash(p)
      PROVE  SpendInv'
  <2> USE DEF locals, files, server
  <2>1. CASE Start(p)              BY <1>2, <2>1 DEF Start
  <2>2. CASE TakeLock(p)           BY <1>2, <2>2 DEF TakeLock
  <2>3. CASE LockTimeout(p)        BY <1>1, <2>3 DEF LockTimeout
  <2>4. CASE TakeCredLock(p)       BY <1>2, <2>4 DEF TakeCredLock
  <2>5. CASE ResolveCreds(p)
    <3>1. CASE slot = Unreadable   BY <1>1, <2>5, <3>1 DEF ResolveCreds
    <3>2. CASE slot # Unreadable
      <4>1. /\ wire[p] = "none" /\ wire' = wire /\ slot' = slot
            /\ creds' = [creds EXCEPT ![p] = slot]
        BY <2>5, <3>2 DEF ResolveCreds, LocalInv, WireState
      <4> QED BY <4>1
    <3> QED BY <3>1, <3>2
  <2>6. CASE LookInCache(p)        BY <1>1, <1>2, <2>6 DEF LookInCache
  <2>7. CASE ReuseCache(p)         BY <1>1, <2>7 DEF ReuseCache
  <2>8. CASE DecideRefresh(p)
    <3>1. creds[p].rt = slot.rt /\ UNCHANGED <<slot, creds>>
      BY <2>8 DEF DecideRefresh, SlotInv, SlotState
    <3> QED BY <2>8, <3>1 DEF DecideRefresh, CanRefresh
  <2>9. CASE ErrorCleared(p)       BY <1>2, <2>9 DEF ErrorCleared
  <2>10. CASE Granted(p)
    <3>1. creds[p] \in Blobs
      BY <2>10 DEF Granted, LocalInv, CredsKnown, Holding
    <3>2. issued[creds[p].login] # 0
      BY <3>1, BlobFields
    <3>3. NewToken(p) # 0
      BY <2>10, <3>2 DEF Granted, NewToken
    <3>4. creds'[p].rt = NewToken(p) /\ wire' = wire /\ slot' = slot
      BY <2>10 DEF Granted, Refreshed
    <3>5. \A q \in Procs \ {p} : creds'[q] = creds[q]
      BY <2>10 DEF Granted
    <3> QED BY <2>10, <3>3, <3>4, <3>5 DEF Granted
  <2>11. CASE RefreshRefused(p)    BY <1>3, <2>11 DEF RefreshRefused
  <2>12. CASE RefreshLost(p)       BY <1>3, <2>12 DEF RefreshLost
  <2>13. CASE SaveCreds(p)
    <3>1. \A q \in Procs \ {p} : wire[q] = "none"
      BY <2>13, OthersAreQuiet DEF SaveCreds, Holding
    <3> QED BY <2>13, <3>1 DEF SaveCreds
  <2>14. CASE SaveFails(p)         BY <1>3, <2>14 DEF SaveFails
  <2>15. CASE CheckBearer(p)       BY <1>2, <2>15 DEF CheckBearer
  <2>16. CASE UsageAnswered(p)     BY <1>1, <1>2, <2>16 DEF UsageAnswered
  <2>17. CASE UsageFails(p)        BY <1>2, <2>17 DEF UsageFails
  <2>18. CASE UsageLost(p)         BY <1>2, <2>18 DEF UsageLost
  <2>19. CASE RunFileOp(p)         BY <1>2, <2>19 DEF RunFileOp
  <2>20. CASE ReturnFresh(p)       BY <1>1, <2>20 DEF ReturnFresh
  <2>21. CASE ReturnFallback(p)    BY <1>1, <2>21 DEF ReturnFallback
  <2>22. CASE ServerGrants(p)      BY <2>22 DEF ServerGrants
  <2>23. CASE Crash(p)             BY <1>1, <2>23 DEF Crash
  <2> QED BY <1>4, <2>1, <2>2, <2>3, <2>4, <2>5, <2>6, <2>7, <2>8, <2>9, <2>10, <2>11,
             <2>12, <2>13, <2>14, <2>15, <2>16, <2>17, <2>18, <2>19, <2>20, <2>21,
             <2>22, <2>23 DEF Step
<1>5. CASE StrayGrant              BY <1>2, <1>5 DEF StrayGrant, locals, files
<1>6. CASE Tick                    BY <1>2, <1>6 DEF Tick, locals
<1>7. CASE TokenExpires
  <2>1. slot'.rt = slot.rt
    BY <1>7 DEF TokenExpires, Blobs
  <2> QED BY <1>7, <2>1 DEF TokenExpires, locals
<1>8. CASE UNCHANGED vars          BY <1>2, <1>8 DEF vars
<1> QED BY <1>4, <1>5, <1>6, <1>7, <1>8 DEF Next

LEMMA SoundAlways == Spec => []Sound
<1>1. Init => SpendInv
  BY InitLocals DEF SpendInv
<1>2. Spec => []SpendInv
  <2>1. /\ TypeInv /\ CacheLockExclusive /\ SlotInv /\ TokenOnDiskIsLive /\ SpendInv
        /\ TypeInv' /\ [Next]_vars
        => SpendInv'
    BY SpendStep DEF Sound
  <2> QED BY <1>1, <2>1, TypesAlways, LockIsExclusive, SlotAlways,
             RefreshKeepsTheTokenLive, PTL DEF Spec
<1>3. TypeInv /\ CacheLockExclusive /\ SlotInv /\ TokenOnDiskIsLive /\ SpendInv => Sound
  BY DEF Sound
<1> QED BY <1>2, <1>3, TypesAlways, LockIsExclusive, SlotAlways,
           RefreshKeepsTheTokenLive, PTL

-----------------------------------------------------------------------------
(* The abstract state, and the steps that change it. *)

Stored == IF HasToken THEN slot.rt ELSE 0
Accepted == IF HasToken THEN issued[slot.login] ELSE 0
Asked == {creds[p].rt : p \in Sending}
InFlight == \E p \in Procs : wire[p] = "rotated"
NoLogin == lost \/ ~HasToken

LEMMA RotationInit == Init => Rotation!Init
<1> SUFFICES ASSUME Init PROVE Rotation!Init
  OBVIOUS
<1>1. /\ slot \in {Unreadable} \cup
           [login : Logins, access : {"present", "blank"}, expiring : BOOLEAN, rt : {0, 1}]
      /\ issued = [login \in Logins |-> 1]
      /\ lost = FALSE
  BY Zenon DEF Init
<1>2. Asked = {} /\ ~InFlight
  BY InitLocals DEF Asked, Sending, InFlight
<1>3. Stored \in Nat /\ Accepted \in Nat /\ (HasToken => Stored = Accepted)
  BY <1>1 DEF Stored, Accepted, HasToken
<1> QED BY <1>1, <1>2, <1>3 DEF Rotation!Init, Stored, Accepted, Asked, InFlight, HasToken

(***************************************************************************)
(* A step that leaves what is sent, and what is in flight, as it was.      *)
(***************************************************************************)
LEMMA QuietMaps ==
  ASSUME Stored' = Stored, Accepted' = Accepted, NoLogin' = NoLogin,
         \A p \in Procs : /\ wire'[p] = "sent" <=> wire[p] = "sent"
                          /\ wire'[p] = "rotated" <=> wire[p] = "rotated"
                          /\ wire[p] = "sent" => creds'[p].rt = creds[p].rt
  PROVE  [Rotation!Next]_Rotation!vars
<1>1. Sending' = Sending
  BY DEF Sending
<1>2. Asked' = Asked
  BY <1>1 DEF Asked, Sending
<1>3. InFlight' = InFlight
  BY DEF InFlight
<1> QED BY <1>2, <1>3 DEF Rotation!vars, Stored, Accepted, Asked, InFlight, NoLogin

LEMMA SlotSame ==
  ASSUME UNCHANGED <<slot, issued>>
  PROVE  Stored' = Stored /\ Accepted' = Accepted /\ HasToken' = HasToken
BY DEF Stored, Accepted, HasToken

LEMMA AskMaps ==
  ASSUME Sound, NEW p \in Procs, DecideRefresh(p)
  PROVE  [Rotation!Next]_Rotation!vars
<1> USE DEF Sound, TypeInv, TypeOK
<1>1. /\ pc[p] = "token" /\ UNCHANGED <<slot, issued, lost, creds>>
      /\ Stored' = Stored /\ Accepted' = Accepted /\ HasToken' = HasToken
  BY SlotSame DEF DecideRefresh, files, server
<1>2. \A q \in Procs : wire[q] = "none"
  BY <1>1, OthersAreQuiet DEF Holding, LocalInv, WireState
<1>3. CASE wire' = wire
  BY <1>1, <1>3, QuietMaps DEF NoLogin
<1>4. CASE wire' = [wire EXCEPT ![p] = "sent"] /\ CanRefresh(creds[p])
  <2>1. slot \in Blobs /\ creds[p].rt = slot.rt
    BY <1>1 DEF SlotInv, SlotState
  <2>2. HasToken
    BY <1>4, <2>1, LoginAssumption DEF HasToken, CanRefresh, Unreadable, Blobs, NoPayload
  <2>3. Asked = {} /\ ~InFlight
    BY <1>2 DEF Asked, Sending, InFlight
  <2>4. Sending' = {p} /\ ~InFlight'
    BY <1>2, <1>4 DEF Sending, InFlight
  <2>5. Asked' = {Stored}
    BY <1>1, <2>1, <2>2, <2>4 DEF Asked, Stored
  <2>6. CASE lost
    BY <1>1, <2>6 DEF Rotation!Next, Rotation!Broken
  <2>7. CASE ~lost
    BY <1>1, <2>2, <2>3, <2>4, <2>5, <2>7
       DEF Rotation!Next, Rotation!Ask, Stored, Accepted, Asked, InFlight
  <2> QED BY <2>6, <2>7
<1> QED BY <1>3, <1>4 DEF DecideRefresh

LEMMA GrantMaps ==
  ASSUME Sound, NEW p \in Procs, ServerGrants(p)
  PROVE  [Rotation!Next]_Rotation!vars
<1> USE DEF Sound, TypeInv, TypeOK
<1>1. /\ wire[p] = "sent" /\ UNCHANGED <<slot, lost, creds>>
      /\ \E answer \in {"refused", "kept", "rotated"} : wire' = [wire EXCEPT ![p] = answer]
  BY DEF ServerGrants, files
<1>2. /\ pc[p] = "grant" /\ slot \in Blobs /\ creds[p].login = slot.login
      /\ slot.rt # 0 /\ creds[p].rt = slot.rt
      /\ \A q \in Procs \ {p} : wire[q] = "none"
  BY <1>1, SenderHolds DEF SlotInv, SlotState, LocalInv, WireState
<1>3. HasToken /\ HasToken'
  BY <1>1, <1>2, LoginAssumption DEF HasToken, Unreadable, Blobs, NoPayload
<1>4. /\ Sending = {p} /\ Asked = {slot.rt} /\ ~InFlight
      /\ Sending' = {} /\ Asked' = {}
  <2>1. Sending = {p} /\ Sending' = {} /\ ~InFlight
    BY <1>1, <1>2 DEF Sending, InFlight
  <2> QED BY <1>2, <2>1 DEF Asked
<1>5. CASE issued' = issued /\ wire'[p] # "rotated"
  <2>1. ~InFlight'
    BY <1>1, <1>2, <1>5 DEF InFlight
  <2>2. Stored' = Stored /\ Accepted' = Accepted /\ NoLogin' = NoLogin
    BY <1>1, <1>5, SlotSame DEF NoLogin
  <2> QED BY <1>4, <2>1, <2>2
          DEF Rotation!Next, Rotation!GiveUp, Stored, Accepted, Asked, InFlight, NoLogin
<1>6. CASE /\ creds[p].rt = issued[slot.login]
           /\ issued' = [issued EXCEPT ![slot.login] = @ + 1]
           /\ wire'[p] = "rotated"
  <2>1. InFlight'
    BY <1>6 DEF InFlight
  <2>2. /\ Stored' = Stored /\ Stored = slot.rt
        /\ Accepted = issued[slot.login] /\ Accepted' = Accepted + 1
    BY <1>1, <1>2, <1>3, <1>6, BlobFields DEF Stored, Accepted
  <2>3. CASE lost
    BY <1>1, <2>3 DEF Rotation!Next, Rotation!Broken
  <2>4. CASE ~lost
    BY <1>1, <1>2, <1>3, <1>4, <1>6, <2>1, <2>2, <2>4
       DEF Rotation!Next, Rotation!Exchange, Stored, Accepted, Asked, InFlight
  <2> QED BY <2>3, <2>4
<1>7. \/ issued' = issued /\ wire'[p] # "rotated"
      \/ /\ creds[p].rt = issued[slot.login]
         /\ issued' = [issued EXCEPT ![slot.login] = @ + 1]
         /\ wire'[p] = "rotated"
  BY <1>2 DEF ServerGrants, Rotate
<1> QED BY <1>5, <1>6, <1>7

(***************************************************************************)
(* A process that stops waiting loses the token its answer brought.        *)
(***************************************************************************)
LEMMA AbandonMaps ==
  ASSUME Sound, NEW p \in Procs, UNCHANGED <<slot, issued>>,
         wire' = [wire EXCEPT ![p] = "none"],
         lost' = (lost \/ wire[p] = "rotated"),
         \A q \in Procs \ {p} : creds'[q] = creds[q]
  PROVE  [Rotation!Next]_Rotation!vars
<1> USE DEF Sound, TypeInv, TypeOK
<1>1. Stored' = Stored /\ Accepted' = Accepted /\ HasToken' = HasToken
  BY SlotSame
<1>2. CASE wire[p] = "none"
  BY <1>1, <1>2, QuietMaps DEF NoLogin
<1>3. CASE wire[p] # "none"
  <2>1. Sending' = {} /\ ~InFlight'
    BY <1>3, SenderHolds DEF Sending, InFlight
  <2>2. Asked' = {}
    BY <2>1 DEF Asked
  <2>3. CASE wire[p] = "rotated"
    BY <1>1, <2>1, <2>2, <2>3
       DEF Rotation!Next, Rotation!Lose, Stored, Accepted, Asked, InFlight
  <2>4. CASE wire[p] # "rotated"
    <3>1. ~InFlight /\ lost' = lost
      BY <1>3, <2>4, SenderHolds DEF InFlight
    <3> QED BY <1>1, <2>1, <2>2, <3>1
            DEF Rotation!Next, Rotation!GiveUp, Stored, Accepted, Asked, InFlight
  <2> QED BY <2>3, <2>4
<1> QED BY <1>2, <1>3

LEMMA SaveMaps ==
  ASSUME Sound, NEW p \in Procs, SaveCreds(p)
  PROVE  [Rotation!Next]_Rotation!vars
<1> USE DEF Sound, TypeInv, TypeOK
<1>1. /\ pc[p] = "save" /\ slot' = creds[p] /\ UNCHANGED <<issued, lost, creds>>
      /\ wire' = [wire EXCEPT ![p] = "none"] /\ wire[p] \in {"kept", "rotated"}
  BY DEF SaveCreds, server, LocalInv, WireState
<1>2. /\ creds[p] \in Blobs /\ slot \in Blobs /\ creds[p].login = slot.login
      /\ slot.rt # 0 /\ creds[p].rt # 0
      /\ \A q \in Procs \ {p} : wire[q] = "none"
  BY <1>1, SenderHolds DEF LocalInv, CredsKnown, Holding
<1>3. HasToken /\ HasToken'
  BY <1>1, <1>2, LoginAssumption DEF HasToken, Unreadable, Blobs, NoPayload
<1>4. Asked = {} /\ Asked' = {} /\ ~InFlight' /\ (InFlight <=> wire[p] = "rotated")
  <2>1. Sending = {} /\ Sending' = {} /\ ~InFlight' /\ (InFlight <=> wire[p] = "rotated")
    BY <1>1, <1>2 DEF Sending, InFlight
  <2> QED BY <2>1 DEF Asked
<1>5. Stored = slot.rt /\ Stored' = creds[p].rt /\ Accepted = issued[slot.login] /\ Accepted' = Accepted
  BY <1>1, <1>2, <1>3 DEF Stored, Accepted
<1>6. CASE wire[p] = "kept"
  <2>1. Stored' = Stored
    BY <1>1, <1>5, <1>6 DEF SlotInv, SlotState
  <2> QED BY <1>1, <1>3, <1>4, <1>5, <1>6, <2>1
          DEF Rotation!vars, Stored, Accepted, Asked, InFlight
<1>7. CASE wire[p] = "rotated" /\ lost
  BY <1>1, <1>7 DEF Rotation!Next, Rotation!Broken
<1>8. CASE wire[p] = "rotated" /\ ~lost
  <2>1. Stored' = Accepted
    BY <1>1, <1>2, <1>5, <1>8 DEF SlotInv, SlotState
  <2> QED BY <1>1, <1>3, <1>4, <1>5, <1>8, <2>1
          DEF Rotation!Next, Rotation!Store, Stored, Accepted, Asked, InFlight
<1> QED BY <1>1, <1>6, <1>7, <1>8

LEMMA StrayMaps ==
  ASSUME Sound, StrayGrant
  PROVE  [Rotation!Next]_Rotation!vars
<1> USE DEF Sound, TypeInv, TypeOK
<1>1. UNCHANGED <<slot, creds, wire>>
  BY DEF StrayGrant, files, locals
<1>2. Stored' = Stored /\ HasToken' = HasToken /\ Asked' = Asked /\ InFlight' = InFlight
  BY <1>1 DEF Stored, HasToken, Asked, Sending, InFlight
<1>3. CASE UNCHANGED <<issued, lost>>
  BY <1>1, <1>3, QuietMaps, SlotSame DEF NoLogin
<1>4. CASE lost' = TRUE /\ \E login \in Logins : issued' = [issued EXCEPT ![login] = @ + 1]
  <2>1. Accepted' = Accepted \/ Accepted' = Accepted + 1
    <3>1. CASE ~HasToken
      BY <1>2, <3>1 DEF Accepted
    <3>2. CASE HasToken
      <4>1. slot \in Blobs
        BY <3>2 DEF HasToken
      <4> QED BY <1>1, <1>2, <1>4, <3>2, <4>1, BlobFields DEF Accepted
    <3> QED BY <3>1, <3>2
  <2> QED BY <1>2, <1>4, <2>1
          DEF Rotation!Next, Rotation!Lose, Stored, Accepted, Asked, InFlight
<1> QED BY <1>3, <1>4 DEF StrayGrant, Rotate

LEMMA StepMaps == Sound /\ [Next]_vars => [Rotation!Next]_Rotation!vars
<1> SUFFICES ASSUME Sound, [Next]_vars PROVE [Rotation!Next]_Rotation!vars
  OBVIOUS
<1> USE DEF Sound, TypeInv, TypeOK
<1>0. ASSUME NEW p \in Procs, UNCHANGED <<slot, issued, lost, wire>>, wire[p] # "sent",
             \A q \in Procs \ {p} : creds'[q] = creds[q]
      PROVE  [Rotation!Next]_Rotation!vars
  <2>1. Stored' = Stored /\ Accepted' = Accepted /\ NoLogin' = NoLogin
    BY <1>0, SlotSame DEF NoLogin
  <2>2. \A q \in Procs : wire[q] = "sent" => creds'[q].rt = creds[q].rt
    BY <1>0
  <2> QED BY <1>0, <2>1, <2>2, QuietMaps
<1>1. ASSUME UNCHANGED <<slot, issued, lost, creds, wire>>
      PROVE  [Rotation!Next]_Rotation!vars
  BY <1>1, SlotSame, QuietMaps DEF NoLogin
<1>2. ASSUME NEW p \in Procs, NEW outcome, Return(p, outcome), UNCHANGED <<slot, issued, lost>>,
             pc[p] \notin {"grant", "save"}
      PROVE  [Rotation!Next]_Rotation!vars
  <2>1. wire[p] = "none"
    BY <1>2 DEF LocalInv, WireState
  <2> QED BY <1>2, <2>1, AbandonMaps DEF Return
<1>3. ASSUME NEW p \in Procs, Start(p) \/ Step(p) \/ ServerGrants(p) \/ Crash(p)
      PROVE  [Rotation!Next]_Rotation!vars
  <2> USE DEF locals, files, server
  <2>1. CASE Start(p)              BY <1>1, <2>1 DEF Start
  <2>2. CASE TakeLock(p)           BY <1>1, <2>2 DEF TakeLock
  <2>3. CASE LockTimeout(p)        BY <1>2, <2>3 DEF LockTimeout
  <2>4. CASE TakeCredLock(p)       BY <1>1, <2>4 DEF TakeCredLock
  <2>5. CASE ResolveCreds(p)
    <3>1. CASE slot = Unreadable   BY <1>2, <2>5, <3>1 DEF ResolveCreds
    <3>2. CASE slot # Unreadable
      <4>1. /\ wire[p] = "none" /\ UNCHANGED <<slot, issued, lost, wire>>
            /\ \A q \in Procs \ {p} : creds'[q] = creds[q]
        BY <2>5, <3>2 DEF ResolveCreds, LocalInv, WireState
      <4> QED BY <1>0, <4>1
    <3> QED BY <3>1, <3>2
  <2>6. CASE LookInCache(p)        BY <1>1, <1>2, <2>6 DEF LookInCache
  <2>7. CASE ReuseCache(p)         BY <1>2, <2>7 DEF ReuseCache
  <2>8. CASE DecideRefresh(p)      BY <2>8, AskMaps
  <2>9. CASE ErrorCleared(p)       BY <1>1, <2>9 DEF ErrorCleared
  <2>10. CASE Granted(p)
    <3>1. /\ wire[p] \in {"kept", "rotated"} /\ UNCHANGED <<slot, issued, lost, wire>>
          /\ \A q \in Procs \ {p} : creds'[q] = creds[q]
      BY <2>10 DEF Granted
    <3> QED BY <1>0, <3>1
  <2>11. CASE RefreshRefused(p)    BY <2>11, AbandonMaps DEF RefreshRefused, Abandon
  <2>12. CASE RefreshLost(p)       BY <2>12, AbandonMaps DEF RefreshLost, Abandon
  <2>13. CASE SaveCreds(p)         BY <2>13, SaveMaps
  <2>14. CASE SaveFails(p)         BY <2>14, AbandonMaps DEF SaveFails, Abandon
  <2>15. CASE CheckBearer(p)       BY <1>1, <2>15 DEF CheckBearer
  <2>16. CASE UsageAnswered(p)     BY <1>1, <1>2, <2>16 DEF UsageAnswered
  <2>17. CASE UsageFails(p)        BY <1>1, <2>17 DEF UsageFails
  <2>18. CASE UsageLost(p)         BY <1>1, <2>18 DEF UsageLost
  <2>19. CASE RunFileOp(p)         BY <1>1, <2>19 DEF RunFileOp
  <2>20. CASE ReturnFresh(p)       BY <1>2, <2>20 DEF ReturnFresh
  <2>21. CASE ReturnFallback(p)    BY <1>2, <2>21 DEF ReturnFallback
  <2>22. CASE ServerGrants(p)      BY <2>22, GrantMaps
  <2>23. CASE Crash(p)             BY <2>23, AbandonMaps DEF Crash, Abandon, Return
  <2> QED BY <1>3, <2>1, <2>2, <2>3, <2>4, <2>5, <2>6, <2>7, <2>8, <2>9, <2>10, <2>11,
             <2>12, <2>13, <2>14, <2>15, <2>16, <2>17, <2>18, <2>19, <2>20, <2>21,
             <2>22, <2>23 DEF Step
<1>4. CASE StrayGrant              BY <1>4, StrayMaps
<1>5. CASE Tick                    BY <1>1, <1>5 DEF Tick, locals, server
<1>6. CASE TokenExpires
  <2>1. /\ slot \in Blobs /\ slot' \in Blobs /\ slot # Unreadable /\ slot' # Unreadable
        /\ slot'.login = slot.login /\ slot'.rt = slot.rt
    <3>1. /\ slot \in Blobs /\ slot # Unreadable
          /\ slot' = [slot EXCEPT !.expiring = TRUE]
      BY <1>6 DEF TokenExpires
    <3>2. slot' \in Blobs /\ slot'.login = slot.login /\ slot'.rt = slot.rt
      BY <3>1 DEF Blobs
    <3> QED BY <3>1, <3>2, LoginAssumption DEF Unreadable, Blobs, NoPayload
  <2>2. Stored' = Stored /\ Accepted' = Accepted /\ NoLogin' = NoLogin
    BY <1>6, <2>1 DEF TokenExpires, server, Stored, Accepted, NoLogin, HasToken
  <2> QED BY <1>6, <2>2, QuietMaps DEF TokenExpires, locals
<1>7. CASE UNCHANGED vars          BY <1>1, <1>7 DEF vars
<1> QED BY <1>3, <1>4, <1>5, <1>6, <1>7 DEF Next

(***************************************************************************)
(* The Claude fetch rotates the shared login as the provider asks, for any *)
(* number of processes: whatever times out, is refused, fails to be        *)
(* written or dies, only the stored token is sent, by one at a time, and   *)
(* the new one is stored before anyone asks again.                         *)
(***************************************************************************)
THEOREM FetchImplementsRotation == Spec => RotatesInTurn
BY RotationInit, StepMaps, SoundAlways, PTL DEF Spec, RotatesInTurn, Rotation!Spec

-----------------------------------------------------------------------------
(* What the abstract rotation is for, and so what the fetch has of it. *)

RotationInv ==
  /\ Rotation!NeverBehind
  /\ Rotation!OnlyTheStored
  /\ lost \/ ~HasToken \/ (\A p \in Procs : wire[p] # "rotated")
       \/ {creds[p].rt : p \in Sending} = {}

(***************************************************************************)
(* Whatever rotates in turn never falls behind the provider, but for the   *)
(* time of a write, and never sends another token than the stored one.     *)
(***************************************************************************)
LEMMA RotationKeepsUp ==
  RotatesInTurn => [](Rotation!NeverBehind /\ Rotation!OnlyTheStored)
<1>1. Rotation!Init => RotationInv
  BY DEF Rotation!Init, RotationInv, Rotation!NeverBehind, Rotation!OnlyTheStored
<1>2. RotationInv /\ [Rotation!Next]_Rotation!vars => RotationInv'
  BY DEF RotationInv, Rotation!NeverBehind, Rotation!OnlyTheStored, Rotation!Next, Rotation!vars,
         Rotation!Ask, Rotation!Exchange, Rotation!GiveUp, Rotation!Store, Rotation!Replace,
         Rotation!Lose, Rotation!Broken
<1>3. RotationInv => Rotation!NeverBehind /\ Rotation!OnlyTheStored
  BY DEF RotationInv
<1> QED BY <1>1, <1>2, <1>3, PTL DEF RotatesInTurn, Rotation!Spec

(***************************************************************************)
(* Unless a token was lost, or the slot holds no login that can be         *)
(* refreshed, the token in the Claude login file is the one the server     *)
(* accepts or the new one is about to be written, and no process sends     *)
(* another than the one in the file.                                       *)
(***************************************************************************)
THEOREM FetchKeepsUp == Spec => [](Rotation!NeverBehind /\ Rotation!OnlyTheStored)
BY FetchImplementsRotation, RotationKeepsUp, PTL

-----------------------------------------------------------------------------
(* The history a Claude Desktop switch carries along (DesktopHistory). *)

(***************************************************************************)
(* A finite set of numbers has a largest.                                  *)
(***************************************************************************)
LEMMA LargestIsIn ==
  ASSUME NEW n \in Nat, NEW S \in SUBSET (0 .. n), S # {}
  PROVE  Max(S) \in S /\ \A y \in S : Max(S) >= y
<1> DEFINE R == StrictSubsetOrdering(0 .. n)
           T == {x .. n : x \in S}
<1>1. IsWellFoundedOn(R, FiniteSubsetsOf(0 .. n))
  BY FS_StrictSubsetOrderingWellFounded
<1>2. FiniteSubsetsOf(0 .. n) = SUBSET (0 .. n)
  <2>1. IsFiniteSet(0 .. n)
    BY FS_Interval
  <2> QED BY <2>1, FS_FiniteSubsetsOfFinite
<1>3. T \subseteq SUBSET (0 .. n)
  <2>1. \A x \in S : x .. n \in SUBSET (0 .. n)
    OBVIOUS
  <2> QED BY <2>1
<1>4. T # {} /\ T \subseteq FiniteSubsetsOf(0 .. n)
  <2>1. T # {}
    OBVIOUS
  <2> QED BY <1>2, <1>3, <2>1
<1>5. PICK U \in T : \A V \in T : <<V, U>> \notin R
  <2> HIDE DEF R, T
  <2> QED BY <1>1, <1>4, WFMin
<1>6. PICK x \in S : U = x .. n
  OBVIOUS
<1>7. ASSUME NEW y \in S, y > x PROVE FALSE
  <2>1. y .. n \in T /\ y .. n \subseteq U /\ x \in U /\ x \notin y .. n
    BY <1>6, <1>7
  <2>2. <<y .. n, U>> \in R
    BY <2>1, <1>6, <1>2 DEF StrictSubsetOrdering
  <2> QED BY <1>5, <2>1, <2>2
<1>8. \A y \in S : x >= y
  BY <1>7
<1> QED BY <1>8 DEF Max

(***************************************************************************)
(* The types, with every number one that an edit has had.                  *)
(***************************************************************************)
Phases == {"idle", "prompt", "chats", "registry", "sweep", "names", "ledger", "login"}
SoFar == [made : {1, 2}, name : 0 .. edits, rest : 0 .. edits] \cup {Absent}
Registries == [Owners -> [Routines -> SoFar]]
RowsSoFar == [tasks : [Routines -> SoFar \cup {Unknown}], canon : [Routines -> SoFar],
              chats : SUBSET Chats]
Ops == [pc : Phases, target : Owners, tasks : [Routines -> SoFar], resolved : SUBSET Routines,
        chats : [Chats -> 0 .. edits], doomed : SUBSET Items, old : Registries \cup {Absent}]

OpTypes ==
  /\ merge.pc \in Phases
  /\ merge.pc = "idle" => merge = NoMerge
  /\ merge.pc # "idle" => merge \in Ops
  /\ merge.pc \notin {"idle", "prompt"} => merge.old \in Registries

MergeTypes ==
  /\ edits \in Numbers
  /\ tasks \in Registries
  /\ chats \in [Owners -> [Chats -> 0 .. edits]]
  /\ synced \in [Owners -> RowsSoFar \cup {Absent}]
  /\ active \in Owners
  /\ OpTypes
  /\ latest \in [Routines -> SoFar]
  /\ deleted \subseteq Owners \X Items
  /\ gone \subseteq Items /\ conflicted \subseteq Routines /\ spoilt \subseteq Routines
  /\ setbacks \in 0 .. MaxSetbacks

LEMMA SoFarIs ==
  ASSUME HistoryAssumption, edits \in Numbers
  PROVE  /\ SoFar \subseteq Definitions
         /\ Absent \notin [made : {1, 2}, name : 0 .. edits, rest : 0 .. edits]
         /\ Unknown \notin SoFar
         /\ RowsSoFar \subseteq LedgerRows /\ Absent \notin RowsSoFar
<1>1. 0 .. edits \subseteq Numbers
  BY DEF HistoryAssumption, Numbers
<1>2. SoFar \subseteq Definitions
  BY <1>1 DEF SoFar, Definitions, Written
<1>3. Absent \notin [made : {1, 2}, name : 0 .. edits, rest : 0 .. edits] /\ Unknown \notin SoFar
  BY <1>1 DEF SoFar, HistoryAssumption, Written
<1>4. RowsSoFar \subseteq LedgerRows
  <2> SUFFICES ASSUME NEW w \in RowsSoFar PROVE w \in LedgerRows
    OBVIOUS
  <2>1. w = [tasks |-> w.tasks, canon |-> w.canon, chats |-> w.chats]
    BY DEF RowsSoFar
  <2>2. w.tasks \in [Routines -> Definitions \cup {Unknown}]
    BY <1>2 DEF RowsSoFar
  <2>3. w.canon \in [Routines -> Definitions] /\ w.chats \in SUBSET Chats
    BY <1>2 DEF RowsSoFar
  <2> QED BY <2>1, <2>2, <2>3 DEF LedgerRows
<1> QED BY <1>2, <1>3, <1>4 DEF HistoryAssumption

(***************************************************************************)
(* What was a definition before an edit is one after it.                   *)
(***************************************************************************)
LEMMA MoreNumbers ==
  ASSUME edits \in Nat, edits' \in Nat, edits <= edits'
  PROVE  /\ SoFar \subseteq SoFar' /\ Registries \subseteq Registries'
         /\ RowsSoFar \subseteq RowsSoFar' /\ Ops \subseteq Ops'
         /\ [Owners -> [Chats -> 0 .. edits]] \subseteq [Owners -> [Chats -> 0 .. edits']]
         /\ [Routines -> SoFar] \subseteq [Routines -> SoFar']
<1>1. 0 .. edits \subseteq 0 .. edits'
  OBVIOUS
<1>2. SoFar \subseteq SoFar'
  BY <1>1 DEF SoFar
<1>3. Registries \subseteq Registries' /\ [Routines -> SoFar] \subseteq [Routines -> SoFar']
  BY <1>2 DEF Registries
<1>4. [Owners -> [Chats -> 0 .. edits]] \subseteq [Owners -> [Chats -> 0 .. edits']]
  BY <1>1
<1>5. RowsSoFar \subseteq RowsSoFar'
  <2> SUFFICES ASSUME NEW w \in RowsSoFar PROVE w \in RowsSoFar'
    OBVIOUS
  <2>1. w = [tasks |-> w.tasks, canon |-> w.canon, chats |-> w.chats]
    BY DEF RowsSoFar
  <2>2. w.tasks \in [Routines -> SoFar' \cup {Unknown}]
    BY <1>2 DEF RowsSoFar
  <2>3. w.canon \in [Routines -> SoFar'] /\ w.chats \in SUBSET Chats
    BY <1>2 DEF RowsSoFar
  <2> QED BY <2>1, <2>2, <2>3 DEF RowsSoFar
<1>6. Ops \subseteq Ops'
  <2> SUFFICES ASSUME NEW w \in Ops PROVE w \in Ops'
    OBVIOUS
  <2>1. w = [pc |-> w.pc, target |-> w.target, tasks |-> w.tasks, resolved |-> w.resolved,
             chats |-> w.chats, doomed |-> w.doomed, old |-> w.old]
    BY DEF Ops
  <2>2. w.tasks \in [Routines -> SoFar'] /\ w.old \in Registries' \cup {Absent}
    BY <1>3 DEF Ops
  <2>3. w.chats \in [Chats -> 0 .. edits']
    BY <1>1 DEF Ops
  <2>4. w.pc \in Phases /\ w.target \in Owners /\ w.resolved \in SUBSET Routines
        /\ w.doomed \in SUBSET Items
    BY DEF Ops
  <2> QED BY <2>1, <2>2, <2>3, <2>4 DEF Ops
<1> QED BY <1>2, <1>3, <1>4, <1>5, <1>6

(***************************************************************************)
(* What the helpers return.                                                *)
(***************************************************************************)
LEMMA NewestTurnType ==
  ASSUME MergeTypes, HistoryAssumption, NEW c \in Chats
  PROVE  /\ NewestTurn(c) \in 0 .. edits
         /\ (\A a \in Owners : chats[a][c] = 0) => NewestTurn(c) = 0
<1> DEFINE S == {chats[a][c] : a \in Owners}
<1>1. S \in SUBSET (0 .. edits) /\ S # {}
  BY DEF MergeTypes
<1>2. edits \in Nat
  BY DEF MergeTypes, Numbers, HistoryAssumption
<1>3. Max(S) \in S
  BY <1>1, <1>2, LargestIsIn
<1>4. NewestTurn(c) = Max(S)
  BY DEF NewestTurn
<1>5. Max(S) \in 0 .. edits
  BY <1>1, <1>3
<1>6. (\A a \in Owners : chats[a][c] = 0) => Max(S) = 0
  BY <1>3
<1> QED BY <1>4, <1>5, <1>6

LEMMA NamedType ==
  ASSUME MergeTypes, HistoryAssumption, merge.pc # "idle", NEW a \in Owners, NEW r \in Routines
  PROVE  /\ Named(a, r) \in SoFar
         /\ Named(a, r) = Absent <=> tasks[a][r] = Absent
<1>1. tasks[a][r] \in SoFar /\ merge.tasks[r] \in SoFar
  BY DEF MergeTypes, OpTypes, Registries, Ops
<1>2. CASE tasks[a][r] # Absent /\ merge.tasks[r] # Absent
  <2>1. [tasks[a][r] EXCEPT !.name = merge.tasks[r].name]
           \in [made : {1, 2}, name : 0 .. edits, rest : 0 .. edits]
    BY <1>1, <1>2 DEF SoFar
  <2>2. Named(a, r) = [tasks[a][r] EXCEPT !.name = merge.tasks[r].name]
    BY <1>2 DEF Named
  <2>3. Absent \notin [made : {1, 2}, name : 0 .. edits, rest : 0 .. edits]
    BY SoFarIs DEF MergeTypes
  <2> QED BY <1>2, <2>1, <2>2, <2>3 DEF SoFar
<1>3. CASE ~(tasks[a][r] # Absent /\ merge.tasks[r] # Absent)
  BY <1>1, <1>3 DEF Named
<1> QED BY <1>2, <1>3

LEMMA GoOps ==
  ASSUME merge \in Ops, NEW phase \in Phases, merge' = [merge EXCEPT !.pc = phase]
  PROVE  /\ merge' \in Ops /\ merge'.pc = phase
         /\ merge'.target = merge.target /\ merge'.tasks = merge.tasks /\ merge'.resolved = merge.resolved
         /\ merge'.chats = merge.chats /\ merge'.doomed = merge.doomed /\ merge'.old = merge.old
BY DEF Ops

(***************************************************************************)
(* A switch's steps, but the last, change nothing of it but its place.     *)
(***************************************************************************)
LEMMA GoTypes ==
  ASSUME OpTypes, merge.pc # "idle", merge.pc # "prompt", UNCHANGED edits,
         NEW phase \in Phases \ {"idle", "prompt"}, Proceed(phase)
  PROVE  /\ OpTypes' /\ merge'.pc = phase
         /\ merge'.target = merge.target /\ merge'.tasks = merge.tasks /\ merge'.resolved = merge.resolved
         /\ merge'.chats = merge.chats /\ merge'.doomed = merge.doomed /\ merge'.old = merge.old
<1>1. merge \in Ops /\ merge.old \in Registries
  BY DEF OpTypes
<1>2. merge' = [merge EXCEPT !.pc = phase]
  BY DEF Proceed
<1>3. /\ merge' \in Ops /\ merge'.pc = phase
      /\ merge'.target = merge.target /\ merge'.tasks = merge.tasks /\ merge'.resolved = merge.resolved
      /\ merge'.chats = merge.chats /\ merge'.doomed = merge.doomed /\ merge'.old = merge.old
  BY <1>1, <1>2, GoOps
<1>4. Ops' = Ops /\ Registries' = Registries
  BY DEF Ops, Registries, SoFar
<1> QED BY <1>1, <1>3, <1>4 DEF OpTypes

LEMMA SelectedIsIn ==
  ASSUME MergeTypes, HistoryAssumption, NEW t \in Owners, NEW r \in Routines,
         NEW d \in Selected(t, r)
  PROVE  d \in SoFar
<1>1. CopiesOf(r) \subseteq SoFar /\ ChangedCopies(r) \subseteq SoFar /\ NewestCopies(r) \subseteq SoFar
  BY DEF CopiesOf, ChangedCopies, NewestCopies, Holders, MergeTypes, Registries
<1>2. Canonical(r) \in SoFar
  <2> DEFINE recorded == {synced[a].canon[r] : a \in Rows}
  <2>1. recorded \subseteq SoFar
    BY DEF Rows, NoRow, MergeTypes, RowsSoFar
  <2>2. Cardinality(recorded) = 1 => recorded # {}
    <3> HIDE DEF recorded
    <3> QED BY FS_EmptySet
  <2>3. Canonical(r) = IF Cardinality(recorded) = 1 THEN CHOOSE e \in recorded : TRUE ELSE Absent
    BY DEF Canonical
  <2>4. recorded # {} => (CHOOSE e \in recorded : TRUE) \in recorded
    OBVIOUS
  <2>5. Absent \in SoFar
    BY DEF SoFar
  <2> HIDE DEF recorded
  <2>6. CASE Cardinality(recorded) = 1
    BY <2>1, <2>2, <2>3, <2>4, <2>6
  <2>7. CASE Cardinality(recorded) # 1
    BY <2>3, <2>5, <2>7
  <2> QED BY <2>6, <2>7
<1>3. Winners(r) \subseteq SoFar
  BY <1>1, <1>2 DEF Winners
<1>4. Absent \in SoFar /\ tasks[t][r] \in SoFar
  BY DEF SoFar, MergeTypes, Registries
<1> QED BY <1>1, <1>3, <1>4 DEF Selected

LEMMA TypesInit == HistoryAssumption /\ MergeInit => MergeTypes
<1> SUFFICES ASSUME HistoryAssumption, MergeInit PROVE MergeTypes
  OBVIOUS
<1>1. edits = 0 /\ 0 .. edits = {0} /\ edits \in Numbers
  BY DEF MergeInit, HistoryAssumption, Numbers
<1>2. SoFar = {Absent} \cup [made : {1, 2}, name : {0}, rest : {0}]
  BY <1>1 DEF SoFar
<1>3. tasks \in Registries
  BY <1>2 DEF MergeInit, Registries
<1>4. chats \in [Owners -> [Chats -> 0 .. edits]]
  BY <1>1 DEF MergeInit
<1>5. synced \in [Owners -> RowsSoFar \cup {Absent}]
  <2>1. CASE synced = [a \in Owners |-> NoRow]
    BY <2>1 DEF NoRow
  <2>2. CASE synced = [a \in Owners |->
          [tasks |-> [r \in Routines |-> IF tasks[a][r] = Absent THEN Absent ELSE Unknown],
           canon |-> [r \in Routines |-> Absent], chats |-> {}]]
    <3>1. ASSUME NEW a \in Owners
          PROVE  [tasks |-> [r \in Routines |-> IF tasks[a][r] = Absent THEN Absent ELSE Unknown],
                  canon |-> [r \in Routines |-> Absent], chats |-> {}] \in RowsSoFar
      <4>1. [r \in Routines |-> IF tasks[a][r] = Absent THEN Absent ELSE Unknown]
              \in [Routines -> SoFar \cup {Unknown}]
        BY <1>2
      <4>2. [r \in Routines |-> Absent] \in [Routines -> SoFar]
        BY <1>2
      <4> QED BY <4>1, <4>2 DEF RowsSoFar
    <3> QED BY <2>2, <3>1
  <2> QED BY <2>1, <2>2 DEF MergeInit
<1>6. merge.pc = "idle" /\ merge = NoMerge
  BY DEF MergeInit, NoMerge
<1>7. latest \in [Routines -> SoFar]
  BY <1>2 DEF MergeInit
<1>8. OpTypes
  BY <1>6 DEF OpTypes, Phases
<1>9. setbacks \in 0 .. MaxSetbacks
  BY DEF MergeInit, HistoryAssumption
<1> QED BY <1>1, <1>3, <1>4, <1>5, <1>7, <1>8, <1>9 DEF MergeTypes, MergeInit

LEMMA OpStays ==
  ASSUME OpTypes, edits \in Nat, edits' \in Nat, edits <= edits', UNCHANGED merge
  PROVE  OpTypes'
<1>1. Ops \subseteq Ops' /\ Registries \subseteq Registries'
  BY MoreNumbers
<1>2. NoMerge' = NoMerge /\ Phases' = Phases
  OBVIOUS
<1> QED BY <1>1, <1>2 DEF OpTypes

(***************************************************************************)
(* What the user does: routines, chats and deletions.                      *)
(***************************************************************************)
LEMMA UserTypes ==
  ASSUME HistoryAssumption, MergeTypes, EditRoutine \/ TakeTurn \/ Delete \/ SignIn
  PROVE  MergeTypes'
<1>0. /\ edits \in Nat /\ MaxEdits \in Nat
      /\ tasks \in Registries
      /\ chats \in [Owners -> [Chats -> 0 .. edits]]
      /\ synced \in [Owners -> RowsSoFar \cup {Absent}]
      /\ active \in Owners
      /\ OpTypes
      /\ latest \in [Routines -> SoFar]
  BY DEF MergeTypes, HistoryAssumption, Numbers
<1>1. CASE EditRoutine
  <2>1. edits' = edits + 1 /\ edits' \in Numbers /\ edits' \in Nat /\ edits <= edits'
    BY <1>0, <1>1 DEF EditRoutine, Numbers
  <2>2. OpTypes' /\ SoFar \subseteq SoFar' /\ Registries \subseteq Registries'
        /\ RowsSoFar \subseteq RowsSoFar'
        /\ [Owners -> [Chats -> 0 .. edits]] \subseteq [Owners -> [Chats -> 0 .. edits']]
        /\ [Routines -> SoFar] \subseteq [Routines -> SoFar']
    BY <1>0, <1>1, <2>1, OpStays, MoreNumbers DEF EditRoutine
  <2>3. PICK r \in Routines :
          /\ \/ tasks' = [tasks EXCEPT ![active][r] =
                            [made |-> 2, name |-> edits', rest |-> edits']]
             \/ /\ tasks[active][r] # Absent
                /\ \/ tasks' = [tasks EXCEPT ![active][r].name = edits']
                   \/ tasks' = [tasks EXCEPT ![active][r].rest = edits']
          /\ latest' = [latest EXCEPT ![r] = IF Recorded(r) THEN tasks'[active][r] ELSE Absent]
          /\ conflicted' = conflicted \ {r}
          /\ spoilt' = Unplanned(r)
    BY <1>1 DEF EditRoutine
  <2>4. tasks \in Registries' /\ latest \in [Routines -> SoFar'] /\ tasks[active][r] \in SoFar'
    BY <1>0, <2>2 DEF Registries
  <2>5. PICK d \in SoFar' : tasks' = [tasks EXCEPT ![active][r] = d]
    <3>1. [made |-> 2, name |-> edits', rest |-> edits'] \in SoFar'
      BY <2>1 DEF SoFar
    <3>2. tasks[active][r] # Absent =>
            /\ [tasks[active][r] EXCEPT !.name = edits'] \in SoFar'
            /\ [tasks[active][r] EXCEPT !.rest = edits'] \in SoFar'
      BY <2>1, <2>4 DEF SoFar
    <3>3. /\ tasks' = [tasks EXCEPT ![active][r].name = edits'] =>
               tasks' = [tasks EXCEPT ![active][r] = [tasks[active][r] EXCEPT !.name = edits']]
          /\ tasks' = [tasks EXCEPT ![active][r].rest = edits'] =>
               tasks' = [tasks EXCEPT ![active][r] = [tasks[active][r] EXCEPT !.rest = edits']]
      BY <2>4 DEF Registries
    <3> QED BY <2>3, <3>1, <3>2, <3>3
  <2>6. tasks' \in Registries' /\ tasks'[active][r] \in SoFar'
    BY <1>0, <2>4, <2>5 DEF Registries
  <2>7. latest' \in [Routines -> SoFar']
    <3>1. Absent \in SoFar'
      BY DEF SoFar
    <3> QED BY <2>3, <2>4, <2>6, <3>1
  <2>8. conflicted' \subseteq Routines /\ spoilt' \subseteq Routines
    BY <2>3 DEF Unplanned, MergeTypes
  <2>9. chats' \in [Owners -> [Chats -> 0 .. edits']]
        /\ synced' \in [Owners -> RowsSoFar' \cup {Absent}]
    BY <1>0, <1>1, <2>2 DEF EditRoutine
  <2> QED BY <1>1, <2>1, <2>2, <2>6, <2>7, <2>8, <2>9 DEF EditRoutine, MergeTypes
<1>2. CASE TakeTurn
  <2>1. edits' = edits + 1 /\ edits' \in Numbers /\ edits' \in Nat /\ edits <= edits'
    BY <1>0, <1>2 DEF TakeTurn, Numbers
  <2>2. OpTypes' /\ SoFar \subseteq SoFar' /\ Registries \subseteq Registries'
        /\ RowsSoFar \subseteq RowsSoFar'
        /\ [Owners -> [Chats -> 0 .. edits]] \subseteq [Owners -> [Chats -> 0 .. edits']]
        /\ [Routines -> SoFar] \subseteq [Routines -> SoFar']
    BY <1>0, <1>2, <2>1, OpStays, MoreNumbers DEF TakeTurn
  <2>3. chats' \in [Owners -> [Chats -> 0 .. edits']]
    <3>1. PICK c \in Chats : chats' = [chats EXCEPT ![active][c] = edits']
      BY <1>2 DEF TakeTurn
    <3>2. chats \in [Owners -> [Chats -> 0 .. edits']] /\ edits' \in 0 .. edits'
      BY <1>0, <2>1, <2>2
    <3> QED BY <1>0, <3>1, <3>2
  <2> QED BY <1>0, <1>2, <2>1, <2>2, <2>3 DEF TakeTurn, MergeTypes, asideVars
<1>3. CASE Delete
  <2>1. OpTypes' /\ SoFar' = SoFar /\ Registries' = Registries /\ RowsSoFar' = RowsSoFar
    BY <1>0, <1>3, OpStays DEF Delete, SoFar, Registries, RowsSoFar
  <2>2. Absent \in SoFar /\ 0 \in 0 .. edits
    BY <1>0 DEF SoFar
  <2>3. PICK x \in Items :
          /\ IF x \in Routines
             THEN /\ tasks' = [tasks EXCEPT ![active][x] = Absent]
                  /\ latest' = [latest EXCEPT ![x] = Absent]
                  /\ spoilt' = Unplanned(x)
                  /\ UNCHANGED chats
             ELSE /\ chats' = [chats EXCEPT ![active][x] = 0]
                  /\ UNCHANGED <<tasks, latest, spoilt>>
          /\ deleted' = deleted \cup {<<active, x>>}
    BY <1>3 DEF Delete
  <2>4. x \in Routines => /\ tasks' \in Registries /\ latest' \in [Routines -> SoFar]
                         /\ spoilt' \subseteq Routines /\ chats' = chats
    <3>1. SUFFICES ASSUME x \in Routines
                   PROVE  /\ tasks' \in Registries /\ latest' \in [Routines -> SoFar]
                          /\ spoilt' \subseteq Routines /\ chats' = chats
      OBVIOUS
    <3>2. /\ tasks' = [tasks EXCEPT ![active][x] = Absent]
          /\ latest' = [latest EXCEPT ![x] = Absent]
          /\ spoilt' = Unplanned(x)
          /\ chats' = chats
      BY <2>3, <3>1
    <3>3. tasks' \in Registries
      BY <1>0, <2>2, <3>1, <3>2 DEF Registries
    <3>4. spoilt' \subseteq Routines
      BY <3>1, <3>2 DEF Unplanned, MergeTypes
    <3> QED BY <1>0, <2>2, <3>1, <3>2, <3>3, <3>4
  <2>5. x \notin Routines =>
          /\ tasks' = tasks /\ latest' = latest /\ spoilt' = spoilt
          /\ chats' \in [Owners -> [Chats -> 0 .. edits]]
    BY <1>0, <2>2, <2>3 DEF Items
  <2>6. deleted' \subseteq Owners \X Items
    BY <1>0, <2>3 DEF MergeTypes
  <2>7. tasks' \in Registries /\ latest' \in [Routines -> SoFar] /\ spoilt' \subseteq Routines
        /\ chats' \in [Owners -> [Chats -> 0 .. edits]]
    BY <1>0, <2>4, <2>5 DEF MergeTypes
  <2> QED BY <1>3, <2>1, <2>6, <2>7 DEF Delete, MergeTypes
<1>4. CASE SignIn
  <2>1. OpTypes'
    BY <1>0, <1>4, OpStays DEF SignIn
  <2> QED BY <1>4, <2>1 DEF SignIn, MergeTypes, asideVars, Registries, SoFar, RowsSoFar
<1> QED BY <1>1, <1>2, <1>3, <1>4

(***************************************************************************)
(* The plan and what ends a switch.                                        *)
(***************************************************************************)
LEMMA EndTypes ==
  ASSUME HistoryAssumption, MergeTypes,
         Plan \/ Decline \/ Complete \/ Abort \/ CommandDies
  PROVE  MergeTypes'
<1>0. OpTypes /\ active \in Owners /\ spoilt \subseteq Routines /\ gone \subseteq Items
      /\ setbacks \in 0 .. MaxSetbacks /\ MaxSetbacks \in Nat
  BY DEF MergeTypes, HistoryAssumption
<1>1. UNCHANGED edits
  BY DEF Plan, Decline, Complete, Abort, CommandDies
<1>2. SoFar' = SoFar /\ Registries' = Registries /\ RowsSoFar' = RowsSoFar /\ Ops' = Ops
  BY <1>1 DEF SoFar, Registries, RowsSoFar, Ops
<1>3. NoMerge.pc = "idle"
  BY DEF NoMerge
<1>4. merge' = NoMerge => OpTypes'
  BY <1>3 DEF OpTypes, Phases
<1>5. CASE Plan
  <2>1. PICK t \in Owners, doomed \in SUBSET {c[2] : c \in Candidates},
          chosen \in [Routines -> UNION {CopiesOf(r) \cup {Canonical(r), Absent} : r \in Routines}] :
            /\ \A r \in Routines : chosen[r] \in Selected(t, r)
            /\ merge' = [pc |-> "prompt", target |-> t, tasks |-> chosen,
                 resolved |-> {r \in Routines : Holders(r) # {} /\ Resolved(r)},
                 chats |-> [c \in Chats |-> NewestTurn(c)], doomed |-> doomed, old |-> Absent]
    BY <1>5 DEF Plan
  <2>2. chosen \in [Routines -> SoFar]
    BY <2>1, SelectedIsIn
  <2>3. [c \in Chats |-> NewestTurn(c)] \in [Chats -> 0 .. edits]
    BY NewestTurnType
  <2>4. doomed \subseteq Items
    BY <2>1 DEF Candidates
  <2>5. merge' \in Ops /\ merge'.pc = "prompt"
    BY <2>1, <2>2, <2>3, <2>4 DEF Ops, Phases
  <2>6. OpTypes'
    BY <1>2, <2>5 DEF OpTypes, Phases
  <2> QED BY <1>2, <1>5, <2>6 DEF Plan, MergeTypes
<1>6. CASE Decline
  BY <1>2, <1>4, <1>6 DEF Decline, MergeTypes, asideVars
<1>7. CASE Complete
  <2>1. merge.target \in Owners
    BY <1>0, <1>7 DEF OpTypes, Ops, Complete
  <2> QED BY <1>2, <1>4, <1>7, <2>1 DEF Complete, MergeTypes, asideVars
<1>8. CASE Abort
  <2>1. merge.old \in Registries
    BY <1>0, <1>8 DEF OpTypes, Abort
  <2>2. spoilt' \subseteq Routines
    BY <1>0, <1>8 DEF Abort
  <2>3. gone' \subseteq Items /\ setbacks' \in 0 .. MaxSetbacks
    BY <1>0, <1>8 DEF Abort, Setback
  <2> QED BY <1>2, <1>4, <1>8, <2>1, <2>2, <2>3 DEF Abort, MergeTypes
<1>9. CASE CommandDies
  <2>1. active' \in Owners
    <3>1. merge.pc # "idle" => merge.target \in Owners
      BY <1>0 DEF OpTypes, Ops
    <3> QED BY <1>0, <1>9, <3>1 DEF CommandDies
  <2>2. spoilt' \subseteq Routines
    BY <1>0, <1>9 DEF CommandDies, TakenForEdited
  <2>3. setbacks' \in 0 .. MaxSetbacks
    BY <1>0, <1>9 DEF CommandDies, Setback
  <2> QED BY <1>2, <1>4, <1>9, <2>1, <2>2, <2>3 DEF CommandDies, MergeTypes
<1> QED BY <1>5, <1>6, <1>7, <1>8, <1>9

(***************************************************************************)
(* The steps while the application is stopped.                             *)
(***************************************************************************)
LEMMA StoppedTypes ==
  ASSUME HistoryAssumption, MergeTypes,
         \/ Stop \/ CopyChats \/ WriteRegistry \/ Sweep \/ ConvergeNames \/ SaveLedger
         \/ LedgerNotSaved
  PROVE  MergeTypes'
<1>0. /\ OpTypes /\ spoilt \subseteq Routines
      /\ tasks \in Registries
      /\ chats \in [Owners -> [Chats -> 0 .. edits]]
      /\ setbacks \in 0 .. MaxSetbacks /\ MaxSetbacks \in Nat /\ edits \in Nat
      /\ latest \in [Routines -> SoFar] /\ deleted \subseteq Owners \X Items
  BY DEF MergeTypes, HistoryAssumption, Numbers
<1>1. UNCHANGED edits
  BY DEF Stop, CopyChats, WriteRegistry, Sweep, ConvergeNames, SaveLedger, LedgerNotSaved
<1>2. SoFar' = SoFar /\ Registries' = Registries /\ RowsSoFar' = RowsSoFar /\ Ops' = Ops
  BY <1>1 DEF SoFar, Registries, RowsSoFar, Ops
<1>3. merge \in Ops /\ merge.pc # "idle"
  BY <1>0 DEF OpTypes, Stop, CopyChats, WriteRegistry, Sweep, ConvergeNames, SaveLedger, LedgerNotSaved
<1>4. /\ merge.target \in Owners /\ merge.tasks \in [Routines -> SoFar]
      /\ merge.chats \in [Chats -> 0 .. edits] /\ merge.doomed \subseteq Items
  BY <1>3 DEF Ops
<1>5. Absent \in SoFar /\ 0 \in 0 .. edits
  BY <1>0 DEF SoFar
<1>6. CASE Stop
  <2>1. merge' = [merge EXCEPT !.pc = "chats", !.old = tasks]
    BY <1>6 DEF Stop
  <2>2. merge' \in Ops /\ merge'.pc = "chats" /\ merge'.old = tasks
    BY <1>0, <1>3, <2>1 DEF Ops, Phases
  <2>3. OpTypes'
    BY <1>0, <1>2, <2>2 DEF OpTypes, Phases
  <2> QED BY <1>2, <1>6, <2>3 DEF Stop, MergeTypes, asideVars
<1>7. CASE CopyChats
  <2>1. OpTypes'
    BY <1>0, <1>1, <1>7, GoTypes DEF CopyChats, Phases
  <2>2. chats' \in [Owners -> [Chats -> 0 .. edits]]
    <3>1. [c \in Chats |-> IF merge.chats[c] > chats[merge.target][c] THEN merge.chats[c]
                           ELSE chats[merge.target][c]] \in [Chats -> 0 .. edits]
      BY <1>0, <1>4
    <3> QED BY <1>0, <1>4, <1>7, <3>1 DEF CopyChats
  <2>3. deleted' \subseteq Owners \X Items
    BY <1>0, <1>7 DEF CopyChats
  <2> QED BY <1>2, <1>7, <2>1, <2>2, <2>3 DEF CopyChats, MergeTypes
<1>8. CASE WriteRegistry
  <2>1. OpTypes'
    BY <1>0, <1>1, <1>8, GoTypes DEF WriteRegistry, Phases
  <2>2. tasks' \in Registries
    BY <1>0, <1>4, <1>8 DEF WriteRegistry, Registries
  <2>3. deleted' \subseteq Owners \X Items
    BY <1>0, <1>8 DEF WriteRegistry
  <2> QED BY <1>2, <1>8, <2>1, <2>2, <2>3 DEF WriteRegistry, MergeTypes
<1>9. CASE Sweep
  <2>1. OpTypes'
    BY <1>0, <1>1, <1>9, GoTypes DEF Sweep, Phases
  <2>2. PICK as \in SUBSET Owners : SweepFrom(as)
    BY <1>9 DEF Sweep
  <2>3. tasks' \in Registries
    BY <1>0, <1>5, <2>2 DEF SweepFrom, Registries
  <2>4. chats' \in [Owners -> [Chats -> 0 .. edits]]
    BY <1>0, <1>5, <2>2 DEF SweepFrom
  <2>5. deleted' \subseteq Owners \X Items /\ latest' \in [Routines -> SoFar]
    BY <1>0, <1>4, <1>5, <2>2 DEF SweepFrom
  <2>6. gone' \subseteq Items /\ setbacks' \in 0 .. MaxSetbacks
    BY <1>0, <1>4, <1>9 DEF Sweep, Setback, MergeTypes
  <2> QED BY <1>2, <1>9, <2>1, <2>3, <2>4, <2>5, <2>6 DEF Sweep, MergeTypes
<1>10. CASE ConvergeNames
  <2>1. OpTypes'
    BY <1>0, <1>1, <1>10, GoTypes DEF ConvergeNames, Phases
  <2>2. PICK as \in SUBSET Owners : NameIn(as)
    BY <1>10 DEF ConvergeNames
  <2>3. tasks' \in Registries
    <3>1. \A a \in Owners, r \in Routines : Named(a, r) \in SoFar /\ tasks[a][r] \in SoFar
      BY <1>0, <1>3, NamedType DEF Registries
    <3> QED BY <2>2, <3>1 DEF NameIn, Registries
  <2>4. setbacks' \in 0 .. MaxSetbacks
    BY <1>0, <1>10 DEF ConvergeNames, Setback
  <2> QED BY <1>2, <1>10, <2>1, <2>3, <2>4 DEF ConvergeNames, MergeTypes, asideVars
<1>11. CASE SaveLedger
  <2>1. OpTypes'
    BY <1>0, <1>1, <1>11, GoTypes DEF SaveLedger, Phases
  <2>2. ASSUME NEW a \in Owners PROVE Row(a) \in RowsSoFar
    <3>1. tasks[a] \in [Routines -> SoFar \cup {Unknown}]
      BY <1>0 DEF Registries
    <3>2. [r \in Routines |-> IF r \in merge.resolved \ merge.doomed /\ Holders(r) # {}
                              THEN merge.tasks[r] ELSE Absent] \in [Routines -> SoFar]
      BY <1>4, <1>5
    <3> QED BY <3>1, <3>2 DEF Row, RowsSoFar
  <2>3. synced' \in [Owners -> RowsSoFar \cup {Absent}]
    BY <1>11, <2>2 DEF SaveLedger
  <2> QED BY <1>2, <1>11, <2>1, <2>3 DEF SaveLedger, MergeTypes, asideVars
<1>12. CASE LedgerNotSaved
  <2>1. OpTypes'
    BY <1>0, <1>1, <1>12, GoTypes DEF LedgerNotSaved, Phases
  <2>2. spoilt' \subseteq Routines /\ setbacks' \in 0 .. MaxSetbacks
    BY <1>0, <1>12 DEF LedgerNotSaved, TakenForEdited, Setback
  <2> QED BY <1>2, <1>12, <2>1, <2>2 DEF LedgerNotSaved, MergeTypes
<1> QED BY <1>6, <1>7, <1>8, <1>9, <1>10, <1>11, <1>12

LEMMA TypesStep == HistoryAssumption /\ MergeTypes /\ [MergeNext]_mergeVars => MergeTypes'
<1> SUFFICES ASSUME HistoryAssumption, MergeTypes, [MergeNext]_mergeVars PROVE MergeTypes'
  OBVIOUS
<1>1. CASE UNCHANGED mergeVars
  BY <1>1 DEF mergeVars, asideVars, MergeTypes, OpTypes, SoFar, Registries, RowsSoFar, Ops
<1>2. CASE MergeNext
  BY <1>2, UserTypes, EndTypes, StoppedTypes DEF MergeNext
<1> QED BY <1>1, <1>2

-----------------------------------------------------------------------------
(* What each action does, account by account and item by item. *)

LEMMA EditIs ==
  ASSUME HistoryAssumption, MergeTypes, EditRoutine
  PROVE  \E r \in Routines :
           /\ New(r) \/ Holds(active, r)
           /\ tasks'[active][r] # Absent
           /\ tasks'[active][r] \in SoFar'
           /\ tasks'[active][r].name = edits + 1 \/ tasks'[active][r].rest = edits + 1
           /\ \A a \in Owners, q \in Routines :
                a # active \/ q # r => tasks'[a][q] = tasks[a][q]
           /\ latest' = [latest EXCEPT ![r] = IF Recorded(r) THEN tasks'[active][r] ELSE Absent]
           /\ conflicted' = conflicted \ {r}
           /\ spoilt' = Unplanned(r)
<1>0. /\ edits \in Nat /\ active \in Owners /\ tasks \in Registries
      /\ \A r \in Routines : tasks[active][r] \in SoFar
  BY DEF MergeTypes, HistoryAssumption, Numbers, Registries
<1>1. edits' = edits + 1 /\ edits' \in Nat /\ edits <= edits' /\ edits' \in Numbers
  BY <1>0 DEF EditRoutine, Numbers, HistoryAssumption
<1>2. PICK r \in Routines :
        /\ \/ /\ New(r)
              /\ tasks' = [tasks EXCEPT ![active][r] =
                             [made |-> 2, name |-> edits', rest |-> edits']]
           \/ /\ tasks[active][r] # Absent
              /\ \/ tasks' = [tasks EXCEPT ![active][r].name = edits']
                 \/ tasks' = [tasks EXCEPT ![active][r].rest = edits']
        /\ latest' = [latest EXCEPT ![r] = IF Recorded(r) THEN tasks'[active][r] ELSE Absent]
        /\ conflicted' = conflicted \ {r}
        /\ spoilt' = Unplanned(r)
  BY DEF EditRoutine
<1> DEFINE New2 == [made |-> 2, name |-> edits', rest |-> edits']
           Name2 == [tasks[active][r] EXCEPT !.name = edits']
           Rest2 == [tasks[active][r] EXCEPT !.rest = edits']
           Some2 == [made : {1, 2}, name : 0 .. edits', rest : 0 .. edits']
<1>3. tasks[active][r] # Absent => tasks[active][r] \in Some2
  <2>1. SoFar \subseteq SoFar'
    BY <1>0, <1>1, MoreNumbers
  <2> QED BY <1>0, <2>1 DEF SoFar
<1>4. New2 \in Some2 /\ New2.name = edits'
  BY <1>1
<1>5. tasks[active][r] # Absent => /\ Name2 \in Some2 /\ Name2.name = edits'
                                   /\ Rest2 \in Some2 /\ Rest2.rest = edits'
  BY <1>1, <1>3
<1>6. PICK d \in Some2 : /\ d.name = edits' \/ d.rest = edits'
                         /\ tasks' = [tasks EXCEPT ![active][r] = d]
                         /\ New(r) \/ tasks[active][r] # Absent
  <2>1. /\ tasks' = [tasks EXCEPT ![active][r].name = edits'] =>
             tasks' = [tasks EXCEPT ![active][r] = Name2]
        /\ tasks' = [tasks EXCEPT ![active][r].rest = edits'] =>
             tasks' = [tasks EXCEPT ![active][r] = Rest2]
    BY <1>0 DEF Registries
  <2>5. \/ New(r) /\ tasks' = [tasks EXCEPT ![active][r] = New2]
        \/ tasks[active][r] # Absent /\ tasks' = [tasks EXCEPT ![active][r].name = edits']
        \/ tasks[active][r] # Absent /\ tasks' = [tasks EXCEPT ![active][r].rest = edits']
    BY <1>2
  <2> HIDE DEF New2, Name2, Rest2, Some2
  <2>2. CASE New(r) /\ tasks' = [tasks EXCEPT ![active][r] = New2]
    BY <1>4, <2>2
  <2>3. CASE tasks[active][r] # Absent /\ tasks' = [tasks EXCEPT ![active][r].name = edits']
    BY <1>5, <2>1, <2>3
  <2>4. CASE tasks[active][r] # Absent /\ tasks' = [tasks EXCEPT ![active][r].rest = edits']
    BY <1>5, <2>1, <2>4
  <2> QED BY <2>2, <2>3, <2>4, <2>5
<1>7. tasks'[active][r] = d
      /\ \A a \in Owners, q \in Routines : a # active \/ q # r => tasks'[a][q] = tasks[a][q]
  BY <1>0, <1>6 DEF Registries
<1>8. d # Absent /\ d \in SoFar'
  <2>1. HistoryAssumption' /\ (edits \in Numbers)'
    BY <1>1 DEF HistoryAssumption, Numbers, Written, LedgerRows, Definitions
  <2>2. Absent \notin Some2
    BY <1>1, <2>1 DEF HistoryAssumption, Numbers, Written
  <2> QED BY <2>2 DEF SoFar
<1> QED BY <1>1, <1>2, <1>6, <1>7, <1>8 DEF Holds

LEMMA WriteIs ==
  ASSUME HistoryAssumption, MergeTypes, WriteRegistry
  PROVE  \A a \in Owners, r \in Routines :
           tasks'[a][r] = IF a = merge.target THEN merge.tasks[r] ELSE tasks[a][r]
<1>1. merge.target \in Owners /\ merge.tasks \in [Routines -> SoFar]
  BY DEF WriteRegistry, MergeTypes, OpTypes, Ops
<1> QED BY <1>1 DEF WriteRegistry, MergeTypes, Registries

LEMMA CopyIs ==
  ASSUME HistoryAssumption, MergeTypes, CopyChats
  PROVE  /\ merge.target \in Owners
         /\ \A a \in Owners, c \in Chats :
              /\ chats[a][c] # 0 => chats'[a][c] # 0
              /\ a = merge.target /\ merge.chats[c] # 0 => chats'[a][c] # 0
              /\ merge.chats[c] = 0 => chats'[a][c] = chats[a][c]
<1>1. merge.target \in Owners /\ merge.chats \in [Chats -> 0 .. edits]
  BY DEF CopyChats, MergeTypes, OpTypes, Ops
<1>2. chats \in [Owners -> [Chats -> 0 .. edits]]
  BY DEF MergeTypes
<1>3. \A a \in Owners, c \in Chats :
        chats'[a][c] = IF a = merge.target
                       THEN IF merge.chats[c] > chats[a][c] THEN merge.chats[c] ELSE chats[a][c]
                       ELSE chats[a][c]
  BY <1>1, <1>2 DEF CopyChats
<1>4. \A a \in Owners, c \in Chats : chats[a][c] \in 0 .. edits /\ merge.chats[c] \in 0 .. edits
  BY <1>1, <1>2
<1> QED BY <1>1, <1>3, <1>4

LEMMA NamesIs ==
  ASSUME HistoryAssumption, MergeTypes, ConvergeNames
  PROVE  \A a \in Owners, r \in Routines :
           /\ tasks'[a][r] \in {tasks[a][r], Named(a, r)}
           /\ tasks'[a][r] = Absent <=> tasks[a][r] = Absent
<1>1. PICK as \in SUBSET Owners : NameIn(as)
  BY DEF ConvergeNames
<1>2. \A a \in Owners, r \in Routines : Named(a, r) = Absent <=> tasks[a][r] = Absent
  BY NamedType DEF ConvergeNames
<1> QED BY <1>1, <1>2 DEF NameIn

LEMMA SweepIs ==
  ASSUME HistoryAssumption, MergeTypes, Sweep
  PROVE  \E as \in SUBSET Owners :
           /\ \A a \in Owners, r \in Routines :
                tasks'[a][r] = IF a \in as /\ r \in merge.doomed THEN Absent ELSE tasks[a][r]
           /\ \A a \in Owners, c \in Chats :
                chats'[a][c] = IF a \in as /\ c \in merge.doomed THEN 0 ELSE chats[a][c]
           /\ deleted' = deleted \cup (as \X merge.doomed)
           /\ \A r \in Routines : latest'[r] = IF r \in merge.doomed THEN Absent ELSE latest[r]
           /\ gone' = gone \/ (gone' = gone \cup merge.doomed /\ as = Owners)
           /\ merge.doomed \subseteq Items
<1>1. merge.doomed \subseteq Items
  BY DEF Sweep, MergeTypes, OpTypes, Ops
<1>2. PICK as \in SUBSET Owners :
        SweepFrom(as) /\ (gone' = gone \/ (gone' = gone \cup merge.doomed /\ as = Owners))
  BY DEF Sweep
<1> QED BY <1>1, <1>2 DEF SweepFrom

LEMMA DeleteIs ==
  ASSUME HistoryAssumption, MergeTypes, Delete
  PROVE  \E x \in Items :
           /\ \A a \in Owners, r \in Routines :
                tasks'[a][r] = IF a = active /\ r = x THEN Absent ELSE tasks[a][r]
           /\ \A a \in Owners, c \in Chats :
                chats'[a][c] = IF a = active /\ c = x THEN 0 ELSE chats[a][c]
           /\ deleted' = deleted \cup {<<active, x>>}
           /\ \A r \in Routines : latest'[r] = IF r = x THEN Absent ELSE latest[r]
           /\ spoilt \subseteq spoilt'
           /\ x \in Routines => spoilt' = Unplanned(x)
           /\ Holds(active, x)
<1>1. PICK x \in Items :
        /\ Holds(active, x)
        /\ IF x \in Routines
           THEN /\ tasks' = [tasks EXCEPT ![active][x] = Absent]
                /\ latest' = [latest EXCEPT ![x] = Absent]
                /\ spoilt' = Unplanned(x)
                /\ UNCHANGED chats
           ELSE /\ chats' = [chats EXCEPT ![active][x] = 0]
                /\ UNCHANGED <<tasks, latest, spoilt>>
        /\ deleted' = deleted \cup {<<active, x>>}
  BY DEF Delete
<1>2. tasks \in Registries /\ chats \in [Owners -> [Chats -> 0 .. edits]]
      /\ active \in Owners /\ latest \in [Routines -> SoFar] /\ Routines \cap Chats = {}
  BY DEF MergeTypes, HistoryAssumption
<1>3. CASE x \in Routines
  <2>1. \A a \in Owners, r \in Routines :
          tasks'[a][r] = IF a = active /\ r = x THEN Absent ELSE tasks[a][r]
    BY <1>1, <1>2, <1>3 DEF Registries
  <2>2. \A a \in Owners, c \in Chats :
          chats'[a][c] = IF a = active /\ c = x THEN 0 ELSE chats[a][c]
    BY <1>1, <1>2, <1>3
  <2>3. \A r \in Routines : latest'[r] = IF r = x THEN Absent ELSE latest[r]
    BY <1>1, <1>2, <1>3
  <2>4. spoilt \subseteq spoilt'
    BY <1>1, <1>3 DEF Unplanned
  <2> QED BY <1>1, <1>3, <2>1, <2>2, <2>3, <2>4
<1>4. CASE x \notin Routines
  <2>1. x \in Chats
    BY <1>4 DEF Items
  <2>2. \A a \in Owners, r \in Routines :
          tasks'[a][r] = IF a = active /\ r = x THEN Absent ELSE tasks[a][r]
    BY <1>1, <1>4
  <2>3. \A a \in Owners, c \in Chats :
          chats'[a][c] = IF a = active /\ c = x THEN 0 ELSE chats[a][c]
    BY <1>1, <1>2, <1>4, <2>1
  <2> QED BY <1>1, <1>4, <2>2, <2>3
<1> QED BY <1>3, <1>4

LEMMA TurnIs ==
  ASSUME HistoryAssumption, MergeTypes, TakeTurn
  PROVE  \E d \in Chats :
           /\ New(d) \/ Holds(active, d)
           /\ \A a \in Owners, c \in Chats :
                /\ a # active \/ c # d => chats'[a][c] = chats[a][c]
                /\ a = active /\ c = d => chats'[a][c] # 0
<1>1. PICK d \in Chats : /\ Holds(active, d) \/ New(d)
                         /\ chats' = [chats EXCEPT ![active][d] = edits']
  BY DEF TakeTurn
<1>2. edits' = edits + 1 /\ edits \in Nat /\ edits' # 0
  BY DEF TakeTurn, MergeTypes, Numbers, HistoryAssumption
<1> QED BY <1>1, <1>2 DEF MergeTypes

-----------------------------------------------------------------------------
(* Deletions: DeletionsAreTheUsers. *)

(***************************************************************************)
(* What the ledger lists and an account has no longer, the user deleted;   *)
(* a plan without a routine has not seen one that is in its target; the    *)
(* archive is what is there until something is replaced; and what is gone  *)
(* is gone from everywhere, and from the plan.                             *)
(***************************************************************************)
Accounted ==
  \A a \in Owners, x \in Items :
    synced[a] # NoRow /\ Listed(a, x) /\ ~Holds(a, x) => <<a, x>> \in deleted \/ x \in spoilt

PlannedAll ==
  merge.pc \in {"prompt", "chats", "registry"} =>
    \A r \in Routines : merge.tasks[r] = Absent /\ Holds(merge.target, r) => r \in spoilt

Archived == merge.pc \in {"chats", "registry"} => merge.old = tasks

GoneIsGone == \A x \in gone : Holders(x) = {} /\ \A a \in Owners : <<a, x>> \in deleted

NotPlannedAgain ==
  merge.pc \in {"prompt", "chats", "registry"} =>
    \A x \in gone : /\ x \in Routines => merge.tasks[x] = Absent
                    /\ x \in Chats => merge.chats[x] = 0

DeletionInv == Accounted /\ PlannedAll /\ Archived /\ GoneIsGone /\ NotPlannedAgain

LEMMA SelectedAbsent ==
  ASSUME HistoryAssumption, MergeTypes, NEW t \in Owners, NEW r \in Routines
  PROVE  /\ Absent \in Selected(t, r) => Holders(r) = {}
         /\ Holders(r) = {} => Selected(t, r) = {Absent}
<1>1. Absent \notin CopiesOf(r) /\ Absent \notin ChangedCopies(r) /\ Absent \notin NewestCopies(r)
  BY DEF CopiesOf, ChangedCopies, NewestCopies, Holders, Holds
<1>2. Absent \notin Winners(r)
  BY <1>1 DEF Winners
<1> QED BY <1>1, <1>2 DEF Selected, Holds

LEMMA HoldsSame ==
  ASSUME UNCHANGED <<tasks, chats>>
  PROVE  /\ \A a, x : Holds(a, x)' <=> Holds(a, x)
         /\ \A x : Holders(x)' = Holders(x)
BY DEF Holds, Holders

(***************************************************************************)
(* An edit or a turn takes nothing away.                                   *)
(***************************************************************************)
LEMMA EditHolds ==
  ASSUME HistoryAssumption, MergeTypes, EditRoutine \/ TakeTurn
  PROVE  /\ \A a \in Owners, x \in Items : Holds(a, x) => Holds(a, x)'
         /\ \A x \in gone : Holders(x) = {} /\ (\A a \in Owners : <<a, x>> \in deleted) =>
              Holders(x)' = {}
         /\ spoilt \subseteq spoilt' /\ deleted' = deleted /\ synced' = synced /\ gone' = gone
<1>0. active \in Owners /\ Routines \cap Chats = {} /\ Items = Routines \cup Chats
  BY DEF MergeTypes, HistoryAssumption, Items
<1>1. CASE EditRoutine
  <2>1. PICK r \in Routines :
           /\ New(r) \/ Holds(active, r)
           /\ tasks'[active][r] # Absent
           /\ \A a \in Owners, q \in Routines :
                a # active \/ q # r => tasks'[a][q] = tasks[a][q]
           /\ spoilt' = Unplanned(r)
    BY <1>1, EditIs
  <2>2. chats' = chats /\ deleted' = deleted /\ synced' = synced /\ gone' = gone
    BY <1>1 DEF EditRoutine
  <2>3. spoilt \subseteq spoilt'
    BY <2>1 DEF Unplanned
  <2>4. ASSUME NEW a \in Owners, NEW x \in Items, x # r \/ a # active
        PROVE  Holds(a, x)' <=> Holds(a, x)
    <3>1. CASE x \in Routines
      BY <2>1, <2>4, <3>1 DEF Holds
    <3>2. CASE x \notin Routines
      BY <2>2, <3>2 DEF Holds
    <3> QED BY <3>1, <3>2
  <2>5. ASSUME NEW a \in Owners, NEW x \in Items, Holds(a, x) PROVE Holds(a, x)'
    <3>1. CASE x = r /\ a = active
      BY <2>1, <3>1 DEF Holds
    <3>2. CASE x # r \/ a # active
      BY <2>4, <2>5, <3>2
    <3> QED BY <3>1, <3>2
  <2>6. ASSUME NEW x \in gone, Holders(x) = {}, \A a \in Owners : <<a, x>> \in deleted
        PROVE  Holders(x)' = {}
    <3>1. x # r
      BY <1>0, <2>1, <2>6 DEF New, Holders
    <3>2. x \in Items
      BY DEF MergeTypes
    <3> QED BY <2>4, <2>6, <3>1, <3>2 DEF Holders
  <2> QED BY <2>2, <2>3, <2>5, <2>6
<1>2. CASE TakeTurn
  <2>1. PICK d \in Chats :
           /\ New(d) \/ Holds(active, d)
           /\ \A a \in Owners, c \in Chats :
                /\ a # active \/ c # d => chats'[a][c] = chats[a][c]
                /\ a = active /\ c = d => chats'[a][c] # 0
    BY <1>2, TurnIs
  <2>2. tasks' = tasks /\ deleted' = deleted /\ synced' = synced /\ gone' = gone /\ spoilt' = spoilt
    BY <1>2 DEF TakeTurn, asideVars
  <2>3. ASSUME NEW a \in Owners, NEW x \in Items, x # d \/ a # active
        PROVE  Holds(a, x)' <=> Holds(a, x)
    <3>1. CASE x \in Chats
      BY <1>0, <2>1, <2>3, <3>1 DEF Holds
    <3>2. CASE x \in Routines
      BY <2>2, <3>2 DEF Holds
    <3> QED BY <1>0, <3>1, <3>2
  <2>4. ASSUME NEW a \in Owners, NEW x \in Items, Holds(a, x) PROVE Holds(a, x)'
    <3>1. CASE x = d /\ a = active
      BY <1>0, <2>1, <3>1 DEF Holds
    <3>2. CASE x # d \/ a # active
      BY <2>3, <2>4, <3>2
    <3> QED BY <3>1, <3>2
  <2>5. ASSUME NEW x \in gone, Holders(x) = {}, \A a \in Owners : <<a, x>> \in deleted
        PROVE  Holders(x)' = {}
    <3>1. x # d
      BY <1>0, <2>1, <2>5 DEF New, Holders
    <3>2. x \in Items
      BY DEF MergeTypes
    <3> QED BY <2>3, <2>5, <3>1, <3>2 DEF Holders
  <2> QED BY <2>2, <2>3, <2>4, <2>5
<1> QED BY <1>1, <1>2

LEMMA AccountedInit == HistoryAssumption /\ MergeInit => DeletionInv
<1> SUFFICES ASSUME HistoryAssumption, MergeInit PROVE DeletionInv
  OBVIOUS
<1>1. merge.pc = "idle" /\ gone = {}
  BY DEF MergeInit, NoMerge
<1>2. ASSUME NEW a \in Owners, NEW x \in Items, synced[a] # NoRow, Listed(a, x)
      PROVE  Holds(a, x)
  <2>1. synced[a] = [tasks |-> [r \in Routines |-> IF tasks[a][r] = Absent THEN Absent ELSE Unknown],
                     canon |-> [r \in Routines |-> Absent], chats |-> {}]
    BY <1>2 DEF MergeInit, NoRow
  <2>2. x \in Routines => synced[a].tasks[x] = IF tasks[a][x] = Absent THEN Absent ELSE Unknown
    BY <2>1
  <2>3. synced[a].chats = {}
    BY <2>1
  <2> QED BY <1>2, <2>2, <2>3 DEF Listed, Holds
<1> QED BY <1>1, <1>2 DEF DeletionInv, Accounted, PlannedAll, Archived, GoneIsGone, NotPlannedAgain

LEMMA DeletionUser ==
  ASSUME HistoryAssumption, MergeTypes, DeletionInv, EditRoutine \/ TakeTurn \/ Delete \/ SignIn
  PROVE  DeletionInv'
<1>0. /\ Routines \cap Chats = {} /\ Items = Routines \cup Chats
      /\ gone \subseteq Items
      /\ merge.pc = "prompt" => merge.target \in Owners
      /\ merge.pc \in {"idle", "prompt"} /\ merge' = merge /\ synced' = synced /\ gone' = gone
  BY DEF MergeTypes, OpTypes, Ops, HistoryAssumption, Items, EditRoutine, TakeTurn, Delete, SignIn,
         AppRuns, asideVars
<1>1. \A a \in Owners, x \in Items : Listed(a, x)' <=> Listed(a, x)
  BY <1>0 DEF Listed
<1>2. Archived' /\ NotPlannedAgain'
  BY <1>0 DEF DeletionInv, Archived, NotPlannedAgain
<1>3. CASE EditRoutine \/ TakeTurn
  <2>1. /\ \A a \in Owners, x \in Items : Holds(a, x) => Holds(a, x)'
        /\ \A x \in gone : Holders(x) = {} /\ (\A a \in Owners : <<a, x>> \in deleted) =>
             Holders(x)' = {}
        /\ spoilt \subseteq spoilt' /\ deleted' = deleted
    BY <1>3, EditHolds
  <2>2. Accounted'
    BY <1>0, <1>1, <2>1 DEF DeletionInv, Accounted, NoRow
  <2>3. GoneIsGone'
    BY <1>0, <2>1 DEF DeletionInv, GoneIsGone
  <2>4. PlannedAll'
    <3>1. SUFFICES ASSUME merge.pc = "prompt", NEW r \in Routines, merge.tasks[r] = Absent,
                          Holds(merge.target, r)'
                   PROVE  r \in spoilt'
      BY <1>0 DEF PlannedAll
    <3>2. CASE Holds(merge.target, r)
      BY <2>1, <3>1, <3>2 DEF DeletionInv, PlannedAll
    <3>3. CASE ~Holds(merge.target, r)
      <4>1. CASE EditRoutine
        <5>1. PICK q \in Routines :
                 /\ \A a \in Owners, p \in Routines :
                      a # active \/ p # q => tasks'[a][p] = tasks[a][p]
                 /\ spoilt' = Unplanned(q)
          BY <4>1, EditIs
        <5>2. q = r
          BY <1>0, <3>1, <3>3, <5>1 DEF Holds
        <5> QED BY <3>1, <5>1, <5>2 DEF Unplanned
      <4>2. CASE TakeTurn
        BY <3>1, <3>3, <4>2 DEF TakeTurn, Holds
      <4> QED BY <1>3, <4>1, <4>2
    <3> QED BY <3>2, <3>3
  <2> QED BY <1>2, <2>2, <2>3, <2>4 DEF DeletionInv
<1>4. CASE Delete
  <2>1. PICK x \in Items :
           /\ \A a \in Owners, r \in Routines :
                tasks'[a][r] = IF a = active /\ r = x THEN Absent ELSE tasks[a][r]
           /\ \A a \in Owners, c \in Chats :
                chats'[a][c] = IF a = active /\ c = x THEN 0 ELSE chats[a][c]
           /\ deleted' = deleted \cup {<<active, x>>}
           /\ spoilt \subseteq spoilt'
    BY <1>4, DeleteIs
  <2>2. ASSUME NEW a \in Owners, NEW y \in Items
        PROVE  /\ Holds(a, y)' => Holds(a, y)
               /\ Holds(a, y) => Holds(a, y)' \/ <<a, y>> \in deleted'
    <3>1. CASE y \in Routines
      BY <2>1, <3>1 DEF Holds
    <3>2. CASE y \in Chats
      BY <1>0, <2>1, <3>2 DEF Holds
    <3> QED BY <1>0, <3>1, <3>2
  <2>3. Accounted'
    BY <1>0, <1>1, <2>1, <2>2 DEF DeletionInv, Accounted, NoRow
  <2>4. GoneIsGone'
    <3>1. SUFFICES ASSUME NEW y \in gone PROVE Holders(y)' = {} /\ \A a \in Owners : <<a, y>> \in deleted'
      BY <1>0 DEF GoneIsGone
    <3>2. y \in Items /\ Holders(y) = {} /\ \A a \in Owners : <<a, y>> \in deleted
      BY <1>0 DEF DeletionInv, GoneIsGone
    <3> QED BY <2>1, <2>2, <3>2 DEF Holders
  <2>5. PlannedAll'
    <3>1. SUFFICES ASSUME merge.pc = "prompt", NEW r \in Routines, merge.tasks[r] = Absent,
                          Holds(merge.target, r)'
                   PROVE  r \in spoilt'
      BY <1>0 DEF PlannedAll
    <3>2. Holds(merge.target, r)
      BY <1>0, <2>2, <3>1
    <3> QED BY <2>1, <3>1, <3>2 DEF DeletionInv, PlannedAll
  <2> QED BY <1>2, <2>3, <2>4, <2>5 DEF DeletionInv
<1>5. CASE SignIn
  BY <1>2, <1>5 DEF SignIn, asideVars, DeletionInv, Accounted, PlannedAll, GoneIsGone, Holds, Holders,
                    Listed, NoRow
<1> QED BY <1>3, <1>4, <1>5

LEMMA DeletionPlan ==
  ASSUME HistoryAssumption, MergeTypes, DeletionInv, Plan \/ Stop
  PROVE  DeletionInv'
<1>0. /\ UNCHANGED <<tasks, chats, synced, deleted, spoilt, gone>>
      /\ gone \subseteq Items /\ Items = Routines \cup Chats
  BY DEF Plan, Stop, asideVars, MergeTypes, Items
<1>1. Accounted' /\ GoneIsGone'
  BY <1>0 DEF DeletionInv, Accounted, GoneIsGone, Holds, Holders, Listed, NoRow
<1>2. CASE Plan
  <2>1. PICK t \in Owners, chosen \in [Routines -> UNION {CopiesOf(r) \cup {Canonical(r), Absent} : r \in Routines}] :
            /\ \A r \in Routines : chosen[r] \in Selected(t, r)
            /\ merge'.pc = "prompt" /\ merge'.target = t /\ merge'.tasks = chosen
            /\ merge'.chats = [c \in Chats |-> NewestTurn(c)]
    BY <1>2 DEF Plan
  <2>2. ASSUME NEW r \in Routines, chosen[r] = Absent PROVE ~Holds(t, r)
    <3>1. Holders(r) = {}
      BY <2>1, <2>2, SelectedAbsent
    <3> QED BY <3>1 DEF Holders
  <2>3. PlannedAll'
    <3>1. SUFFICES ASSUME NEW r \in Routines, chosen[r] = Absent, Holds(t, r)' PROVE FALSE
      BY <2>1 DEF PlannedAll
    <3>2. Holds(t, r)
      BY <1>0, <3>1 DEF Holds
    <3> QED BY <2>2, <3>1, <3>2
  <2>4. NotPlannedAgain'
    <3>1. SUFFICES ASSUME NEW x \in gone
                   PROVE  /\ x \in Routines => chosen[x] = Absent
                          /\ x \in Chats => NewestTurn(x) = 0
      BY <1>0, <2>1 DEF NotPlannedAgain
    <3>2. Holders(x) = {}
      BY DEF DeletionInv, GoneIsGone
    <3>3. x \in Routines => chosen[x] = Absent
      BY <2>1, <3>2, SelectedAbsent
    <3>4. x \in Chats => \A a \in Owners : chats[a][x] = 0
      BY <3>2 DEF Holders, Holds, HistoryAssumption
    <3> QED BY <3>3, <3>4, NewestTurnType
  <2> QED BY <1>1, <2>1, <2>3, <2>4 DEF DeletionInv, Archived
<1>3. CASE Stop
  <2>1. merge \in Ops /\ merge.pc = "prompt" /\ merge' = [merge EXCEPT !.pc = "chats", !.old = tasks]
    BY <1>3 DEF Stop, MergeTypes, OpTypes
  <2>2. merge'.pc = "chats" /\ merge'.old = tasks /\ merge'.target = merge.target /\ merge'.tasks = merge.tasks
        /\ merge'.chats = merge.chats
    BY <2>1 DEF Ops
  <2>3. PlannedAll' /\ Archived' /\ NotPlannedAgain'
    BY <1>0, <2>1, <2>2 DEF DeletionInv, PlannedAll, Archived, NotPlannedAgain, Holds
  <2> QED BY <1>1, <2>3 DEF DeletionInv
<1> QED BY <1>2, <1>3

LEMMA DeletionEnd ==
  ASSUME HistoryAssumption, MergeTypes, DeletionInv, Decline \/ Complete \/ Abort \/ CommandDies
  PROVE  DeletionInv'
<1>0. merge'.pc = "idle" /\ UNCHANGED <<chats, synced, deleted>> /\ gone \subseteq Items
      /\ Items = Routines \cup Chats /\ spoilt \subseteq spoilt'
  BY DEF Decline, Complete, Abort, CommandDies, NoMerge, asideVars, MergeTypes, Items
<1>1. PlannedAll' /\ Archived' /\ NotPlannedAgain'
  BY <1>0 DEF PlannedAll, Archived, NotPlannedAgain
<1>2. CASE Decline \/ Complete \/ CommandDies
  <2>1. UNCHANGED <<tasks, gone>>
    BY <1>2 DEF Decline, Complete, CommandDies, asideVars
  <2>2. Accounted' /\ GoneIsGone'
    BY <1>0, <2>1 DEF DeletionInv, Accounted, GoneIsGone, Holds, Holders, Listed, NoRow
  <2> QED BY <1>1, <2>2 DEF DeletionInv
<1>3. CASE Abort
  <2>1. /\ tasks' = merge.old
        /\ merge.pc # "login" => merge.old = tasks
        /\ merge.pc = "login" =>
             spoilt' = spoilt \cup {r \in Routines : \E a \in Owners : tasks[a][r] # merge.old[a][r]}
        /\ gone' = gone \ {r \in Routines : \E a \in Owners : merge.old[a][r] # Absent}
    BY <1>3 DEF Abort, DeletionInv, Archived
  <2>2. ASSUME NEW a \in Owners, NEW x \in Items, x \notin spoilt'
        PROVE  Holds(a, x)' <=> Holds(a, x)
    <3>1. CASE x \in Routines
      <4>1. tasks'[a][x] = tasks[a][x]
        BY <2>1, <2>2, <3>1
      <4> QED BY <3>1, <4>1 DEF Holds
    <3>2. CASE x \notin Routines
      BY <1>0, <3>2 DEF Holds
    <3> QED BY <3>1, <3>2
  <2>3. Accounted'
    <3>1. \A a \in Owners, x \in Items : Listed(a, x)' <=> Listed(a, x)
      BY <1>0 DEF Listed
    <3> QED BY <1>0, <2>2, <3>1 DEF DeletionInv, Accounted, NoRow
  <2>4. GoneIsGone'
    <3>1. SUFFICES ASSUME NEW x \in gone'
                   PROVE  Holders(x)' = {} /\ \A a \in Owners : <<a, x>> \in deleted'
      BY DEF GoneIsGone
    <3>2. x \in gone /\ Holders(x) = {} /\ \A a \in Owners : <<a, x>> \in deleted
      BY <2>1, <3>1 DEF DeletionInv, GoneIsGone
    <3>3. x \in Routines => \A a \in Owners : tasks'[a][x] = Absent
      BY <2>1, <3>1
    <3>4. x \notin Routines => \A a \in Owners : chats'[a][x] = 0
      BY <1>0, <3>2 DEF Holders, Holds
    <3>5. Holders(x)' = {}
      BY <3>3, <3>4 DEF Holders, Holds
    <3> QED BY <1>0, <3>2, <3>5
  <2> QED BY <1>1, <2>3, <2>4 DEF DeletionInv
<1> QED BY <1>2, <1>3

LEMMA GoOn ==
  ASSUME HistoryAssumption, MergeTypes,
         CopyChats \/ WriteRegistry \/ Sweep \/ ConvergeNames \/ SaveLedger \/ LedgerNotSaved
  PROVE  /\ merge'.target = merge.target /\ merge'.tasks = merge.tasks /\ merge'.resolved = merge.resolved
         /\ merge'.chats = merge.chats /\ merge'.doomed = merge.doomed /\ merge'.old = merge.old
         /\ merge.target \in Owners /\ merge.tasks \in [Routines -> SoFar] /\ merge.doomed \subseteq Items
         /\ CopyChats => merge.pc = "chats" /\ merge'.pc = "registry"
         /\ WriteRegistry => merge.pc = "registry" /\ merge'.pc = "sweep"
         /\ Sweep => merge.pc = "sweep" /\ merge'.pc = "names"
         /\ ConvergeNames => merge.pc = "names" /\ merge'.pc = "ledger"
         /\ SaveLedger \/ LedgerNotSaved => merge.pc = "ledger" /\ merge'.pc = "login"
         /\ UNCHANGED <<edits, active>>
<1>1. OpTypes /\ UNCHANGED <<edits, active>>
  BY DEF MergeTypes, CopyChats, WriteRegistry, Sweep, ConvergeNames, SaveLedger, LedgerNotSaved
<1>2. merge \in Ops
  BY <1>1 DEF OpTypes, CopyChats, WriteRegistry, Sweep, ConvergeNames, SaveLedger, LedgerNotSaved
<1>3. merge.target \in Owners /\ merge.tasks \in [Routines -> SoFar] /\ merge.doomed \subseteq Items
  BY <1>2 DEF Ops
<1>4. PICK phase \in Phases :
        /\ merge' = [merge EXCEPT !.pc = phase]
        /\ CopyChats => merge.pc = "chats" /\ phase = "registry"
        /\ WriteRegistry => merge.pc = "registry" /\ phase = "sweep"
        /\ Sweep => merge.pc = "sweep" /\ phase = "names"
        /\ ConvergeNames => merge.pc = "names" /\ phase = "ledger"
        /\ SaveLedger \/ LedgerNotSaved => merge.pc = "ledger" /\ phase = "login"
  <2>1. CASE CopyChats
    BY <2>1 DEF CopyChats, WriteRegistry, Sweep, ConvergeNames, SaveLedger, LedgerNotSaved, Proceed, Phases
  <2>2. CASE WriteRegistry
    BY <2>2 DEF CopyChats, WriteRegistry, Sweep, ConvergeNames, SaveLedger, LedgerNotSaved, Proceed, Phases
  <2>3. CASE Sweep
    BY <2>3 DEF CopyChats, WriteRegistry, Sweep, ConvergeNames, SaveLedger, LedgerNotSaved, Proceed, Phases
  <2>4. CASE ConvergeNames
    BY <2>4 DEF CopyChats, WriteRegistry, Sweep, ConvergeNames, SaveLedger, LedgerNotSaved, Proceed, Phases
  <2>5. CASE SaveLedger \/ LedgerNotSaved
    BY <2>5 DEF CopyChats, WriteRegistry, Sweep, ConvergeNames, SaveLedger, LedgerNotSaved, Proceed, Phases
  <2> QED BY <2>1, <2>2, <2>3, <2>4, <2>5
<1>5. /\ merge'.pc = phase
      /\ merge'.target = merge.target /\ merge'.tasks = merge.tasks /\ merge'.resolved = merge.resolved
      /\ merge'.chats = merge.chats /\ merge'.doomed = merge.doomed /\ merge'.old = merge.old
  BY <1>2, <1>4, GoOps
<1> QED BY <1>1, <1>3, <1>4, <1>5

LEMMA DeletionCopy ==
  ASSUME HistoryAssumption, MergeTypes, DeletionInv, CopyChats
  PROVE  DeletionInv'
<1>0. /\ UNCHANGED <<tasks, synced, gone, spoilt>> /\ Items = Routines \cup Chats
      /\ Routines \cap Chats = {} /\ gone \subseteq Items
      /\ deleted' = deleted \ {<<merge.target, c>> : c \in {d \in Chats : merge.chats[d] # 0}}
  BY DEF CopyChats, Items, HistoryAssumption, MergeTypes
<1>1. /\ merge'.target = merge.target /\ merge'.tasks = merge.tasks /\ merge'.chats = merge.chats /\ merge'.old = merge.old
      /\ merge.pc = "chats" /\ merge'.pc = "registry"
  BY GoOn
<1>2. /\ merge.target \in Owners
      /\ \A a \in Owners, c \in Chats :
           /\ chats[a][c] # 0 => chats'[a][c] # 0
           /\ a = merge.target /\ merge.chats[c] # 0 => chats'[a][c] # 0
           /\ merge.chats[c] = 0 => chats'[a][c] = chats[a][c]
  BY CopyIs
<1>3. Accounted'
  <2>1. SUFFICES ASSUME NEW a \in Owners, NEW x \in Items, synced[a] # NoRow, Listed(a, x),
                        ~Holds(a, x)'
                 PROVE  <<a, x>> \in deleted' \/ x \in spoilt
    BY <1>0 DEF Accounted, Listed, NoRow
  <2>2. CASE x \in Routines
    <3>1. <<a, x>> \in deleted \/ x \in spoilt
      BY <1>0, <2>1, <2>2 DEF DeletionInv, Accounted, Holds
    <3> QED BY <1>0, <2>2, <3>1
  <2>3. CASE x \in Chats
    <3>1. chats'[a][x] = 0
      BY <1>0, <2>1, <2>3 DEF Holds
    <3>2. chats[a][x] = 0 /\ ~(a = merge.target /\ merge.chats[x] # 0)
      BY <1>2, <2>3, <3>1
    <3>3. ~Holds(a, x)
      BY <1>0, <2>3, <3>2 DEF Holds
    <3>4. <<a, x>> \in deleted \/ x \in spoilt
      BY <2>1, <3>3 DEF DeletionInv, Accounted
    <3> QED BY <1>0, <3>2, <3>4
  <2> QED BY <1>0, <2>2, <2>3
<1>4. GoneIsGone'
  <2>1. SUFFICES ASSUME NEW x \in gone
                 PROVE  Holders(x)' = {} /\ \A a \in Owners : <<a, x>> \in deleted'
    BY <1>0 DEF GoneIsGone
  <2>2. Holders(x) = {} /\ \A a \in Owners : <<a, x>> \in deleted
    BY DEF DeletionInv, GoneIsGone
  <2>3. x \in Chats => merge.chats[x] = 0
    BY <1>1 DEF DeletionInv, NotPlannedAgain
  <2>4. x \in Chats => \A a \in Owners : chats'[a][x] = 0
    BY <1>0, <1>2, <2>2, <2>3 DEF Holders, Holds
  <2>5. Holders(x)' = {}
    <3>1. CASE x \in Routines
      BY <1>0, <2>2, <3>1 DEF Holders, Holds
    <3>2. CASE x \in Chats
      BY <1>0, <2>4, <3>2 DEF Holders, Holds
    <3> QED BY <1>0, <3>1, <3>2
  <2> QED BY <1>0, <2>2, <2>3, <2>5
<1>5. PlannedAll' /\ Archived' /\ NotPlannedAgain'
  <2>2. PlannedAll'
    BY <1>0, <1>1 DEF DeletionInv, PlannedAll, Holds
  <2> QED BY <1>0, <1>1, <2>2 DEF DeletionInv, Archived, NotPlannedAgain
<1> QED BY <1>3, <1>4, <1>5 DEF DeletionInv

LEMMA DeletionWrite ==
  ASSUME HistoryAssumption, MergeTypes, DeletionInv, WriteRegistry
  PROVE  DeletionInv'
<1>0. /\ UNCHANGED <<chats, synced, gone, spoilt>> /\ Items = Routines \cup Chats
      /\ Routines \cap Chats = {} /\ gone \subseteq Items
      /\ deleted' = deleted \ {<<merge.target, r>> : r \in {q \in Routines : merge.tasks[q] # Absent}}
  BY DEF WriteRegistry, Items, HistoryAssumption, MergeTypes
<1>1. merge.pc = "registry" /\ merge'.pc = "sweep" /\ merge.target \in Owners
  BY GoOn
<1>2. \A a \in Owners, r \in Routines :
        tasks'[a][r] = IF a = merge.target THEN merge.tasks[r] ELSE tasks[a][r]
  BY WriteIs
<1>3. Accounted'
  <2>1. SUFFICES ASSUME NEW a \in Owners, NEW x \in Items, synced[a] # NoRow, Listed(a, x),
                        ~Holds(a, x)'
                 PROVE  <<a, x>> \in deleted' \/ x \in spoilt
    BY <1>0 DEF Accounted, Listed, NoRow
  <2>2. CASE x \notin Routines
    <3>1. <<a, x>> \in deleted \/ x \in spoilt
      BY <1>0, <2>1, <2>2 DEF DeletionInv, Accounted, Holds
    <3> QED BY <1>0, <2>2, <3>1
  <2>3. CASE x \in Routines
    <3>1. tasks'[a][x] = Absent
      BY <2>1, <2>3 DEF Holds
    <3>2. CASE Holds(a, x)
      <4>1. a = merge.target /\ merge.tasks[x] = Absent
        BY <1>2, <2>3, <3>1, <3>2 DEF Holds
      <4> QED BY <1>1, <2>3, <3>2, <4>1 DEF DeletionInv, PlannedAll
    <3>3. CASE ~Holds(a, x)
      <4>1. <<a, x>> \in deleted \/ x \in spoilt
        BY <2>1, <3>3 DEF DeletionInv, Accounted
      <4>2. a = merge.target => merge.tasks[x] = Absent
        BY <1>2, <2>3, <3>1
      <4> QED BY <1>0, <4>1, <4>2
    <3> QED BY <3>2, <3>3
  <2> QED BY <2>2, <2>3
<1>4. GoneIsGone'
  <2>1. SUFFICES ASSUME NEW x \in gone
                 PROVE  Holders(x)' = {} /\ \A a \in Owners : <<a, x>> \in deleted'
    BY <1>0 DEF GoneIsGone
  <2>2. Holders(x) = {} /\ \A a \in Owners : <<a, x>> \in deleted
    BY DEF DeletionInv, GoneIsGone
  <2>3. x \in Routines => merge.tasks[x] = Absent
    BY <1>1 DEF DeletionInv, NotPlannedAgain
  <2>4. x \in Routines => \A a \in Owners : tasks'[a][x] = Absent
    BY <1>2, <2>2, <2>3 DEF Holders, Holds
  <2>5. Holders(x)' = {}
    <3>1. CASE x \in Routines
      BY <2>4, <3>1 DEF Holders, Holds
    <3>2. CASE x \notin Routines
      BY <1>0, <2>2, <3>2 DEF Holders, Holds
    <3> QED BY <3>1, <3>2
  <2> QED BY <1>0, <2>2, <2>3, <2>5
<1>5. PlannedAll' /\ Archived' /\ NotPlannedAgain'
  BY <1>1 DEF PlannedAll, Archived, NotPlannedAgain
<1> QED BY <1>3, <1>4, <1>5 DEF DeletionInv

LEMMA DeletionSweep ==
  ASSUME HistoryAssumption, MergeTypes, DeletionInv, Sweep
  PROVE  DeletionInv'
<1>0. /\ UNCHANGED <<synced, spoilt>> /\ Items = Routines \cup Chats
      /\ Routines \cap Chats = {} /\ gone \subseteq Items
  BY DEF Sweep, Items, HistoryAssumption, MergeTypes
<1>1. merge'.pc = "names"
  BY GoOn
<1>2. PICK as \in SUBSET Owners :
        /\ \A a \in Owners, r \in Routines :
             tasks'[a][r] = IF a \in as /\ r \in merge.doomed THEN Absent ELSE tasks[a][r]
        /\ \A a \in Owners, c \in Chats :
             chats'[a][c] = IF a \in as /\ c \in merge.doomed THEN 0 ELSE chats[a][c]
        /\ deleted' = deleted \cup (as \X merge.doomed)
        /\ gone' = gone \/ (gone' = gone \cup merge.doomed /\ as = Owners)
        /\ merge.doomed \subseteq Items
  BY SweepIs
<1>3. ASSUME NEW a \in Owners, NEW x \in Items
      PROVE  /\ ~Holds(a, x) => ~Holds(a, x)'
             /\ a \in as /\ x \in merge.doomed => ~Holds(a, x)' /\ <<a, x>> \in deleted'
             /\ Holds(a, x) /\ ~Holds(a, x)' => <<a, x>> \in deleted'
  <2>1. CASE x \in Routines
    BY <1>2, <2>1 DEF Holds
  <2>2. CASE x \in Chats
    BY <1>0, <1>2, <2>2 DEF Holds
  <2> QED BY <1>0, <2>1, <2>2
<1>4. Accounted'
  <2>1. \A a \in Owners, x \in Items : Listed(a, x)' <=> Listed(a, x)
    BY <1>0 DEF Listed
  <2> QED BY <1>0, <1>2, <1>3, <2>1 DEF DeletionInv, Accounted, NoRow
<1>5. GoneIsGone'
  <2>1. SUFFICES ASSUME NEW x \in gone'
                 PROVE  Holders(x)' = {} /\ \A a \in Owners : <<a, x>> \in deleted'
    BY DEF GoneIsGone
  <2>2. CASE x \in gone
    <3>1. x \in Items /\ Holders(x) = {} /\ \A a \in Owners : <<a, x>> \in deleted
      BY <1>0, <2>2 DEF DeletionInv, GoneIsGone
    <3>2. \A a \in Owners : ~Holds(a, x)'
      BY <1>3, <3>1 DEF Holders
    <3> QED BY <1>2, <3>1, <3>2 DEF Holders
  <2>3. CASE x \notin gone
    <3>1. x \in merge.doomed /\ as = Owners /\ x \in Items
      BY <1>2, <2>1, <2>3
    <3> QED BY <1>3, <3>1 DEF Holders
  <2> QED BY <2>2, <2>3
<1>6. PlannedAll' /\ Archived' /\ NotPlannedAgain'
  BY <1>1 DEF PlannedAll, Archived, NotPlannedAgain
<1> QED BY <1>4, <1>5, <1>6 DEF DeletionInv

LEMMA DeletionRest ==
  ASSUME HistoryAssumption, MergeTypes, DeletionInv, ConvergeNames \/ SaveLedger \/ LedgerNotSaved
  PROVE  DeletionInv'
<1>0. /\ UNCHANGED <<chats, deleted, gone>> /\ spoilt \subseteq spoilt'
      /\ Items = Routines \cup Chats /\ gone \subseteq Items
  BY DEF ConvergeNames, SaveLedger, LedgerNotSaved, asideVars, Items, MergeTypes
<1>1. merge'.pc \in {"ledger", "login"}
  BY GoOn
<1>2. \A a \in Owners, r \in Routines : tasks'[a][r] = Absent <=> tasks[a][r] = Absent
  <2>1. CASE ConvergeNames
    BY <2>1, NamesIs
  <2>2. CASE SaveLedger \/ LedgerNotSaved
    BY <2>2 DEF SaveLedger, LedgerNotSaved
  <2> QED BY <2>1, <2>2
<1>3. ASSUME NEW a \in Owners, NEW x \in Items PROVE Holds(a, x)' <=> Holds(a, x)
  <2>1. CASE x \in Routines
    BY <1>2, <2>1 DEF Holds
  <2>2. CASE x \notin Routines
    BY <1>0, <2>2 DEF Holds
  <2> QED BY <2>1, <2>2
<1>4. Accounted'
  <2>1. CASE ConvergeNames \/ LedgerNotSaved
    <3>1. synced' = synced
      BY <2>1 DEF ConvergeNames, LedgerNotSaved
    <3>2. \A a \in Owners, x \in Items : Listed(a, x)' <=> Listed(a, x)
      BY <3>1 DEF Listed
    <3> QED BY <1>0, <1>3, <3>1, <3>2 DEF DeletionInv, Accounted, NoRow
  <2>2. CASE SaveLedger
    <3>1. SUFFICES ASSUME NEW a \in Owners, NEW x \in Items, Listed(a, x)' PROVE Holds(a, x)'
      BY DEF Accounted
    <3>2. synced'[a] = Row(a) /\ tasks' = tasks
      BY <2>2 DEF SaveLedger
    <3>3. synced'[a].tasks = tasks[a] /\ synced'[a].chats = {c \in Chats : chats[a][c] # 0}
      BY <3>2 DEF Row
    <3> QED BY <1>0, <3>1, <3>2, <3>3 DEF Listed, Holds
  <2> QED BY <2>1, <2>2
<1>5. GoneIsGone'
  <2>1. SUFFICES ASSUME NEW x \in gone
                 PROVE  Holders(x)' = {} /\ \A a \in Owners : <<a, x>> \in deleted
    BY <1>0 DEF GoneIsGone
  <2>2. x \in Items /\ Holders(x) = {} /\ \A a \in Owners : <<a, x>> \in deleted
    BY <1>0 DEF DeletionInv, GoneIsGone
  <2>3. \A a \in Owners : ~Holds(a, x)'
    BY <1>3, <2>2 DEF Holders
  <2> QED BY <2>2, <2>3 DEF Holders
<1>6. PlannedAll' /\ Archived' /\ NotPlannedAgain'
  BY <1>1 DEF PlannedAll, Archived, NotPlannedAgain
<1> QED BY <1>4, <1>5, <1>6 DEF DeletionInv

LEMMA DeletionStep ==
  HistoryAssumption /\ MergeTypes /\ DeletionInv /\ [MergeNext]_mergeVars => DeletionInv'
<1> SUFFICES ASSUME HistoryAssumption, MergeTypes, DeletionInv, [MergeNext]_mergeVars
             PROVE  DeletionInv'
  OBVIOUS
<1>1. CASE UNCHANGED mergeVars
  BY <1>1 DEF mergeVars, asideVars, DeletionInv, Accounted, PlannedAll, Archived, GoneIsGone,
              NotPlannedAgain, Holds, Holders, Listed, NoRow
<1>2. CASE MergeNext
  BY <1>2, DeletionUser, DeletionPlan, DeletionEnd, DeletionCopy, DeletionWrite, DeletionSweep,
     DeletionRest DEF MergeNext
<1> QED BY <1>1, <1>2

LEMMA DeletionsInvariant ==
  ASSUME HistoryAssumption
  PROVE  MergeSpec => [](MergeTypes /\ DeletionInv)
<1>1. MergeInit => MergeTypes /\ DeletionInv
  BY TypesInit, AccountedInit
<1>2. MergeTypes /\ DeletionInv /\ [MergeNext]_mergeVars => (MergeTypes /\ DeletionInv)'
  BY TypesStep, DeletionStep
<1> QED BY <1>1, <1>2, PTL DEF MergeSpec

(***************************************************************************)
(* The ledger, the plans and the archive are of their types, and every     *)
(* number in them is one that an edit has had.                             *)
(***************************************************************************)
THEOREM HistoryTypes ==
  ASSUME HistoryAssumption
  PROVE  MergeSpec => []MergeTypeOK
<1>1. ASSUME MergeTypes PROVE MergeTypeOK
  <2>1. SoFar \subseteq Definitions /\ RowsSoFar \subseteq LedgerRows /\ 0 .. edits \subseteq Numbers
    BY <1>1, SoFarIs DEF MergeTypes, Numbers, HistoryAssumption
  <2>2. tasks \in [Owners -> [Routines -> Definitions]] /\ latest \in [Routines -> Definitions]
    BY <1>1, <2>1 DEF MergeTypes, Registries
  <2>3. chats \in [Owners -> [Chats -> Numbers]] /\ synced \in [Owners -> LedgerRows \cup {NoRow}]
    BY <1>1, <2>1 DEF MergeTypes, NoRow
  <2>4. merge.target \in Owners \cup {Absent} /\ merge.resolved \subseteq Routines /\ merge.doomed \subseteq Items
    BY <1>1 DEF MergeTypes, OpTypes, Ops, NoMerge
  <2> QED BY <1>1, <2>2, <2>3, <2>4 DEF MergeTypes, MergeTypeOK
<1> QED BY <1>1, DeletionsInvariant, PTL

(***************************************************************************)
(* A switch asks to delete what the user deleted and nothing that merely   *)
(* never arrived, and what left every account never comes back, whatever   *)
(* fails or is cut short between (DeletionsAreTheUsers).                   *)
(***************************************************************************)
THEOREM DeletionsHold ==
  ASSUME HistoryAssumption
  PROVE  MergeSpec => []DeletionsAreTheUsers
<1>1. ASSUME MergeTypes, DeletionInv PROVE DeletionsAreTheUsers
  <2>1. NoPhantomDeletions
    <3>1. SUFFICES ASSUME NEW c \in Candidates PROVE c \in deleted \/ c[2] \in spoilt
      BY DEF NoPhantomDeletions
    <3>2. c[1] \in Owners /\ c[2] \in Items /\ c = <<c[1], c[2]>> /\ synced[c[1]] # NoRow
          /\ Listed(c[1], c[2]) /\ ~Holds(c[1], c[2])
      BY <3>1 DEF Candidates, Rows
    <3> QED BY <1>1, <3>2 DEF DeletionInv, Accounted
  <2>2. DeletionsStay
    BY <1>1 DEF DeletionInv, GoneIsGone, DeletionsStay
  <2> QED BY <2>1, <2>2 DEF DeletionsAreTheUsers
<1> QED BY <1>1, DeletionsInvariant, PTL

-----------------------------------------------------------------------------
(* Edits: NoEditIsLost and TheNewestIsShown. *)

(***************************************************************************)
(* The next plan, unless it reports a conflict, will take d: it is an      *)
(* edited copy; or no copy is edited, and it is the definition the ledger  *)
(* agreed on, or there is no other.                                        *)
(***************************************************************************)
Standing(r, d) ==
  \/ d \in ChangedCopies(r)
  \/ ChangedCopies(r) = {} /\ (Canonical(r) = d \/ (Canonical(r) = Absent /\ CopiesOf(r) = {d}))

(***************************************************************************)
(* Between the new names and the ledger, old copies look edited.           *)
(***************************************************************************)
Renamed(r, d) ==
  \/ d \in ChangedCopies(r)
  \/ Canonical(r) = d
  \/ ChangedCopies(r) = {} /\ Canonical(r) = Absent /\ CopiesOf(r) = {d}

Kept(r, d) ==
  /\ d \in CopiesOf(r)
  /\ merge.pc # "ledger" => Standing(r, d)
  /\ merge.pc = "ledger" => Renamed(r, d)
  /\ merge.pc # "idle" => merge.tasks[r] = d /\ r \in merge.resolved
  /\ merge.pc \in {"sweep", "names", "ledger", "login"} => tasks[merge.target][r] = d
  /\ merge.pc \in {"names", "ledger", "login"} => r \notin merge.doomed

(***************************************************************************)
(* A ledger has a row for every account.                                   *)
(***************************************************************************)
OneLedger == Rows = {} \/ Rows = Owners

EditInv ==
  /\ OneLedger
  /\ \A r \in Routines \ (spoilt \cup conflicted), d \in SoFar \ {Absent} :
       latest[r] = d => Kept(r, d)

(***************************************************************************)
(* What is the case of one routine depends on its own copies and on the    *)
(* ledger.                                                                 *)
(***************************************************************************)
LEMMA ColumnSame ==
  ASSUME NEW r \in Routines, synced' = synced,
         \A a \in Owners : tasks'[a][r] = tasks[a][r]
  PROVE  /\ \A a \in Owners : Change(a, r)' = Change(a, r)
         /\ Holders(r)' = Holders(r) /\ CopiesOf(r)' = CopiesOf(r)
         /\ ChangedCopies(r)' = ChangedCopies(r) /\ Canonical(r)' = Canonical(r)
<1>1. Holders(r)' = Holders(r)
  BY DEF Holders, Holds
<1>2. Rows' = Rows /\ Canonical(r)' = Canonical(r)
  BY DEF Rows, NoRow, Canonical
<1>3. \A a \in Owners : Change(a, r)' = Change(a, r)
  BY <1>2 DEF Change, NoRow
<1>4. CopiesOf(r)' = CopiesOf(r) /\ ChangedCopies(r)' = ChangedCopies(r)
  BY <1>1, <1>3 DEF CopiesOf, ChangedCopies, Holders
<1> QED BY <1>1, <1>2, <1>3, <1>4

LEMMA StandingSame ==
  ASSUME NEW r \in Routines, NEW d, synced' = synced,
         \A a \in Owners : tasks'[a][r] = tasks[a][r]
  PROVE  /\ Standing(r, d)' <=> Standing(r, d)
         /\ Renamed(r, d)' <=> Renamed(r, d)
         /\ (d \in CopiesOf(r))' <=> d \in CopiesOf(r)
BY ColumnSame DEF Standing, Renamed

(***************************************************************************)
(* Without a ledger nothing is agreed on.                                  *)
(***************************************************************************)
LEMMA NoLedger ==
  ASSUME NEW r \in Routines, Rows = {}
  PROVE  Canonical(r) = Absent
<1> DEFINE recorded == {synced[a].canon[r] : a \in Rows}
<1>1. recorded = {}
  OBVIOUS
<1>2. Cardinality(recorded) = 0
  BY <1>1, FS_EmptySet
<1>3. Canonical(r) = IF Cardinality(recorded) = 1 THEN CHOOSE e \in recorded : TRUE ELSE Absent
  BY DEF Canonical
<1> HIDE DEF recorded
<1> QED BY <1>2, <1>3

(***************************************************************************)
(* What every row has recorded is what they agree on.                      *)
(***************************************************************************)
LEMMA Agreed ==
  ASSUME NEW r \in Routines, NEW d, Rows # {}, \A a \in Rows : synced[a].canon[r] = d
  PROVE  Canonical(r) = d
<1> DEFINE recorded == {synced[a].canon[r] : a \in Rows}
<1>1. recorded = {d}
  OBVIOUS
<1>2. Cardinality(recorded) = 1
  BY <1>1, FS_Singleton
<1>3. Canonical(r) = IF Cardinality(recorded) = 1 THEN CHOOSE e \in recorded : TRUE ELSE Absent
  BY DEF Canonical
<1> HIDE DEF recorded
<1> QED BY <1>1, <1>2, <1>3

(***************************************************************************)
(* There are finitely many copies.                                         *)
(***************************************************************************)
LEMMA FewCopies ==
  ASSUME HistoryAssumption, NEW r \in Routines
  PROVE  IsFiniteSet(CopiesOf(r)) /\ IsFiniteSet(ChangedCopies(r)) /\ IsFiniteSet(NewestCopies(r))
<1> DEFINE f == [a \in Holders(r) |-> tasks[a][r]]
<1>1. IsFiniteSet(Holders(r))
  BY FS_Subset DEF Holders, HistoryAssumption
<1>2. f \in Surjection(Holders(r), CopiesOf(r))
  BY DEF Surjection, CopiesOf
<1>3. IsFiniteSet(CopiesOf(r))
  <2> HIDE DEF f
  <2> QED BY <1>1, <1>2, FS_Surjection
<1>4. ChangedCopies(r) \subseteq CopiesOf(r) /\ NewestCopies(r) \subseteq CopiesOf(r)
  BY DEF ChangedCopies, CopiesOf, NewestCopies
<1> QED BY <1>3, <1>4, FS_Subset

(***************************************************************************)
(* A merge that is not in doubt takes what stands.                         *)
(***************************************************************************)
LEMMA StandingIsClear ==
  ASSUME HistoryAssumption, MergeTypes, NEW r \in Routines, NEW d \in SoFar \ {Absent},
         Standing(r, d), Resolved(r)
  PROVE  Winners(r) = {d}
<1>1. IsFiniteSet(Winners(r))
  <2>1. IsFiniteSet({}) /\ IsFiniteSet({Canonical(r)})
    BY FS_EmptySet, FS_Singleton
  <2> QED BY <2>1, FewCopies DEF Winners
<1>2. PICK e : Winners(r) = {e}
  BY <1>1, FS_Singleton DEF Resolved
<1>3. d \in Winners(r)
  <2>1. CASE d \in ChangedCopies(r)
    <3>1. Canonical(r) # Absent => ~Diverged(r)
      BY <1>2 DEF Winners
    <3> QED BY <2>1, <3>1 DEF Winners
  <2>2. CASE ChangedCopies(r) = {} /\ Canonical(r) = d
    <3>1. ~Diverged(r)
      BY <1>2, <2>2 DEF Winners
    <3> QED BY <2>2, <3>1 DEF Winners
  <2>3. CASE ChangedCopies(r) = {} /\ Canonical(r) = Absent /\ CopiesOf(r) = {d}
    <3>1. d.made \in {1, 2}
      BY DEF SoFar
    <3>2. d.made <= d.made
      BY <3>1
    <3>3. d \in NewestCopies(r)
      BY <2>3, <3>2 DEF NewestCopies
    <3> QED BY <2>3, <3>3 DEF Winners
  <2> QED BY <2>1, <2>2, <2>3 DEF Standing
<1> QED BY <1>2, <1>3

(***************************************************************************)
(* A routine whose copies, ledger and plan stay is kept; and a switch      *)
(* that ends leaves it as it stood.                                        *)
(***************************************************************************)
LEMMA KeptSame ==
  ASSUME MergeTypes, NEW r \in Routines, NEW d, Kept(r, d), synced' = synced, merge' = merge,
         \A a \in Owners : tasks'[a][r] = tasks[a][r]
  PROVE  Kept(r, d)'
<1>1. /\ Standing(r, d)' <=> Standing(r, d)
      /\ Renamed(r, d)' <=> Renamed(r, d)
      /\ (d \in CopiesOf(r))' <=> d \in CopiesOf(r)
  BY StandingSame
<1>2. merge.pc # "idle" => merge.target \in Owners
  BY DEF MergeTypes, OpTypes, Ops
<1>3. merge.pc \in {"sweep", "names", "ledger", "login"} => tasks'[merge.target][r] = tasks[merge.target][r]
  BY <1>2
<1> QED BY <1>1, <1>3 DEF Kept

LEMMA KeptEnds ==
  ASSUME NEW r \in Routines, NEW d, d \in CopiesOf(r), Standing(r, d), synced' = synced,
         merge'.pc = "idle", \A a \in Owners : tasks'[a][r] = tasks[a][r]
  PROVE  Kept(r, d)'
<1>1. /\ Standing(r, d)' <=> Standing(r, d)
      /\ (d \in CopiesOf(r))' <=> d \in CopiesOf(r)
  BY StandingSame
<1> QED BY <1>1 DEF Kept

LEMMA LedgerSame ==
  ASSUME OneLedger, synced' = synced
  PROVE  OneLedger'
BY DEF OneLedger, Rows, NoRow

(***************************************************************************)
(* A new definition is one no ledger has, so its copy looks edited; and    *)
(* when there is no ledger for a new routine, it is the only copy.         *)
(***************************************************************************)
LEMMA EditStands ==
  ASSUME HistoryAssumption, MergeTypes, DeletionInv, OneLedger, EditRoutine,
         NEW r \in Routines, NEW b \in Owners, b = active,
         New(r) \/ Holds(b, r), Recorded(r), r \notin spoilt,
         NEW d, tasks'[b][r] = d, d # Absent, d.name = edits + 1 \/ d.rest = edits + 1,
         \A a \in Owners : a # b => tasks'[a][r] = tasks[a][r]
  PROVE  (d \in CopiesOf(r))' /\ Standing(r, d)'
<1>0. synced' = synced /\ edits \in Nat /\ r \in Items
      /\ synced \in [Owners -> RowsSoFar \cup {Absent}]
  BY DEF EditRoutine, MergeTypes, Numbers, HistoryAssumption, Items
<1>1. b \in Holders(r)'
  BY <1>0 DEF Holders, Holds
<1>2. (d \in CopiesOf(r))'
  BY <1>1 DEF CopiesOf
<1>3. d \notin SoFar
  BY <1>0 DEF SoFar
<1>4. CASE Change(b, r)' = "yes"
  <2>1. (d \in ChangedCopies(r))'
    BY <1>1, <1>4 DEF ChangedCopies
  <2> QED BY <1>2, <2>1 DEF Standing
<1>5. CASE Change(b, r)' # "yes"
  <2>1. synced[b] = NoRow \/ synced[b].tasks[r] = Unknown
    <3>1. CASE synced[b] = NoRow
      BY <3>1
    <3>2. CASE synced[b] # NoRow /\ synced[b].tasks[r] # Unknown
      <4>1. synced[b].tasks[r] \in SoFar
        BY <1>0, <3>2 DEF RowsSoFar, NoRow
      <4>2. synced[b].tasks[r] # d
        BY <1>3, <4>1
      <4> QED BY <1>0, <1>5, <3>2, <4>2 DEF Change, Rows, NoRow
    <3> QED BY <3>1, <3>2
  <2>2. Change(b, r) = "unknown"
    BY <1>0, <2>1 DEF Change, Rows, NoRow
  <2>3. ~Holds(b, r) /\ Holders(r) = {} /\ <<b, r>> \notin deleted
    BY <1>0, <2>2 DEF Recorded, Holders, New
  <2>4. synced[b] = NoRow
    <3>1. SUFFICES ASSUME synced[b] # NoRow PROVE FALSE
      OBVIOUS
    <3>2. Listed(b, r)
      BY <2>1, <3>1 DEF Listed, HistoryAssumption
    <3> QED BY <1>0, <2>3, <3>1, <3>2 DEF DeletionInv, Accounted
  <2>5. Rows = {} /\ Rows' = {}
    BY <1>0, <2>4 DEF OneLedger, Rows, NoRow
  <2>6. Canonical(r)' = Absent
    <3>1. Canonical(r) = Absent
      BY <2>5, NoLedger
    <3> QED BY <1>0, <2>5, <3>1 DEF Canonical
  <2>7. Holders(r)' = {b}
    BY <1>0, <1>1, <2>3 DEF Holders, Holds
  <2>8. CopiesOf(r)' = {d}
    BY <2>7 DEF CopiesOf
  <2>9. ChangedCopies(r)' = {}
    BY <1>5, <2>7 DEF ChangedCopies
  <2> QED BY <1>2, <2>6, <2>8, <2>9 DEF Standing
<1> QED BY <1>4, <1>5

LEMMA EditsUser ==
  ASSUME HistoryAssumption, MergeTypes, DeletionInv, EditInv,
         EditRoutine \/ TakeTurn \/ Delete \/ SignIn
  PROVE  EditInv'
<1>0. /\ synced' = synced /\ merge' = merge /\ merge.pc \in {"idle", "prompt"}
      /\ latest \in [Routines -> SoFar] /\ spoilt \subseteq Routines
      /\ OneLedger
  BY DEF EditRoutine, TakeTurn, Delete, SignIn, AppRuns, MergeTypes, EditInv
<1>1. OneLedger'
  BY <1>0, LedgerSame
<1>2. CASE EditRoutine
  <2>1. PICK r \in Routines :
           /\ New(r) \/ Holds(active, r)
           /\ tasks'[active][r] # Absent
           /\ tasks'[active][r].name = edits + 1 \/ tasks'[active][r].rest = edits + 1
           /\ \A a \in Owners, q \in Routines :
                a # active \/ q # r => tasks'[a][q] = tasks[a][q]
           /\ latest' = [latest EXCEPT ![r] = IF Recorded(r) THEN tasks'[active][r] ELSE Absent]
           /\ conflicted' = conflicted \ {r}
           /\ spoilt' = Unplanned(r)
    BY <1>2, EditIs
  <2>2. ASSUME NEW q \in Routines \ (spoilt' \cup conflicted'), NEW d \in SoFar' \ {Absent},
               latest'[q] = d
        PROVE  Kept(q, d)'
    <3>1. CASE q = r
      <4>1. merge.pc = "idle" /\ q \notin spoilt
        BY <1>0, <2>1, <2>2, <3>1 DEF Unplanned
      <4>2. Recorded(q) /\ d = tasks'[active][q]
        BY <1>0, <2>1, <2>2, <3>1
      <4>3. PICK b \in Owners : b = active
        BY DEF MergeTypes
      <4>4. New(q) \/ Holds(b, q)
        BY <2>1, <3>1, <4>3
      <4>5. /\ tasks'[b][q] = d /\ d # Absent /\ (d.name = edits + 1 \/ d.rest = edits + 1)
            /\ \A a \in Owners : a # b => tasks'[a][q] = tasks[a][q]
        BY <2>1, <2>2, <3>1, <4>2, <4>3
      <4>6. (d \in CopiesOf(q))' /\ Standing(q, d)'
        BY <1>0, <1>2, <4>1, <4>2, <4>3, <4>4, <4>5, EditStands
      <4> QED BY <1>0, <4>1, <4>6 DEF Kept
    <3>2. CASE q # r
      <4>1. q \notin spoilt /\ q \notin conflicted /\ latest[q] = d /\ d \in SoFar
        BY <1>0, <2>1, <2>2, <3>2 DEF Unplanned
      <4>2. Kept(q, d)
        BY <2>2, <4>1 DEF EditInv
      <4>3. \A a \in Owners : tasks'[a][q] = tasks[a][q]
        BY <2>1, <3>2
      <4> QED BY <1>0, <4>2, <4>3, KeptSame
    <3> QED BY <3>1, <3>2
  <2> QED BY <1>1, <2>2 DEF EditInv
<1>3. CASE TakeTurn \/ SignIn
  <2>1. UNCHANGED <<tasks, latest, spoilt, conflicted, edits>> \/
        UNCHANGED <<tasks, latest, spoilt, conflicted>>
    BY <1>3 DEF TakeTurn, SignIn, asideVars
  <2>2. ASSUME NEW q \in Routines \ (spoilt' \cup conflicted'), NEW d \in SoFar' \ {Absent},
               latest'[q] = d
        PROVE  Kept(q, d)'
    <3>1. Kept(q, d)
      BY <1>0, <2>1, <2>2 DEF EditInv
    <3>2. \A a \in Owners : tasks'[a][q] = tasks[a][q]
      BY <2>1
    <3> QED BY <1>0, <3>1, <3>2, KeptSame
  <2> QED BY <1>1, <2>2 DEF EditInv
<1>4. CASE Delete
  <2>1. PICK x \in Items :
           /\ \A a \in Owners, r \in Routines :
                tasks'[a][r] = IF a = active /\ r = x THEN Absent ELSE tasks[a][r]
           /\ \A r \in Routines : latest'[r] = IF r = x THEN Absent ELSE latest[r]
           /\ spoilt \subseteq spoilt'
    BY <1>4, DeleteIs
  <2>2. conflicted' = conflicted
    BY <1>4 DEF Delete
  <2>3. ASSUME NEW q \in Routines \ (spoilt' \cup conflicted'), NEW d \in SoFar' \ {Absent},
               latest'[q] = d
        PROVE  Kept(q, d)'
    <3>1. q # x /\ latest[q] = d
      BY <2>1, <2>3
    <3>2. Kept(q, d)
      BY <1>0, <2>1, <2>2, <2>3, <3>1 DEF EditInv
    <3>3. \A a \in Owners : tasks'[a][q] = tasks[a][q]
      BY <2>1, <3>1
    <3> QED BY <1>0, <3>2, <3>3, KeptSame
  <2> QED BY <1>1, <2>3 DEF EditInv
<1> QED BY <1>2, <1>3, <1>4

(***************************************************************************)
(* The plan, and its steps up to the registry.                             *)
(***************************************************************************)
LEMMA KeptOn ==
  ASSUME NEW r \in Routines, NEW d, Kept(r, d), synced' = synced,
         merge.pc \notin {"idle", "ledger"}, merge'.pc \in {"chats", "registry"},
         merge'.tasks = merge.tasks, merge'.resolved = merge.resolved,
         \A a \in Owners : tasks'[a][r] = tasks[a][r]
  PROVE  Kept(r, d)'
<1>1. /\ Standing(r, d)' <=> Standing(r, d)
      /\ (d \in CopiesOf(r))' <=> d \in CopiesOf(r)
  BY StandingSame
<1> QED BY <1>1 DEF Kept

LEMMA EditsPlan ==
  ASSUME HistoryAssumption, MergeTypes, DeletionInv, EditInv, Plan \/ Stop \/ CopyChats
  PROVE  EditInv'
<1>0. /\ synced' = synced /\ tasks' = tasks /\ latest' = latest /\ edits' = edits
      /\ spoilt' = spoilt /\ OneLedger /\ SoFar' = SoFar
  BY DEF Plan, Stop, CopyChats, asideVars, EditInv, SoFar
<1>1. OneLedger'
  BY <1>0, LedgerSame
<1>2. CASE Plan
  <2>1. PICK t \in Owners, chosen \in [Routines -> UNION {CopiesOf(r) \cup {Canonical(r), Absent} : r \in Routines}] :
            /\ \A r \in Routines : chosen[r] \in Selected(t, r)
            /\ merge'.pc = "prompt" /\ merge'.tasks = chosen
            /\ merge'.resolved = {r \in Routines : Holders(r) # {} /\ Resolved(r)}
    BY <1>2 DEF Plan
  <2>2. merge.pc = "idle" /\ conflicted' = conflicted \cup {r \in Routines : Holders(r) # {} /\ ~Resolved(r)}
    BY <1>2 DEF Plan
  <2>3. ASSUME NEW r \in Routines \ (spoilt' \cup conflicted'), NEW d \in SoFar \ {Absent},
               latest'[r] = d
        PROVE  Kept(r, d)'
    <3>1. Kept(r, d)
      BY <1>0, <2>2, <2>3 DEF EditInv
    <3>2. d \in CopiesOf(r) /\ Standing(r, d) /\ Holders(r) # {}
      BY <2>2, <3>1 DEF Kept, CopiesOf
    <3>3. Resolved(r)
      BY <2>2, <2>3, <3>2
    <3>4. Winners(r) = {d}
      BY <3>2, <3>3, StandingIsClear
    <3>5. chosen[r] = d
      BY <2>1, <3>2, <3>3, <3>4 DEF Selected
    <3>6. Standing(r, d)' /\ (d \in CopiesOf(r))'
      BY <1>0, <3>2, StandingSame
    <3> QED BY <2>1, <3>2, <3>3, <3>5, <3>6 DEF Kept
  <2> QED BY <1>0, <1>1, <2>3 DEF EditInv
<1>3. CASE Stop \/ CopyChats
  <2>1. merge \in Ops /\ conflicted' = conflicted
    BY <1>3 DEF Stop, CopyChats, MergeTypes, OpTypes, asideVars
  <2>2. merge.pc \in {"prompt", "chats"} /\ merge'.pc \in {"chats", "registry"}
        /\ merge'.tasks = merge.tasks /\ merge'.resolved = merge.resolved
    BY <1>3, <2>1 DEF Stop, CopyChats, Proceed, Ops
  <2>3. ASSUME NEW r \in Routines \ (spoilt' \cup conflicted'), NEW d \in SoFar \ {Absent},
               latest'[r] = d
        PROVE  Kept(r, d)'
    <3>1. Kept(r, d)
      BY <1>0, <2>1, <2>3 DEF EditInv
    <3> QED BY <1>0, <2>2, <3>1, KeptOn
  <2> QED BY <1>0, <1>1, <2>3 DEF EditInv
<1> QED BY <1>2, <1>3

(***************************************************************************)
(* What ends a switch.                                                     *)
(***************************************************************************)
LEMMA NotRenamed ==
  ASSUME NEW r \in Routines, NEW d, Kept(r, d), merge.pc = "ledger", r \notin TakenForEdited
  PROVE  Standing(r, d)
<1>1. merge.tasks[r] = d /\ Renamed(r, d)
  BY DEF Kept
<1>2. ChangedCopies(r) \subseteq {d}
  BY <1>1 DEF TakenForEdited, ChangedCopies, Holders
<1> QED BY <1>1, <1>2 DEF Renamed, Standing

LEMMA EditsEnd ==
  ASSUME HistoryAssumption, MergeTypes, DeletionInv, EditInv,
         Decline \/ Complete \/ Abort \/ CommandDies
  PROVE  EditInv'
<1>0. /\ synced' = synced /\ latest' = latest /\ merge'.pc = "idle" /\ spoilt \subseteq spoilt'
      /\ conflicted' = conflicted /\ OneLedger /\ SoFar' = SoFar
  BY DEF Decline, Complete, Abort, CommandDies, NoMerge, asideVars, EditInv, SoFar
<1>1. OneLedger'
  BY <1>0, LedgerSame
<1>2. ASSUME NEW r \in Routines \ (spoilt' \cup conflicted'), NEW d \in SoFar \ {Absent},
             latest'[r] = d
      PROVE  Kept(r, d)'
  <2>1. Kept(r, d) /\ d \in CopiesOf(r)
    BY <1>0, <1>2 DEF EditInv, Kept
  <2>2. Standing(r, d)
    <3>1. CASE merge.pc = "ledger"
      <4>1. r \notin TakenForEdited
        BY <1>2, <3>1 DEF Decline, Complete, Abort, CommandDies
      <4> QED BY <2>1, <3>1, <4>1, NotRenamed
    <3>2. CASE merge.pc # "ledger"
      BY <2>1, <3>2 DEF Kept
    <3> QED BY <3>1, <3>2
  <2>3. \A a \in Owners : tasks'[a][r] = tasks[a][r]
    <3>1. CASE Decline \/ Complete \/ CommandDies
      BY <3>1 DEF Decline, Complete, CommandDies
    <3>2. CASE Abort
      <4>1. tasks' = merge.old /\ (merge.pc # "login" => merge.old = tasks)
        BY <3>2 DEF Abort, DeletionInv, Archived
      <4>2. merge.pc = "login" =>
              spoilt' = spoilt \cup {q \in Routines : \E a \in Owners : tasks[a][q] # merge.old[a][q]}
        BY <3>2 DEF Abort
      <4> QED BY <1>2, <4>1, <4>2
    <3> QED BY <3>1, <3>2
  <2> QED BY <1>0, <2>1, <2>2, <2>3, KeptEnds
<1> QED BY <1>0, <1>1, <1>2 DEF EditInv

(***************************************************************************)
(* The registry is written: the target's copy is the planned one.          *)
(***************************************************************************)
LEMMA EditsWrite ==
  ASSUME HistoryAssumption, MergeTypes, EditInv, WriteRegistry
  PROVE  EditInv'
<1>0. /\ synced' = synced /\ latest' = latest /\ edits' = edits /\ SoFar' = SoFar
      /\ spoilt' = spoilt /\ conflicted' = conflicted /\ OneLedger
  BY DEF WriteRegistry, EditInv, SoFar
<1>1. OneLedger'
  BY <1>0, LedgerSame
<1>2. /\ merge'.target = merge.target /\ merge'.tasks = merge.tasks /\ merge'.resolved = merge.resolved
      /\ merge.pc = "registry" /\ merge'.pc = "sweep"
  BY GoOn
<1>3. PICK t \in Owners : t = merge.target
  BY GoOn
<1>4. \A a \in Owners, r \in Routines :
        tasks'[a][r] = IF a = t THEN merge.tasks[r] ELSE tasks[a][r]
  BY <1>3, WriteIs
<1>5. ASSUME NEW r \in Routines \ (spoilt' \cup conflicted'), NEW d \in SoFar \ {Absent},
             latest'[r] = d
      PROVE  Kept(r, d)'
  <2>1. Kept(r, d)
    BY <1>0, <1>5 DEF EditInv
  <2>2. merge.tasks[r] = d /\ r \in merge.resolved /\ Standing(r, d)
    BY <1>2, <2>1 DEF Kept
  <2>3. /\ tasks'[t][r] = d
        /\ \A a \in Owners : a # t => tasks'[a][r] = tasks[a][r]
    BY <1>4, <2>2
  <2>4. t \in Holders(r)' /\ (d \in CopiesOf(r))'
    BY <2>3 DEF Holders, Holds, CopiesOf
  <2>5. \A a \in Owners : a # t => /\ Change(a, r)' = Change(a, r)
                                   /\ a \in Holders(r)' <=> a \in Holders(r)
    BY <1>0, <2>3 DEF Change, Rows, NoRow, Holders, Holds
  <2>6. Canonical(r)' = Canonical(r)
    BY <1>0 DEF Canonical, Rows, NoRow
  <2>7. ChangedCopies(r)' \subseteq ChangedCopies(r) \cup {d}
    <3>1. SUFFICES ASSUME NEW a \in Owners, a \in Holders(r)', Change(a, r)' = "yes"
                   PROVE  tasks'[a][r] \in ChangedCopies(r) \cup {d}
      BY DEF ChangedCopies, Holders
    <3>2. CASE a = t
      BY <2>3, <3>2
    <3>3. CASE a # t
      BY <2>3, <2>5, <3>1, <3>3 DEF ChangedCopies
    <3> QED BY <3>2, <3>3
  <2>8. d \in ChangedCopies(r) => (d \in ChangedCopies(r))'
    <3>1. SUFFICES ASSUME NEW a \in Holders(r), Change(a, r) = "yes", tasks[a][r] = d
                   PROVE  (d \in ChangedCopies(r))'
      BY DEF ChangedCopies
    <3>2. a \in Owners /\ tasks'[a][r] = tasks[a][r]
      BY <2>3, <3>1 DEF Holders
    <3>3. Change(a, r)' = "yes" /\ a \in Holders(r)'
      BY <1>0, <3>1, <3>2 DEF Change, Rows, NoRow, Holders, Holds
    <3> QED BY <3>1, <3>2, <3>3 DEF ChangedCopies
  <2>9. CopiesOf(r)' \subseteq CopiesOf(r) \cup {d}
    BY <2>3, <2>5 DEF CopiesOf, Holders
  <2>10. Standing(r, d)'
    <3>1. CASE d \in ChangedCopies(r)
      BY <2>8, <3>1 DEF Standing
    <3>2. CASE ChangedCopies(r) = {} /\ Canonical(r) = d
      BY <2>6, <2>7, <3>2 DEF Standing
    <3>3. CASE ChangedCopies(r) = {} /\ Canonical(r) = Absent /\ CopiesOf(r) = {d}
      <4>1. CopiesOf(r)' = {d}
        BY <2>4, <2>9, <3>3
      <4> QED BY <2>6, <2>7, <3>3, <4>1 DEF Standing
    <3> QED BY <2>2, <3>1, <3>2, <3>3 DEF Standing
  <2> QED BY <1>2, <1>3, <2>2, <2>3, <2>4, <2>10 DEF Kept
<1> QED BY <1>0, <1>1, <1>5 DEF EditInv

(***************************************************************************)
(* What is not swept is kept.                                              *)
(***************************************************************************)
LEMMA EditsSweep ==
  ASSUME HistoryAssumption, MergeTypes, EditInv, Sweep
  PROVE  EditInv'
<1>0. /\ synced' = synced /\ edits' = edits /\ SoFar' = SoFar
      /\ spoilt' = spoilt /\ conflicted' = conflicted /\ OneLedger
  BY DEF Sweep, EditInv, SoFar
<1>1. OneLedger'
  BY <1>0, LedgerSame
<1>2. /\ merge'.target = merge.target /\ merge'.tasks = merge.tasks /\ merge'.resolved = merge.resolved
      /\ merge'.doomed = merge.doomed /\ merge.target \in Owners
      /\ merge.pc = "sweep" /\ merge'.pc = "names"
  BY GoOn
<1>3. PICK as \in SUBSET Owners :
        /\ \A a \in Owners, r \in Routines :
             tasks'[a][r] = IF a \in as /\ r \in merge.doomed THEN Absent ELSE tasks[a][r]
        /\ \A r \in Routines : latest'[r] = IF r \in merge.doomed THEN Absent ELSE latest[r]
  BY SweepIs
<1>4. ASSUME NEW r \in Routines \ (spoilt' \cup conflicted'), NEW d \in SoFar \ {Absent},
             latest'[r] = d
      PROVE  Kept(r, d)'
  <2>1. r \notin merge.doomed /\ latest[r] = d
    BY <1>3, <1>4
  <2>2. Kept(r, d)
    BY <1>0, <1>4, <2>1 DEF EditInv
  <2>3. \A a \in Owners : tasks'[a][r] = tasks[a][r]
    BY <1>3, <2>1
  <2>4. Standing(r, d)' /\ (d \in CopiesOf(r))'
    BY <1>0, <1>2, <2>2, <2>3, StandingSame DEF Kept
  <2>5. tasks'[merge.target][r] = d
    BY <1>2, <2>2, <2>3 DEF Kept
  <2> QED BY <1>2, <2>1, <2>2, <2>4, <2>5 DEF Kept
<1> QED BY <1>0, <1>1, <1>4 DEF EditInv

(***************************************************************************)
(* Giving every copy the planned name leaves the planned copies as they    *)
(* are.                                                                    *)
(***************************************************************************)
LEMMA EditsNames ==
  ASSUME HistoryAssumption, MergeTypes, EditInv, ConvergeNames
  PROVE  EditInv'
<1>0. /\ synced' = synced /\ edits' = edits /\ SoFar' = SoFar /\ latest' = latest
      /\ spoilt' = spoilt /\ conflicted' = conflicted /\ OneLedger
  BY DEF ConvergeNames, EditInv, SoFar, asideVars
<1>1. OneLedger'
  BY <1>0, LedgerSame
<1>2. /\ merge'.target = merge.target /\ merge'.tasks = merge.tasks /\ merge'.resolved = merge.resolved
      /\ merge'.doomed = merge.doomed /\ merge.target \in Owners
      /\ merge.pc = "names" /\ merge'.pc = "ledger"
  BY GoOn
<1>3. \A a \in Owners, r \in Routines :
        /\ tasks'[a][r] \in {tasks[a][r], Named(a, r)}
        /\ tasks'[a][r] = Absent <=> tasks[a][r] = Absent
  BY NamesIs
<1>4. ASSUME NEW r \in Routines \ (spoilt' \cup conflicted'), NEW d \in SoFar \ {Absent},
             latest'[r] = d
      PROVE  Kept(r, d)'
  <2>1. Kept(r, d)
    BY <1>0, <1>4 DEF EditInv
  <2>2. /\ d \in CopiesOf(r) /\ Standing(r, d)
        /\ merge.tasks[r] = d /\ r \in merge.resolved /\ tasks[merge.target][r] = d /\ r \notin merge.doomed
    BY <1>2, <2>1 DEF Kept
  <2>3. ASSUME NEW a \in Owners, tasks[a][r] = d PROVE tasks'[a][r] = d
    <3>1. [d EXCEPT !.name = d.name] = d
      BY DEF SoFar
    <3>2. Named(a, r) = d
      BY <2>2, <2>3, <3>1 DEF Named
    <3> QED BY <1>3, <2>3, <3>2
  <2>4. tasks'[merge.target][r] = d
    BY <1>2, <2>2, <2>3
  <2>5. (d \in CopiesOf(r))'
    BY <1>2, <2>4 DEF CopiesOf, Holders, Holds
  <2>6. Canonical(r)' = Canonical(r)
    BY <1>0 DEF Canonical, Rows, NoRow
  <2>7. Renamed(r, d)'
    <3>1. CASE d \in ChangedCopies(r)
      <4>1. PICK a \in Owners : a \in Holders(r) /\ Change(a, r) = "yes" /\ tasks[a][r] = d
        BY <3>1 DEF ChangedCopies, Holders
      <4>2. tasks'[a][r] = d
        BY <2>3, <4>1
      <4>3. Change(a, r)' = "yes" /\ a \in Holders(r)'
        BY <1>0, <4>1, <4>2 DEF Change, Rows, NoRow, Holders, Holds
      <4>4. (d \in ChangedCopies(r))'
        BY <4>2, <4>3 DEF ChangedCopies
      <4> QED BY <4>4 DEF Renamed
    <3>2. CASE Canonical(r) = d
      BY <2>6, <3>2 DEF Renamed
    <3>3. CASE ChangedCopies(r) = {} /\ Canonical(r) = Absent /\ CopiesOf(r) = {d}
      <4>1. \A a \in Owners : tasks'[a][r] = tasks[a][r]
        <5>1. SUFFICES ASSUME NEW a \in Owners PROVE tasks'[a][r] = tasks[a][r]
          OBVIOUS
        <5>2. CASE tasks[a][r] = Absent
          BY <1>3, <5>2
        <5>3. CASE tasks[a][r] # Absent
          <6>1. tasks[a][r] = d
            BY <3>3, <5>3 DEF CopiesOf, Holders, Holds
          <6> QED BY <2>3, <6>1
        <5> QED BY <5>2, <5>3
      <4>2. Renamed(r, d)' <=> Renamed(r, d)
        BY <1>0, <4>1, StandingSame
      <4> QED BY <3>3, <4>2 DEF Renamed
    <3> QED BY <2>2, <3>1, <3>2, <3>3 DEF Standing
  <2> QED BY <1>2, <2>2, <2>4, <2>5, <2>7 DEF Kept
<1> QED BY <1>0, <1>1, <1>4 DEF EditInv

(***************************************************************************)
(* The ledger, written or not.                                             *)
(***************************************************************************)
LEMMA RowIs ==
  ASSUME HistoryAssumption, MergeTypes, merge.pc = "ledger", NEW a \in Owners
  PROVE  Row(a) # NoRow /\ Row(a).tasks = tasks[a]
         /\ \A r \in Routines : Row(a).canon[r] = IF r \in merge.resolved \ merge.doomed /\ Holders(r) # {}
                                                  THEN merge.tasks[r] ELSE Absent
<1>0. merge.tasks \in [Routines -> SoFar] /\ Absent \in SoFar /\ tasks[a] \in [Routines -> SoFar]
  BY DEF MergeTypes, OpTypes, Ops, SoFar, Registries
<1>1. Row(a) \in RowsSoFar
  <2>1. tasks[a] \in [Routines -> SoFar \cup {Unknown}]
    BY <1>0
  <2>2. [r \in Routines |-> IF r \in merge.resolved \ merge.doomed /\ Holders(r) # {}
                            THEN merge.tasks[r] ELSE Absent] \in [Routines -> SoFar]
    BY <1>0
  <2> QED BY <2>1, <2>2 DEF Row, RowsSoFar
<1>2. Row(a) # NoRow
  BY <1>1, SoFarIs DEF MergeTypes, NoRow
<1> QED BY <1>2 DEF Row

LEMMA EditsSave ==
  ASSUME HistoryAssumption, MergeTypes, EditInv, SaveLedger
  PROVE  EditInv'
<1>0. /\ tasks' = tasks /\ edits' = edits /\ SoFar' = SoFar /\ latest' = latest
      /\ spoilt' = spoilt /\ conflicted' = conflicted /\ merge.pc = "ledger"
      /\ active \in Owners
  BY DEF SaveLedger, SoFar, asideVars, MergeTypes
<1>1. /\ merge'.target = merge.target /\ merge'.tasks = merge.tasks /\ merge'.resolved = merge.resolved
      /\ merge'.doomed = merge.doomed /\ merge.target \in Owners /\ merge'.pc = "login"
  BY GoOn
<1>2. \A a \in Owners : /\ synced'[a] # NoRow /\ synced'[a].tasks = tasks[a]
                        /\ \A r \in Routines : synced'[a].canon[r] =
                             IF r \in merge.resolved \ merge.doomed /\ Holders(r) # {}
                             THEN merge.tasks[r] ELSE Absent
  <2>1. \A a \in Owners : synced'[a] = Row(a)
    BY DEF SaveLedger
  <2> QED BY <1>0, <2>1, RowIs
<1>3. Rows' = Owners
  BY <1>2 DEF Rows, NoRow
<1>4. OneLedger'
  BY <1>3 DEF OneLedger
<1>5. ASSUME NEW r \in Routines \ (spoilt' \cup conflicted'), NEW d \in SoFar \ {Absent},
             latest'[r] = d
      PROVE  Kept(r, d)'
  <2>1. Kept(r, d)
    BY <1>0, <1>5 DEF EditInv
  <2>2. /\ d \in CopiesOf(r)
        /\ merge.tasks[r] = d /\ r \in merge.resolved /\ tasks[merge.target][r] = d /\ r \notin merge.doomed
    BY <1>0, <2>1 DEF Kept
  <2>3. Holders(r) # {} /\ (d \in CopiesOf(r))'
    BY <1>0, <2>2 DEF CopiesOf, Holders, Holds
  <2>4. \A a \in Owners : synced'[a].canon[r] = d
    BY <1>2, <2>2, <2>3
  <2>5. Canonical(r)' = d
    <3> DEFINE recorded == {synced'[a].canon[r] : a \in Owners}
    <3>1. recorded = {d}
      BY <1>0, <2>4
    <3>2. Cardinality(recorded) = 1
      BY <3>1, FS_Singleton
    <3>3. Canonical(r)' = IF Cardinality(recorded) = 1 THEN CHOOSE e \in recorded : TRUE ELSE Absent
      BY <1>3 DEF Canonical
    <3> HIDE DEF recorded
    <3> QED BY <3>1, <3>2, <3>3
  <2>6. ChangedCopies(r)' = {}
    <3>1. ASSUME NEW a \in Owners, a \in Holders(r)' PROVE Change(a, r)' # "yes"
      BY <1>0, <1>2, <3>1 DEF Change
    <3> QED BY <3>1 DEF ChangedCopies, Holders
  <2>7. Standing(r, d)'
    BY <2>5, <2>6 DEF Standing
  <2>8. tasks'[merge.target][r] = d
    BY <1>0, <2>2
  <2> QED BY <1>1, <2>2, <2>3, <2>7, <2>8 DEF Kept
<1> QED BY <1>0, <1>4, <1>5 DEF EditInv

LEMMA EditsNotSaved ==
  ASSUME HistoryAssumption, MergeTypes, EditInv, LedgerNotSaved
  PROVE  EditInv'
<1>0. /\ synced' = synced /\ tasks' = tasks /\ edits' = edits /\ SoFar' = SoFar
      /\ latest' = latest /\ spoilt' = spoilt \cup TakenForEdited
      /\ conflicted' = conflicted /\ merge.pc = "ledger" /\ OneLedger
  BY DEF LedgerNotSaved, SoFar, EditInv
<1>1. OneLedger'
  BY <1>0, LedgerSame
<1>2. /\ merge'.target = merge.target /\ merge'.tasks = merge.tasks /\ merge'.resolved = merge.resolved
      /\ merge'.doomed = merge.doomed /\ merge.target \in Owners /\ merge'.pc = "login"
  BY GoOn
<1>3. ASSUME NEW r \in Routines \ (spoilt' \cup conflicted'), NEW d \in SoFar \ {Absent},
             latest'[r] = d
      PROVE  Kept(r, d)'
  <2>1. Kept(r, d)
    BY <1>0, <1>3 DEF EditInv
  <2>2. Standing(r, d)
    BY <1>0, <1>3, <2>1, NotRenamed
  <2>3. Standing(r, d)' /\ (d \in CopiesOf(r))'
    BY <1>0, <2>1, <2>2, StandingSame DEF Kept
  <2>4. tasks'[merge.target][r] = d
    BY <1>0, <2>1 DEF Kept
  <2> QED BY <1>0, <1>2, <2>1, <2>3, <2>4 DEF Kept
<1> QED BY <1>0, <1>1, <1>3 DEF EditInv

LEMMA EditsInit == HistoryAssumption /\ MergeInit => EditInv
<1> SUFFICES ASSUME HistoryAssumption, MergeInit PROVE EditInv
  OBVIOUS
<1>1. \A r \in Routines : latest[r] = Absent
  BY DEF MergeInit
<1>2. OneLedger
  <2>1. CASE synced = [a \in Owners |-> NoRow]
    BY <2>1 DEF OneLedger, Rows
  <2>2. CASE synced # [a \in Owners |-> NoRow]
    <3>1. synced = [a \in Owners |->
          [tasks |-> [r \in Routines |-> IF tasks[a][r] = Absent THEN Absent ELSE Unknown],
           canon |-> [r \in Routines |-> Absent], chats |-> {}]]
      BY <2>2 DEF MergeInit
    <3>2. MergeTypes
      BY TypesInit
    <3>3. Absent \notin RowsSoFar
      BY <3>2, SoFarIs DEF MergeTypes
    <3>4. Absent \in SoFar
      BY DEF SoFar
    <3>5. ASSUME NEW a \in Owners PROVE synced[a] # NoRow
      <4>1. synced[a] = [tasks |-> [r \in Routines |-> IF tasks[a][r] = Absent THEN Absent ELSE Unknown],
                         canon |-> [r \in Routines |-> Absent], chats |-> {}]
        BY <3>1
      <4>2. [r \in Routines |-> IF tasks[a][r] = Absent THEN Absent ELSE Unknown]
              \in [Routines -> SoFar \cup {Unknown}]
        BY <3>4
      <4>3. [r \in Routines |-> Absent] \in [Routines -> SoFar]
        BY <3>4
      <4>4. synced[a] \in RowsSoFar
        BY <4>1, <4>2, <4>3 DEF RowsSoFar
      <4> QED BY <3>3, <4>4 DEF NoRow
    <3> QED BY <3>5 DEF OneLedger, Rows
  <2> QED BY <2>1, <2>2
<1> QED BY <1>1, <1>2 DEF EditInv

LEMMA EditsStep ==
  HistoryAssumption /\ MergeTypes /\ DeletionInv /\ EditInv /\ [MergeNext]_mergeVars => EditInv'
<1> SUFFICES ASSUME HistoryAssumption, MergeTypes, DeletionInv, EditInv, [MergeNext]_mergeVars
             PROVE  EditInv'
  OBVIOUS
<1>1. CASE UNCHANGED mergeVars
  <2>1. /\ synced' = synced /\ tasks' = tasks /\ merge' = merge /\ latest' = latest /\ SoFar' = SoFar
        /\ spoilt' = spoilt /\ conflicted' = conflicted /\ OneLedger
    BY <1>1 DEF mergeVars, asideVars, SoFar, EditInv
  <2>2. OneLedger'
    BY <2>1, LedgerSame
  <2>3. ASSUME NEW r \in Routines \ (spoilt' \cup conflicted'), NEW d \in SoFar \ {Absent},
               latest'[r] = d
        PROVE  Kept(r, d)'
    <3>1. Kept(r, d)
      BY <2>1, <2>3 DEF EditInv
    <3> QED BY <2>1, <3>1, KeptSame
  <2> QED BY <2>1, <2>2, <2>3 DEF EditInv
<1>2. CASE MergeNext
  BY <1>2, EditsUser, EditsPlan, EditsEnd, EditsWrite, EditsSweep, EditsNames, EditsSave,
     EditsNotSaved DEF MergeNext
<1> QED BY <1>1, <1>2

LEMMA EditsInvariant ==
  ASSUME HistoryAssumption
  PROVE  MergeSpec => [](MergeTypes /\ DeletionInv /\ EditInv)
<1>1. MergeInit => MergeTypes /\ DeletionInv /\ EditInv
  BY TypesInit, AccountedInit, EditsInit
<1>2. MergeTypes /\ DeletionInv /\ EditInv /\ [MergeNext]_mergeVars =>
        (MergeTypes /\ DeletionInv /\ EditInv)'
  BY TypesStep, DeletionStep, EditsStep
<1> QED BY <1>1, <1>2, PTL DEF MergeSpec

(***************************************************************************)
(* What the user last made of a routine is still in some account, unless a *)
(* plan reported a conflict for it, whatever is edited where, and whatever *)
(* fails or is cut short between (NoEditIsLost).                           *)
(***************************************************************************)
THEOREM EditsHold ==
  ASSUME HistoryAssumption
  PROVE  MergeSpec => []NoEditIsLost
<1>1. ASSUME MergeTypes, EditInv PROVE NoEditIsLost
  <2>1. SUFFICES ASSUME NEW r \in Routines \ (spoilt \cup conflicted), latest[r] # Absent
                 PROVE  latest[r] \in CopiesOf(r)
    BY DEF NoEditIsLost
  <2>2. latest[r] \in SoFar \ {Absent}
    BY <1>1, <2>1 DEF MergeTypes
  <2>3. PICK d \in SoFar \ {Absent} : d = latest[r]
    BY <2>2
  <2>4. Kept(r, d)
    BY <1>1, <2>1, <2>3 DEF EditInv
  <2> QED BY <2>3, <2>4 DEF Kept
<1> QED BY <1>1, EditsInvariant, PTL

(***************************************************************************)
(* The account a complete switch leaves the application in shows the       *)
(* user's last edit of every routine without a reported conflict           *)
(* (TheNewestIsShown).                                                     *)
(***************************************************************************)
THEOREM NewestShown ==
  ASSUME HistoryAssumption
  PROVE  MergeSpec => TheNewestIsShown
<1>1. ASSUME MergeTypes, EditInv, Complete
      PROVE  \A r \in Routines \ (spoilt \cup conflicted) : latest[r] # Absent =>
               tasks'[active'][r] = latest[r]
  <2>1. SUFFICES ASSUME NEW r \in Routines \ (spoilt \cup conflicted), latest[r] # Absent
                 PROVE  tasks'[active'][r] = latest[r]
    OBVIOUS
  <2>2. latest[r] \in SoFar \ {Absent}
    BY <1>1, <2>1 DEF MergeTypes
  <2>3. PICK d \in SoFar \ {Absent} : d = latest[r]
    BY <2>2
  <2>4. Kept(r, d)
    BY <1>1, <2>1, <2>3 DEF EditInv
  <2>5. merge.pc = "login" /\ tasks' = tasks /\ active' = merge.target
    BY <1>1 DEF Complete
  <2> QED BY <2>3, <2>4, <2>5 DEF Kept
<1>2. MergeTypes /\ EditInv =>
        [Complete => \A r \in Routines \ (spoilt \cup conflicted) : latest[r] # Absent =>
           tasks'[active'][r] = latest[r]]_mergeVars
  BY <1>1
<1> QED BY <1>2, EditsInvariant, PTL DEF TheNewestIsShown
=============================================================================
