---------------------------- MODULE AnthropicFetch ----------------------------
(***************************************************************************)
(* fetch_snapshot of src/src/anthropic/fetch.rs: every ai-usagebar process *)
(* on the machine (one Waybar instance per monitor, the tray, the TUI)     *)
(* that shows one Claude account runs it against the same cache directory  *)
(* and the same credential slot.  A fetch takes the directory's flock,     *)
(* reads the credential, answers from the cache when it may, refreshes a   *)
(* token about to expire (the server rotates the refresh token), asks for  *)
(* the usage and records what happened.                                    *)
(*                                                                         *)
(* A process may die at every step; the kernel then frees its flocks.  The *)
(* _Bug forms are plausible mistakes; no specification uses them.          *)
(***************************************************************************)
EXTENDS UsageCache

CONSTANTS Procs,        \* the processes that fetch
          NoOne,        \* the holder of a free lock
          Desktop,      \* the account is read from Claude Desktop's store
          MaxRotations  \* bound: refresh tokens the server hands out

ASSUME ProcAssumption == /\ NoOne \notin Procs
                         /\ Desktop \in BOOLEAN
                         /\ MaxRotations \in Nat

VARIABLES
  cache,     \* the cache directory
  lock,      \* the process that holds its .fetch.lock
  slot,      \* the credential the account's clients share
  issued,    \* the refresh token each login's server accepts: the latest
  pc,        \* where each process is in fetch_snapshot
  ttl,       \* the TTL it was called with: 0 is a wire-only read
  creds,     \* its copy of the credential
  read,      \* the payload it took up, and the age it had
  wire,      \* the grant it has under way and the server's answer
  code,      \* the failure it is recording
  todo,      \* the file operations it has still to do
  out,       \* what its last fetch returned
  stray,     \* grants whose sender no longer waits, still on their way
  lost       \* history: a rotated token never reached the slot

vars == <<cache, lock, slot, issued, pc, ttl, creds, read, wire, code, todo, out,
          stray, lost>>

-----------------------------------------------------------------------------
(* Credentials. *)

(***************************************************************************)
(* A stored credential: the login it belongs to, whether its access token  *)
(* is present, whether it is inside REFRESH_BUFFER of its expiry, and its  *)
(* refresh token, the one with number rt; 0 is a blank refresh token.      *)
(***************************************************************************)
Blobs == [login : Logins, access : {"present", "blank"}, expiring : BOOLEAN,
          rt : 0 .. MaxRotations + 1]

Unreadable == [login |-> NoPayload]  \* missing, locked or not parsable

NeedsRefresh(blob) == blob.expiring
CanRefresh(blob) == blob.rt # 0
Refreshed(blob, rt) ==
  [login |-> blob.login, access |-> "present", expiring |-> FALSE, rt |-> rt]

-----------------------------------------------------------------------------
(* The state. *)

(***************************************************************************)
(* The steps a process takes with the cache lock held.                     *)
(***************************************************************************)
Holding == {"credlock", "creds", "look", "reuse", "token", "clear", "grant", "save",
            "authfail", "authquiet", "bearer", "usage", "stored", "fail", "quiet"}

Answers == {"none", "sent", "kept", "rotated", "refused"}

StartingDirs == {EmptyDir} \cup
  { PlainDir(payload, age) : payload \in Logins \cup {Corrupt}, age \in {Ttl, MaxStale + 1} }

Init ==
  /\ cache \in StartingDirs
  /\ lock = NoOne
  /\ slot \in {Unreadable} \cup
       [login : Logins, access : {"present", "blank"}, expiring : BOOLEAN, rt : {0, 1}]
  /\ issued = [login \in Logins |-> 1]
  /\ pc = [p \in Procs |-> "idle"]
  /\ ttl = [p \in Procs |-> Ttl]
  /\ creds = [p \in Procs |-> Unreadable]
  /\ read = [p \in Procs |-> [payload |-> NoPayload, age |-> 0]]
  /\ wire = [p \in Procs |-> "none"]
  /\ code = [p \in Procs |-> NoError]
  /\ todo = [p \in Procs |-> <<>>]
  /\ out = [p \in Procs |-> NoOutcome]
  /\ stray = {}
  /\ lost = FALSE

files == <<cache, slot>>
server == <<issued, stray, lost>>
locals == <<ttl, creds, read, wire, code, todo, out>>

Goto(p, label) == pc' = [pc EXCEPT ![p] = label]

(***************************************************************************)
(* A lock after p's guard, if it holds one, is dropped or p dies.          *)
(***************************************************************************)
Freed(holder, p) == IF holder = p THEN NoOne ELSE holder

(***************************************************************************)
(* Return: the guards go out of scope, and so does everything local.       *)
(***************************************************************************)
Return(p, outcome) ==
  /\ Goto(p, "idle")
  /\ lock' = Freed(lock, p)
  /\ creds' = [creds EXCEPT ![p] = Unreadable]
  /\ read' = [read EXCEPT ![p] = [payload |-> NoPayload, age |-> 0]]
  /\ wire' = [wire EXCEPT ![p] = "none"]
  /\ code' = [code EXCEPT ![p] = NoError]
  /\ todo' = [todo EXCEPT ![p] = <<>>]
  /\ out' = [out EXCEPT ![p] = outcome]
  /\ UNCHANGED ttl

-----------------------------------------------------------------------------
(* The locks. *)

Start(p) ==
  /\ pc[p] = "idle"
  /\ \E t \in {0, Ttl} : ttl' = [ttl EXCEPT ![p] = t]
  /\ out' = [out EXCEPT ![p] = NoOutcome]
  /\ Goto(p, "lock")
  /\ UNCHANGED <<files, lock, server, creds, read, wire, code, todo>>

TakeLock(p) ==
  /\ pc[p] = "lock"
  /\ lock = NoOne
  /\ lock' = p
  /\ Goto(p, "credlock")
  /\ UNCHANGED <<files, server, locals>>

(***************************************************************************)
(* The lock is tried before the deadline is looked at: only a lock that    *)
(* somebody else holds is ever given up on.  Desktop's lock may be held by *)
(* its account switch, which is outside this module.                       *)
(***************************************************************************)
LockTimeout(p) ==
  /\ \/ pc[p] = "lock" /\ lock # NoOne
     \/ pc[p] = "credlock" /\ Desktop
  /\ Return(p, Failed)
  /\ UNCHANGED <<files, server>>

TakeCredLock(p) ==
  /\ pc[p] = "credlock"
  /\ Goto(p, "creds")
  /\ UNCHANGED <<files, lock, server, locals>>

-----------------------------------------------------------------------------
(* The credential and the cache. *)

ResolveCreds(p) ==
  /\ pc[p] = "creds"
  /\ IF slot = Unreadable
     THEN Return(p, Failed)
     ELSE /\ creds' = [creds EXCEPT ![p] = slot]
          /\ Goto(p, "look")
          /\ UNCHANGED <<lock, ttl, read, wire, code, todo, out>>
  /\ UNCHANGED <<files, server>>

(***************************************************************************)
(* A payload that does not parse falls through to a live fetch.            *)
(***************************************************************************)
LookInCache(p) ==
  /\ pc[p] = "look"
  /\ LET found == FreshPayload(cache, ttl[p])
     IN  CASE found = Limited -> Return(p, Failed)
           [] found \in Logins ->
                /\ read' = [read EXCEPT ![p] = [payload |-> found, age |-> cache.age]]
                /\ Goto(p, "reuse")
                /\ UNCHANGED <<lock, ttl, creds, wire, code, todo, out>>
           [] OTHER -> Goto(p, "token") /\ UNCHANGED <<lock, locals>>
  /\ UNCHANGED <<files, server>>

ReuseCache(p) ==
  /\ pc[p] = "reuse"
  /\ Return(p, CachedOutcome(cache, read[p].payload, read[p].age, FALSE))
  /\ UNCHANGED <<files, server>>

-----------------------------------------------------------------------------
(* The refresh. *)

(***************************************************************************)
(* An expiring token without a refresh token clears the recorded error and *)
(* goes on with the access token it has; one with a refresh token is spent.*)
(***************************************************************************)
DecideRefresh(p) ==
  /\ pc[p] = "token"
  /\ CASE ~NeedsRefresh(creds[p]) -> Goto(p, "bearer") /\ UNCHANGED <<todo, wire>>
       [] NeedsRefresh(creds[p]) /\ CanRefresh(creds[p]) ->
            /\ Goto(p, "grant")
            /\ wire' = [wire EXCEPT ![p] = "sent"]
            /\ UNCHANGED todo
       [] OTHER ->
            /\ Goto(p, "clear")
            /\ todo' = [todo EXCEPT ![p] = ClearLastError]
            /\ UNCHANGED wire
  /\ UNCHANGED <<files, lock, server, ttl, creds, read, code, out>>

ErrorCleared(p) ==
  /\ pc[p] = "clear"
  /\ todo[p] = <<>>
  /\ Goto(p, "bearer")
  /\ UNCHANGED <<files, lock, server, locals>>

Rotate(login) == issued' = [issued EXCEPT ![login] = @ + 1]

(***************************************************************************)
(* The token endpoint accepts the latest refresh token only, and rotates   *)
(* it or not as it likes.                                                  *)
(***************************************************************************)
ServerGrants(p) ==
  /\ wire[p] = "sent"
  /\ LET login == creds[p].login
     IN  \/ /\ creds[p].rt # issued[login]
            /\ wire' = [wire EXCEPT ![p] = "refused"]
            /\ UNCHANGED issued
         \/ /\ creds[p].rt = issued[login]
            /\ wire' = [wire EXCEPT ![p] = "kept"]
            /\ UNCHANGED issued
         \/ /\ creds[p].rt = issued[login]
            /\ issued[login] <= MaxRotations
            /\ wire' = [wire EXCEPT ![p] = "rotated"]
            /\ Rotate(login)
  /\ UNCHANGED <<files, lock, stray, lost, pc, ttl, creds, read, code, todo, out>>

(***************************************************************************)
(* A grant nobody waits for any more is still granted when it arrives.     *)
(***************************************************************************)
StrayGrant ==
  /\ \E grant \in stray :
       /\ stray' = stray \ {grant}
       /\ IF grant.rt = issued[grant.login] /\ issued[grant.login] <= MaxRotations
          THEN \/ Rotate(grant.login) /\ lost' = TRUE
               \/ UNCHANGED <<issued, lost>>
          ELSE UNCHANGED <<issued, lost>>
  /\ UNCHANGED <<files, lock, pc, locals>>

(***************************************************************************)
(* p stops waiting for its grant, whatever became of it.                   *)
(***************************************************************************)
Abandon(p) ==
  /\ stray' = IF wire[p] = "sent"
              THEN stray \cup {[login |-> creds[p].login, rt |-> creds[p].rt]}
              ELSE stray
  /\ lost' = (lost \/ wire[p] = "rotated")
  /\ UNCHANGED issued

NewToken_Forgotten_Bug(p) == creds[p].rt

NewToken(p) == IF wire[p] = "rotated" THEN issued[creds[p].login] ELSE creds[p].rt

Granted(p) ==
  /\ pc[p] = "grant"
  /\ wire[p] \in {"kept", "rotated"}
  /\ creds' = [creds EXCEPT ![p] = Refreshed(@, NewToken(p))]
  /\ Goto(p, "save")
  /\ UNCHANGED <<files, lock, server, ttl, read, wire, code, todo, out>>

(***************************************************************************)
(* An answer that names a status or makes no sense is recorded.            *)
(***************************************************************************)
RefreshRefused(p) ==
  /\ pc[p] = "grant"
  /\ wire[p] # "sent"
  /\ \E c \in Codes :
       /\ code' = [code EXCEPT ![p] = c]
       /\ todo' = [todo EXCEPT ![p] = WriteLastError(c)]
  /\ wire' = [wire EXCEPT ![p] = "none"]
  /\ Goto(p, "authfail")
  /\ Abandon(p)
  /\ UNCHANGED <<files, lock, ttl, creds, read, out>>

(***************************************************************************)
(* A transport error, or REFRESH_TIMEOUT, is not.                          *)
(***************************************************************************)
RefreshLost(p) ==
  /\ pc[p] = "grant"
  /\ wire' = [wire EXCEPT ![p] = "none"]
  /\ Goto(p, "authquiet")
  /\ Abandon(p)
  /\ UNCHANGED <<files, lock, ttl, creds, read, code, todo, out>>

SaveCreds(p) ==
  /\ pc[p] = "save"
  /\ slot' = creds[p]
  /\ wire' = [wire EXCEPT ![p] = "none"]
  /\ Goto(p, "bearer")
  /\ UNCHANGED <<cache, lock, server, ttl, creds, read, code, todo, out>>

(***************************************************************************)
(* A failed write-back is fatal when the refresh token rotated: the token  *)
(* on disk is spent.  Otherwise nothing is lost and the fetch goes on.     *)
(***************************************************************************)
SaveFails(p) ==
  /\ pc[p] = "save"
  /\ IF wire[p] = "rotated"
     THEN /\ code' = [code EXCEPT ![p] = "local"]
          /\ todo' = [todo EXCEPT ![p] = WriteLastError("local")]
          /\ Goto(p, "authfail")
     ELSE Goto(p, "bearer") /\ UNCHANGED <<code, todo>>
  /\ wire' = [wire EXCEPT ![p] = "none"]
  /\ Abandon(p)
  /\ UNCHANGED <<files, lock, ttl, creds, read, out>>

-----------------------------------------------------------------------------
(* The usage request. *)

(***************************************************************************)
(* Desktop's lock goes first; a blank access token never reaches the wire. *)
(***************************************************************************)
CheckBearer(p) ==
  /\ pc[p] = "bearer"
  /\ Goto(p, IF creds[p].access = "blank" THEN "quiet" ELSE "usage")
  /\ UNCHANGED <<files, lock, server, locals>>

UsageAnswered(p) ==
  /\ pc[p] = "usage"
  /\ \/ /\ cache' = Persist(cache, creds[p].login)
        /\ todo' = [todo EXCEPT ![p] = ClearMarkers]
        /\ Goto(p, "stored")
        /\ UNCHANGED <<lock, ttl, creds, read, wire, code, out>>
     \/ Return(p, Failed) /\ UNCHANGED cache  \* the payload could not be written
  /\ UNCHANGED <<slot, server>>

UsageFails(p) ==
  /\ pc[p] = "usage"
  /\ \E c \in Codes :
       /\ code' = [code EXCEPT ![p] = c]
       /\ todo' = [todo EXCEPT ![p] = MarkStale \o WriteLastError(c)]
  /\ Goto(p, "fail")
  /\ UNCHANGED <<files, lock, server, ttl, creds, read, wire, out>>

UsageLost(p) ==
  /\ pc[p] = "usage"
  /\ Goto(p, "quiet")
  /\ UNCHANGED <<files, lock, server, locals>>

(***************************************************************************)
(* One file operation of a compound one, or its failure, which every       *)
(* sidecar operation swallows.                                             *)
(***************************************************************************)
RunFileOp(p) ==
  /\ todo[p] # <<>>
  /\ \/ cache' = FileOp(cache, Head(todo[p]), code[p])
     \/ UNCHANGED cache
  /\ todo' = [todo EXCEPT ![p] = Tail(@)]
  /\ UNCHANGED <<slot, lock, server, pc, ttl, creds, read, wire, code, out>>

ReturnFresh(p) ==
  /\ pc[p] = "stored"
  /\ todo[p] = <<>>
  /\ Return(p, Fresh(creds[p].login))
  /\ UNCHANGED <<files, server>>

ReturnFallback(p) ==
  /\ pc[p] \in {"fail", "authfail", "quiet", "authquiet"}
  /\ todo[p] = <<>>
  /\ Return(p, Fallback(cache, IF pc[p] = "fail" THEN code[p] ELSE NoError))
  /\ UNCHANGED <<files, server>>

-----------------------------------------------------------------------------
(* The environment. *)

Crash(p) ==
  /\ pc[p] # "idle"
  /\ Return(p, NoOutcome)
  /\ Abandon(p)
  /\ UNCHANGED files

(***************************************************************************)
(* Time passes: the files age, and the access token comes near its expiry. *)
(***************************************************************************)
Tick ==
  /\ cache' = Aged(cache)
  /\ cache' # cache
  /\ UNCHANGED <<slot, lock, server, pc, locals>>

TokenExpires ==
  /\ slot # Unreadable
  /\ slot' = [slot EXCEPT !.expiring = TRUE]
  /\ slot' # slot
  /\ UNCHANGED <<cache, lock, server, pc, locals>>

Step(p) ==
  \/ TakeLock(p) \/ LockTimeout(p) \/ TakeCredLock(p)
  \/ ResolveCreds(p) \/ LookInCache(p) \/ ReuseCache(p)
  \/ DecideRefresh(p) \/ ErrorCleared(p)
  \/ Granted(p) \/ RefreshRefused(p) \/ RefreshLost(p) \/ SaveCreds(p) \/ SaveFails(p)
  \/ CheckBearer(p) \/ UsageAnswered(p) \/ UsageFails(p) \/ UsageLost(p)
  \/ RunFileOp(p) \/ ReturnFresh(p) \/ ReturnFallback(p)

Next ==
  \/ \E p \in Procs : Start(p) \/ Step(p) \/ ServerGrants(p) \/ Crash(p)
  \/ StrayGrant
  \/ Tick
  \/ TokenExpires

Spec == Init /\ [][Next]_vars

-----------------------------------------------------------------------------
(* Properties. *)

Labels == {"idle", "lock"} \cup Holding

(***************************************************************************)
(* Type correctness of the whole fetch state.                              *)
(***************************************************************************)
TypeOK ==
  /\ cache \in Dirs
  /\ lock \in Procs \cup {NoOne}
  /\ slot \in Blobs \cup {Unreadable}
  /\ issued \in [Logins -> 1 .. MaxRotations + 1]
  /\ pc \in [Procs -> Labels]
  /\ ttl \in [Procs -> {0, Ttl}]
  /\ creds \in [Procs -> Blobs \cup {Unreadable}]
  /\ read \in [Procs -> [payload : Payloads, age : 0 .. MaxStale + 1]]
  /\ wire \in [Procs -> Answers]
  /\ code \in [Procs -> Codes \cup {NoError}]
  /\ todo \in [Procs -> Seq(FileOps)]
  /\ out \in [Procs -> Outcomes]
  /\ stray \subseteq [login : Logins, rt : 0 .. MaxRotations + 1]
  /\ lost \in BOOLEAN

(***************************************************************************)
(* The process between taking the directory's flock and returning is the   *)
(* one that holds it, so two Waybar instances never work in one directory  *)
(* at a time: neither a timed-out waiter nor a dead process frees a lock   *)
(* that is not its own.                                                    *)
(***************************************************************************)
CacheLockExclusive == \A p \in Procs : pc[p] \in Holding <=> lock = p

(***************************************************************************)
(* From the look in the cache to the last byte of an answer.               *)
(***************************************************************************)
Asking(p) == pc[p] \in {"token", "clear", "grant", "save", "bearer", "usage"}

(***************************************************************************)
(* While a 429 backoff is armed nobody is asking the vendor anything, even *)
(* across the waits for the lock and for the token endpoint, unless the    *)
(* payload on disk does not parse (cache.rs, fresh_payload).               *)
(***************************************************************************)
NoRequestWhileBackedOff ==
  \A p \in Procs : Asking(p) => ~BackedOff(cache) \/ cache.payload = Corrupt

(***************************************************************************)
(* A process that waited for the lock while another fetched does not fetch *)
(* again: nobody asks while a readable payload is younger than the TTL it  *)
(* was called with.                                                        *)
(***************************************************************************)
NoRequestWhileFresh ==
  \A p \in Procs : Asking(p) => ~(cache.payload \in Logins /\ cache.age < ttl[p])

(***************************************************************************)
(* No request that the cache makes needless: the two together.             *)
(***************************************************************************)
NoNeedlessRequest == NoRequestWhileBackedOff /\ NoRequestWhileFresh

(***************************************************************************)
(* The refresh token a process sends is the one on disk: no process spends *)
(* a token that another one has already exchanged and replaced.            *)
(***************************************************************************)
SendsWhatTheDiskHolds ==
  \A p \in Procs : wire[p] = "sent" => creds[p].rt = slot.rt

(***************************************************************************)
(* Whatever rotations, refusals, failed payload writes and expired tokens  *)
(* came before, the refresh token on disk is one the server still accepts, *)
(* unless an answer never arrived or the write-back itself failed.         *)
(***************************************************************************)
TokenOnDiskIsLive ==
  \/ lost
  \/ slot = Unreadable \/ slot.rt = 0
  \/ slot.rt = issued[slot.login]
  \/ \E p \in Procs : wire[p] = "rotated"

(***************************************************************************)
(* A figure older than MAX_STALE is never shown: neither by the fallback   *)
(* after a failure nor under an armed backoff.                             *)
(***************************************************************************)
NothingTooOldIsShown ==
  \A p \in Procs : out[p].kind = "cached" => out[p].read <= MaxStale

(***************************************************************************)
(* A wire-only caller (Desktop's prepare) is never given another           *)
(* producer's reading as its own: what the cache held comes back flagged.  *)
(***************************************************************************)
WireOnlyIsFlagged ==
  \A p \in Procs : out[p].kind = "cached" /\ ttl[p] = 0 => out[p].stale

(***************************************************************************)
(* What a fetch returns from the cache is neither too old nor passed off   *)
(* as news: the two together.                                              *)
(***************************************************************************)
HonestOutcome == NothingTooOldIsShown /\ WireOnlyIsFlagged

(***************************************************************************)
(* The shared login rotates as the provider asks: only the stored token is *)
(* sent, by one process at a time, and the new one is stored before anyone *)
(* asks again, through retries, timeouts and crashes.  What breaks it is a *)
(* token lost, or a slot that has no token in the first place.             *)
(***************************************************************************)
HasToken == slot # Unreadable /\ slot.rt # 0
Sending == {p \in Procs : wire[p] = "sent"}

Rotation == INSTANCE TokenRotation
  WITH stored <- IF HasToken THEN slot.rt ELSE 0,
       accepted <- IF HasToken THEN issued[slot.login] ELSE 0,
       asking <- {creds[p].rt : p \in Sending},
       inFlight <- \E p \in Procs : wire[p] = "rotated",
       broken <- lost \/ ~HasToken

RotatesInTurn == Rotation!Spec
=============================================================================
