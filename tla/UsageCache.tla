----------------------------- MODULE UsageCache -----------------------------
(***************************************************************************)
(* One vendor's cache directory (src/src/cache.rs) and the outcome a fetch *)
(* builds from it (src/src/outcome.rs): the payload file with its age, and *)
(* the three sidecars, .stale, .last_error and .retry_after.  The module   *)
(* has no state of its own: a directory is a record, and the operations    *)
(* are operators on it, so that every vendor's state machine shares them.  *)
(*                                                                         *)
(* Time is relative: a payload carries its age and an armed backoff the    *)
(* time it has left, both in ticks.  Ages stop at MaxStale + 1, beyond     *)
(* which nothing in the code tells two ages apart.                         *)
(***************************************************************************)
EXTENDS Naturals, Sequences

CONSTANTS Logins,    \* the accounts a payload may describe
          Ttl,       \* DEFAULT_TTL, in ticks
          MaxStale,  \* MAX_STALE, in ticks
          Backoff    \* RATE_LIMIT_BACKOFF, in ticks

ASSUME ClockAssumption == /\ Ttl \in Nat \ {0}
                          /\ MaxStale \in Nat
                          /\ Ttl <= MaxStale
                          /\ Backoff \in Nat \ {0}

ASSUME LoginAssumption == {"none", "corrupt", "limited"} \cap Logins = {}

NoPayload == "none"
Corrupt == "corrupt"  \* a file that is there and does not parse
Limited == "limited"  \* not a payload: the 429 that stands for one

(***************************************************************************)
(* A payload that parses is named by the login whose usage it reports.     *)
(***************************************************************************)
Payloads == Logins \cup {Corrupt, NoPayload}

(***************************************************************************)
(* The code of a recorded failure: "local" is 0 (no HTTP status),          *)
(* "limited" is 429 and "status" any other one.                            *)
(***************************************************************************)
Codes == {"local", "limited", "status"}
NoError == "none"

Dirs == [payload : Payloads, age : 0 .. MaxStale + 1, stale : BOOLEAN,
         err : Codes \cup {NoError}, retry : 0 .. Backoff]

PlainDir(payload, age) == [payload |-> payload, age |-> age, stale |-> FALSE,
                           err |-> NoError, retry |-> 0]
EmptyDir == PlainDir(NoPayload, 0)

BackedOff(dir) == dir.retry > 0

(***************************************************************************)
(* Inside MAX_STALE, the limit of every path that shows a payload which is *)
(* no longer fresh.                                                        *)
(***************************************************************************)
Servable(dir) == dir.payload # NoPayload /\ dir.age <= MaxStale

(***************************************************************************)
(* The one hook before the network: a payload to serve, Limited when the   *)
(* backoff is armed and nothing may be served, NoPayload to go and fetch.  *)
(* The _Bug forms are plausible mistakes; no specification uses them.      *)
(***************************************************************************)
FreshPayload_IgnoresBackoff_Bug(dir, ttl) ==
  IF dir.payload # NoPayload /\ dir.age < ttl THEN dir.payload ELSE NoPayload

FreshPayload_ServesWireOnly_Bug(dir, ttl) ==
  IF BackedOff(dir)
  THEN IF Servable(dir) THEN dir.payload ELSE Limited
  ELSE IF dir.payload # NoPayload /\ dir.age < ttl THEN dir.payload ELSE NoPayload

FreshPayload(dir, ttl) ==
  IF BackedOff(dir)
  THEN IF ttl # 0 /\ Servable(dir) THEN dir.payload ELSE Limited
  ELSE IF dir.payload # NoPayload /\ dir.age < ttl THEN dir.payload ELSE NoPayload

FallbackPayload(dir) == IF Servable(dir) THEN dir.payload ELSE NoPayload

Persist(dir, payload) == [dir EXCEPT !.payload = payload, !.age = 0]

-----------------------------------------------------------------------------
(***************************************************************************)
(* The sidecars are single best-effort file operations, one after another. *)
(* A compound operation is the sequence of those it still has to do, since *)
(* a crash or a failed removal may leave any prefix of it behind.          *)
(***************************************************************************)
FileOps == {"rmPayload", "rmStale", "rmErr", "rmRetry", "setStale", "setErr", "arm"}

FileOp(dir, op, code) ==
  CASE op = "rmPayload" -> [dir EXCEPT !.payload = NoPayload, !.age = 0]
    [] op = "rmStale"   -> [dir EXCEPT !.stale = FALSE]
    [] op = "rmErr"     -> [dir EXCEPT !.err = NoError]
    [] op = "rmRetry"   -> [dir EXCEPT !.retry = 0]
    [] op = "setStale"  -> [dir EXCEPT !.stale = TRUE]
    [] op = "setErr"    -> [dir EXCEPT !.err = code]
    [] op = "arm"       -> [dir EXCEPT !.retry = Backoff]

ClearMarkers == <<"rmStale", "rmErr", "rmRetry">>  \* the tail of write_payload
ClearLastError == <<"rmErr", "rmRetry">>
Forget == <<"rmPayload", "rmStale", "rmErr", "rmRetry">>

WriteLastError(code) ==
  IF code = "limited" THEN <<"setErr", "arm">> ELSE <<"setErr">>

MarkStale == <<"setStale">>

-----------------------------------------------------------------------------
(***************************************************************************)
(* What a fetch returns: "fresh" and "cached" show a payload, "error" does *)
(* not.  "read" is the age the payload had when the fetch took it up.      *)
(***************************************************************************)
Outcomes == [kind : {"none", "fresh", "cached", "error"}, stale : BOOLEAN,
             err : Codes \cup {NoError}, shows : Payloads, read : 0 .. MaxStale + 1]

NoOutcome == [kind |-> "none", stale |-> FALSE, err |-> NoError,
              shows |-> NoPayload, read |-> 0]

Fresh(payload) == [kind |-> "fresh", stale |-> FALSE, err |-> NoError,
                   shows |-> payload, read |-> 0]

Failed == [NoOutcome EXCEPT !.kind = "error"]

(***************************************************************************)
(* The provenance is read back from the directory when the outcome is      *)
(* built: a marker left behind, or a backoff still armed, flags it stale.  *)
(***************************************************************************)
CachedOutcome(dir, payload, read, stale) ==
  [kind |-> "cached", stale |-> stale \/ dir.stale \/ BackedOff(dir),
   err |-> dir.err, shows |-> payload, read |-> read]

(***************************************************************************)
(* The last good payload, flagged, or the error: a payload that does not   *)
(* parse counts as none.  A failure just recorded overrides the file's.    *)
(***************************************************************************)
Fallback(dir, lastError) ==
  IF FallbackPayload(dir) \in Logins
  THEN LET cached == CachedOutcome(dir, dir.payload, dir.age, TRUE)
       IN  IF lastError = NoError THEN cached ELSE [cached EXCEPT !.err = lastError]
  ELSE Failed

(***************************************************************************)
(* One tick of the clock: the payload ages and the backoff runs down.      *)
(***************************************************************************)
Aged(dir) ==
  [dir EXCEPT !.age = IF dir.payload # NoPayload /\ dir.age <= MaxStale THEN dir.age + 1
                      ELSE dir.age,
              !.retry = IF dir.retry > 0 THEN dir.retry - 1 ELSE 0]
=============================================================================
