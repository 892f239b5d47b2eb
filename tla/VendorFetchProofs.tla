------------------------- MODULE VendorFetchProofs -------------------------
(***************************************************************************)
(* The thirty vendors' fetches over one cache directory, for any logins,   *)
(* any number of processes, tokens and deaths, and any length of the       *)
(* cache's times: a figure is its own login's, nobody asks during a        *)
(* backoff, Devin's sidecars tell of the login they are bound to, and a    *)
(* rotated refresh token is kept.                                          *)
(***************************************************************************)
EXTENDS VendorFetch, SequenceTheorems, TLAPS

-----------------------------------------------------------------------------
(* The vendors. *)

Fields == [binds : {"nothing", "key", "account", "session"}, reads : {"before", "within"},
           ends : BOOLEAN, gate : BOOLEAN, spends : {"never", "due", "refused"},
           expiry : BOOLEAN,
           own : {"nothing", "binds the sidecars", "keeps a ledger", "runs the CLI",
                  "asks who", "has an agent", "reads twice", "has no cache"}]

(***************************************************************************)
(* What holds of every vendor's record: only a login that no one returns   *)
(* to is renewed here, and each of the vendors with a way of its own has   *)
(* few others.                                                             *)
(***************************************************************************)
IsVendor(v) ==
  /\ v \in Fields
  /\ v.spends # "never" => v.binds \in {"account", "session"}
  /\ v.spends # "never" => v.own \in {"nothing", "has no cache"}
  /\ v.spends = "due" => v.reads = "within"
  /\ v.spends = "refused" => v.reads = "before"
  /\ v.expiry => v.own \in {"nothing", "runs the CLI"} /\ v.spends = "never"
  /\ v.own = "has no cache" => v.spends = "due" /\ ~v.gate
  /\ v.own = "reads twice" => v.binds = "session" /\ v.reads = "within" /\ v.gate
  /\ v.own = "binds the sidecars" => v.binds = "key" /\ v.reads = "before" /\ ~v.gate
  /\ v.own \in {"keeps a ledger", "runs the CLI"} => v.reads = "before" /\ ~v.gate
  /\ v.own = "asks who" => v.binds = "account" /\ ~v.ends /\ v.reads = "before"

LEMMA VendorsAre == \A v \in Vendors : IsVendor(v)
<1>1. IsVendor(Unbound) /\ IsVendor(DeepRelay) /\ IsVendor(Synthetic)
  BY DEF IsVendor, Fields, Unbound, DeepRelay, Synthetic
<1>2. IsVendor(Keyed) /\ IsVendor(AnthropicApi) /\ IsVendor(Devin)
  BY DEF IsVendor, Fields, Unbound, Keyed, AnthropicApi, Devin
<1>3. IsVendor(Session) /\ IsVendor(Grokbot) /\ IsVendor(Muse) /\ IsVendor(SuperGrok)
  BY DEF IsVendor, Fields, Unbound, Session, Grokbot, Muse, SuperGrok
<1>4. IsVendor(NousResearch) /\ IsVendor(Droid) /\ IsVendor(Cline) /\ IsVendor(ClineKey)
  BY DEF IsVendor, Fields, Unbound, Session, NousResearch, Droid, Cline, ClineKey
<1>5. IsVendor(Kiro) /\ IsVendor(Cursor)
  BY DEF IsVendor, Fields, Unbound, Kiro, Cursor
<1> QED
  BY <1>1, <1>2, <1>3, <1>4, <1>5
  DEF Vendors, OpenRouter, DeepSeek, DeepInfra, Novita, Lyceum, Custom, Ollama, Zai, Kilo,
      Moonshot, Minimax, OrcaRouter, CommandCode, OpencodeGo, Copilot, Grok, ModelStudio

-----------------------------------------------------------------------------
(* The directory. *)

LEMMA ConcatSet ==
  ASSUME NEW S, NEW s \in Seq(S), NEW t \in Seq(S)
  PROVE  ToSet(s \o t) = ToSet(s) \cup ToSet(t)
<1> DEFINE u == s \o t
<1>1. /\ Len(s) \in Nat /\ DOMAIN s = 1 .. Len(s)
      /\ Len(t) \in Nat /\ DOMAIN t = 1 .. Len(t)
      /\ DOMAIN u = 1 .. Len(s) + Len(t)
      /\ \A i \in 1 .. Len(s) + Len(t) : u[i] = IF i <= Len(s) THEN s[i] ELSE t[i - Len(s)]
  BY LenProperties, ConcatProperties
<1> HIDE DEF u
<1>2. ASSUME NEW x \in ToSet(u) PROVE x \in ToSet(s) \cup ToSet(t)
  <2>1. PICK i \in 1 .. Len(s) + Len(t) : x = u[i]
    BY <1>1, <1>2 DEF ToSet
  <2>2. CASE i <= Len(s)
    BY <1>1, <2>1, <2>2 DEF ToSet
  <2>3. CASE i > Len(s)
    <3>1. i - Len(s) \in 1 .. Len(t) /\ x = t[i - Len(s)]
      BY <1>1, <2>1, <2>3
    <3> QED BY <1>1, <3>1 DEF ToSet
  <2> QED BY <1>1, <2>1, <2>2, <2>3
<1>3. ASSUME NEW x \in ToSet(s) PROVE x \in ToSet(u)
  <2>1. PICK i \in 1 .. Len(s) : x = s[i]
    BY <1>1, <1>3 DEF ToSet
  <2>2. i \in 1 .. Len(s) + Len(t) /\ u[i] = x
    BY <1>1, <2>1
  <2> QED BY <1>1, <2>2 DEF ToSet
<1>4. ASSUME NEW x \in ToSet(t) PROVE x \in ToSet(u)
  <2>1. PICK i \in 1 .. Len(t) : x = t[i]
    BY <1>1, <1>4 DEF ToSet
  <2> DEFINE j == i + Len(s)
  <2>2. j \in 1 .. Len(s) + Len(t) /\ ~(j <= Len(s)) /\ j - Len(s) = i
    BY <1>1, <2>1
  <2> HIDE DEF j
  <2>3. u[j] = t[j - Len(s)]
    BY <1>1, <2>2
  <2>4. u[j] = x
    BY <2>1, <2>2, <2>3
  <2> QED BY <1>1, <2>2, <2>4 DEF ToSet
<1> QED BY <1>2, <1>3, <1>4 DEF u

LEMMA SequencesSay ==
  /\ ToSet(<<>>) = {}
  /\ ToSet(<<"arm">>) = {"arm"}
  /\ ToSet(ClearMarkers) = {"rmStale", "rmErr", "rmRetry"}
  /\ ToSet(Forget) = {"rmPayload", "rmStale", "rmErr", "rmRetry"}
  /\ ToSet(MarkStale \o WriteLastError("limited")) = {"setStale", "setErr", "arm"}
  /\ \A code : code # "limited" =>
       ToSet(MarkStale \o WriteLastError(code)) = {"setStale", "setErr"}
<1>1. ToSet(<<>>) = {} /\ ToSet(<<"arm">>) = {"arm"}
  BY DEF ToSet
<1>2. ToSet(ClearMarkers) = {"rmStale", "rmErr", "rmRetry"}
  BY DEF ToSet, ClearMarkers
<1>3. ToSet(Forget) = {"rmPayload", "rmStale", "rmErr", "rmRetry"}
  BY DEF ToSet, Forget
<1>4. /\ ToSet(<<"setStale">>) = {"setStale"} /\ ToSet(<<"setErr">>) = {"setErr"}
      /\ ToSet(<<"setErr", "arm">>) = {"setErr", "arm"}
  BY DEF ToSet
<1>5. /\ <<"setStale">> \in Seq(FileOps) /\ <<"setErr">> \in Seq(FileOps)
      /\ <<"setErr", "arm">> \in Seq(FileOps)
  BY DEF FileOps
<1>6. ToSet(<<"setStale">> \o <<"setErr", "arm">>)
        = ToSet(<<"setStale">>) \cup ToSet(<<"setErr", "arm">>)
  BY <1>5, ConcatSet
<1>7. ToSet(<<"setStale">> \o <<"setErr">>) = ToSet(<<"setStale">>) \cup ToSet(<<"setErr">>)
  BY <1>5, ConcatSet
<1> QED BY <1>1, <1>2, <1>3, <1>4, <1>6, <1>7 DEF MarkStale, WriteLastError

LEMMA Times ==
  /\ MaxStale \in Nat /\ Backoff \in Nat /\ Backoff > 0 /\ 0 \in 0 .. MaxStale + 1
  /\ MaxTokens \in Nat /\ MaxDeaths \in Nat
BY ClockAssumption, VendorAssumption

LEMMA ApplyFields ==
  ASSUME NEW d, NEW ops, NEW code
  PROVE  LET e == Apply(d, ops, code)
             did(op) == op \in ToSet(ops)
         IN  /\ e.payload = IF did("rmPayload") THEN NoPayload ELSE d.payload
             /\ e.age = IF did("rmPayload") THEN 0 ELSE d.age
             /\ e.stale <=> did("setStale") \/ (d.stale /\ ~did("rmStale"))
             /\ e.err = IF did("setErr") THEN code
                        ELSE IF did("rmErr") THEN NoError ELSE d.err
             /\ e.retry = IF did("arm") THEN Backoff
                          ELSE IF did("rmRetry") THEN 0 ELSE d.retry
BY DEF Apply

LEMMA ApplyType ==
  ASSUME NEW d \in Dirs, NEW ops, NEW code \in Codes \cup {NoError}
  PROVE  Apply(d, ops, code) \in Dirs
<1> DEFINE e == Apply(d, ops, code)
           did(op) == op \in ToSet(ops)
<1>1. e = [payload |-> e.payload, age |-> e.age, stale |-> e.stale, err |-> e.err,
           retry |-> e.retry]
  BY DEF Apply
<1>2. /\ d.payload \in Payloads /\ d.age \in 0 .. MaxStale + 1 /\ d.stale \in BOOLEAN
      /\ d.err \in Codes \cup {NoError} /\ d.retry \in 0 .. Backoff
  BY DEF Dirs
<1>3. e.payload \in Payloads /\ e.age \in 0 .. MaxStale + 1
  BY <1>2, Times, ApplyFields DEF Payloads
<1>4. e.err \in Codes \cup {NoError} /\ e.retry \in 0 .. Backoff
  BY <1>2, Times, ApplyFields
<1>5. e.stale \in BOOLEAN
  BY <1>2 DEF Apply
<1> HIDE DEF e
<1>6. e \in Dirs
  BY <1>1, <1>3, <1>4, <1>5 DEF Dirs
<1> QED BY <1>6 DEF e

(***************************************************************************)
(* A failure written down leaves the payload, and arms the backoff if it   *)
(* was a 429.                                                              *)
(***************************************************************************)
LEMMA RecordedDoes ==
  ASSUME NEW d \in Dirs, NEW code \in Codes
  PROVE  LET e == Recorded(d, code)
         IN  /\ e \in Dirs /\ e.payload = d.payload /\ e.age = d.age /\ e.err = code
             /\ e.retry = IF code = "limited" THEN Backoff ELSE d.retry
<1>1. Recorded(d, code) \in Dirs
  BY ApplyType DEF Recorded
<1>2. CASE code = "limited"
  BY <1>1, <1>2, SequencesSay, ApplyFields DEF Recorded
<1>3. CASE code # "limited"
  BY <1>1, <1>3, SequencesSay, ApplyFields DEF Recorded
<1> QED BY <1>2, <1>3

LEMMA ArmedDoes ==
  ASSUME NEW d \in Dirs, NEW code \in Codes \cup {NoError}
  PROVE  LET e == Apply(d, <<"arm">>, code)
         IN  /\ e \in Dirs /\ e.payload = d.payload /\ e.age = d.age /\ e.stale = d.stale
             /\ e.err = d.err /\ e.retry = Backoff
<1>1. Apply(d, <<"arm">>, code).stale = d.stale
  BY SequencesSay DEF Apply, Dirs
<1> QED BY <1>1, ApplyType, SequencesSay, ApplyFields

(***************************************************************************)
(* A payload written is the login's, and clears the sidecars.              *)
(***************************************************************************)
LEMMA WrittenIs ==
  ASSUME NEW d \in Dirs, NEW payload \in Logins
  PROVE  LET e == Apply(Persist(d, payload), ClearMarkers, NoError)
         IN  /\ e \in Dirs /\ e.payload = payload /\ e.retry = 0
             /\ ~e.stale /\ e.err = NoError
<1>1. Persist(d, payload) \in Dirs /\ Persist(d, payload).payload = payload
  BY Times DEF Persist, Dirs, Payloads
<1> QED BY <1>1, ApplyType, SequencesSay, ApplyFields

(***************************************************************************)
(* Files removed: no marker comes to be, and no payload.                   *)
(***************************************************************************)
LEMMA RemovedLeaves ==
  ASSUME NEW d \in Dirs, NEW ops,
         ToSet(ops) \subseteq {"rmPayload", "rmStale", "rmErr", "rmRetry"}
  PROVE  LET e == Apply(d, ops, NoError)
         IN  /\ e \in Dirs /\ e.payload \in {d.payload, NoPayload}
             /\ e.retry \in {d.retry, 0}
             /\ (e.stale => d.stale)
             /\ e.err \in {d.err, NoError}
BY ApplyType, ApplyFields

LEMMA AgedIs ==
  ASSUME NEW d \in Dirs
  PROVE  /\ Aged(d) \in Dirs /\ Aged(d).payload = d.payload
         /\ Aged(d).stale = d.stale /\ Aged(d).err = d.err
         /\ Aged(d).retry = Less(d.retry)
<1>1. /\ d.age \in 0 .. MaxStale + 1 /\ d.retry \in 0 .. Backoff
      /\ d \in [payload : Payloads, age : 0 .. MaxStale + 1, stale : BOOLEAN,
                err : Codes \cup {NoError}, retry : 0 .. Backoff]
  BY DEF Dirs
<1> DEFINE age == IF d.payload # NoPayload /\ d.age <= MaxStale THEN d.age + 1 ELSE d.age
           retry == IF d.retry > 0 THEN d.retry - 1 ELSE 0
<1>2. age \in 0 .. MaxStale + 1 /\ retry \in 0 .. Backoff /\ retry = Less(d.retry)
  BY <1>1, Times DEF Less
<1>3. Aged(d) = [d EXCEPT !.age = age, !.retry = retry]
  BY DEF Aged
<1> HIDE DEF age, retry
<1> QED BY <1>1, <1>2, <1>3 DEF Dirs

-----------------------------------------------------------------------------
(* Types. *)

Pcs == {"idle", "renew", "cli", "lock", "look", "who", "ask", "reply", "refresh", "save"}

CacheType ==
  /\ dir \in Dirs
  /\ whose \in Logins /\ markOf \in Logins
  /\ bound \in Logins \cup {NoOne}
  /\ ended \in BOOLEAN

FetchType ==
  /\ lock \in Procs \cup {NoOne}
  /\ pc \in [Procs -> Pcs]
  /\ cred \in [Procs -> Creds]
  /\ retried \subseteq Procs
  /\ out \in Outcomes

LoginType ==
  /\ login \in [of : Logins, token : 0 .. MaxTokens, due : BOOLEAN]
  /\ pair \in [of : Logins, token : 0 .. MaxTokens, due : BOOLEAN, there : BOOLEAN]
  /\ newest \in [Logins -> 0 .. MaxTokens]
  /\ used \subseteq Logins
  /\ lost \in BOOLEAN

TimeType ==
  /\ ledger \in [Logins -> [left : 0 .. Backoff, ok : BOOLEAN]]
  /\ quiet \in [Logins -> 0 .. Backoff]
  /\ deaths \in 0 .. MaxDeaths

(***************************************************************************)
(* SuperGrok alone may go by a login it could not name, and only a vendor  *)
(* that spends the refresh token renews a login.                           *)
(***************************************************************************)
Known == \A p \in Procs :
  /\ cred[p].of = NoOne => vendor.own = "reads twice"
  /\ pc[p] \in {"refresh", "save"} => vendor.spends # "never"

TypeInv == TypeOK /\ Known

LEMMA TypeParts ==
  /\ TypeOK <=> vendor \in Vendors /\ CacheType /\ FetchType /\ LoginType /\ TimeType
  /\ TypeOK' <=> /\ vendor' \in Vendors
                 /\ CacheType' /\ FetchType' /\ LoginType' /\ TimeType'
BY DEF TypeOK, CacheType, FetchType, LoginType, TimeType, Pcs

LEMMA Strangers ==
  /\ First \in Logins /\ AccountOf \in [Logins -> Logins]
  /\ NoOne \notin Logins /\ NoOne \notin Procs
  /\ Corrupt \notin Logins /\ NoPayload \notin Logins /\ Limited \notin Logins
  /\ NoOne # Limited /\ NoOne # Corrupt /\ NoOne # NoPayload
BY LoginAssumption, VendorAssumption DEF Payloads, Corrupt, NoPayload, Limited

(***************************************************************************)
(* What a payload is written as is a login, if the fetch knows its own.    *)
(***************************************************************************)
LEMMA NamedIs ==
  ASSUME NEW l \in Logins
  PROVE  Named(l) \in Logins
BY Strangers DEF Named

LEMMA NobodyIsNamed ==
  ASSUME vendor.own = "reads twice", IsVendor(vendor), NEW l
  PROVE  Named(l) = l
BY DEF Named, IsVendor

-----------------------------------------------------------------------------
(* What a fetch returns. *)

LEMMA OutcomesAre ==
  /\ NoOutcome \in Outcomes /\ NoOutcome.shows = NoPayload
  /\ Failed \in Outcomes /\ Failed.shows = NoPayload /\ Failed.kind = "error"
  /\ \A l \in Payloads : Fresh(l) \in Outcomes /\ Fresh(l).shows = l
BY Times DEF NoOutcome, Failed, Fresh, Outcomes, Payloads

LEMMA CachedIs ==
  ASSUME NEW d \in Dirs, NEW payload \in Payloads, NEW stale \in BOOLEAN
  PROVE  LET o == CachedOutcome(d, payload, d.age, stale)
         IN  o \in Outcomes /\ o.shows = payload /\ o.kind = "cached"
<1>1. /\ d.age \in 0 .. MaxStale + 1 /\ d.stale \in BOOLEAN
      /\ d.err \in Codes \cup {NoError} /\ d.retry \in 0 .. Backoff
  BY DEF Dirs
<1>2. (stale \/ d.stale \/ BackedOff(d)) \in BOOLEAN
  BY <1>1 DEF BackedOff
<1> QED BY <1>1, <1>2 DEF CachedOutcome, Outcomes

LEMMA SeenIs ==
  ASSUME NEW d \in Dirs, NEW l
  PROVE  /\ Seen(d, l) \in Dirs
         /\ Seen(d, l).payload \in Logins => Seen(d, l).payload = Named(l)
BY Strangers DEF Seen, Accepts, Dirs, Payloads

(***************************************************************************)
(* A fetch that falls back shows the figures of its own login or none.     *)
(***************************************************************************)
LEMMA FallbackShows ==
  ASSUME NEW d \in Dirs, NEW l, NEW code \in Codes \cup {NoError}
  PROVE  LET o == Fallback(Seen(d, l), code)
         IN  o \in Outcomes /\ (o.shows \in Logins => o.shows = Named(l))
<1> DEFINE e == Seen(d, l)
           c == CachedOutcome(e, e.payload, e.age, TRUE)
<1>1. e \in Dirs /\ (e.payload \in Logins => e.payload = Named(l)) /\ e.payload \in Payloads
  BY SeenIs DEF Dirs
<1>2. c \in Outcomes /\ c.shows = e.payload
  BY <1>1, CachedIs
<1>3. CASE FallbackPayload(e) \in Logins
  <2>1. Fallback(e, code) = IF code = NoError THEN c ELSE [c EXCEPT !.err = code]
    BY <1>3 DEF Fallback
  <2> HIDE DEF c, e
  <2>2. [c EXCEPT !.err = code] \in Outcomes /\ [c EXCEPT !.err = code].shows = c.shows
    BY <1>2 DEF Outcomes
  <2>3. Fallback(e, code) \in Outcomes /\ Fallback(e, code).shows = e.payload
    BY <1>2, <2>1, <2>2
  <2> QED BY <1>1, <2>3 DEF e
<1>4. CASE FallbackPayload(e) \notin Logins
  <2>1. Fallback(e, code) = Failed
    BY <1>4 DEF Fallback
  <2> HIDE DEF e
  <2>2. Fallback(e, code) \in Outcomes /\ Fallback(e, code).shows \notin Logins
    BY <2>1, OutcomesAre, Strangers
  <2> QED BY <2>2 DEF e
<1> QED BY <1>3, <1>4

LEMMA FinishDoes ==
  ASSUME TypeOK, NEW p \in Procs, NEW o, Finish(p, o)
  PROVE  /\ pc' \in [Procs -> Pcs] /\ pc'[p] = "idle"
         /\ cred' \in [Procs -> Creds] /\ cred'[p] = NoCred
         /\ \A q \in Procs \ {p} : pc'[q] = pc[q] /\ cred'[q] = cred[q]
         /\ lock' = (IF lock = p THEN NoOne ELSE lock) /\ lock' \in Procs \cup {NoOne}
         /\ retried' \subseteq Procs /\ out' = o
<1>1. pc \in [Procs -> Pcs] /\ cred \in [Procs -> Creds] /\ retried \subseteq Procs
      /\ lock \in Procs \cup {NoOne}
  BY TypeParts DEF FetchType
<1>2. NoCred \in Creds
  BY Times, Strangers DEF NoCred, Creds
<1>3. "idle" \in Pcs
  BY DEF Pcs
<1> QED BY <1>1, <1>2, <1>3 DEF Finish, Goto

Answered == {"transport", "limited", "status", "local"}

(***************************************************************************)
(* A fetch that fails leaves the payload, arms the backoff after a 429,    *)
(* and shows the figures of its own login or none.                         *)
(***************************************************************************)
LEMMA FailDoes ==
  ASSUME TypeOK, NEW p \in Procs, NEW code \in Answered, Fail(p, code)
  PROVE  /\ dir' \in Dirs /\ dir'.payload = dir.payload
         /\ dir'.retry = IF code = "limited" /\ vendor.own # "has no cache" THEN Backoff
                         ELSE dir.retry
         /\ UNCHANGED <<whose, ended, bound>>
         /\ out' \in Outcomes
         /\ out'.shows \in Logins => out'.shows = Named(cred[p].of)
         /\ Finish(p, out')
<1>1. dir \in Dirs /\ IsVendor(vendor)
  BY TypeParts, VendorsAre DEF CacheType
<1>2. UNCHANGED <<whose, ended, bound>>
  BY DEF Fail
<1>3. CASE vendor.own = "has no cache"
  <2>1. UNCHANGED dir /\ Finish(p, Failed)
    BY <1>3 DEF Fail
  <2>2. out' = Failed
    BY <2>1 DEF Finish
  <2> QED BY <1>1, <1>2, <1>3, <2>1, <2>2, OutcomesAre, Strangers
<1>4. CASE vendor.own = "reads twice"
  <2> DEFINE armed == IF code = "limited" THEN Apply(dir, <<"arm">>, code) ELSE dir
             kept == IF code = "transport" THEN "local" ELSE code
             shown == Fallback(Seen(armed, cred[p].of), kept)
  <2>1. /\ dir' = IF shown.kind = "cached" THEN Recorded(armed, kept) ELSE armed
        /\ Finish(p, shown)
    BY <1>4 DEF Fail, FailBeside
  <2>2. kept \in Codes /\ (code = "limited" <=> kept = "limited")
    BY DEF Codes, Answered
  <2>3. /\ armed \in Dirs /\ armed.payload = dir.payload
        /\ armed.retry = IF code = "limited" THEN Backoff ELSE dir.retry
    BY <1>1, <2>2, ArmedDoes
  <2> HIDE DEF armed, kept
  <2>4. shown \in Outcomes /\ (shown.shows \in Logins => shown.shows = Named(cred[p].of))
    BY <2>2, <2>3, FallbackShows
  <2>5. /\ Recorded(armed, kept) \in Dirs /\ Recorded(armed, kept).payload = armed.payload
        /\ Recorded(armed, kept).retry = IF kept = "limited" THEN Backoff ELSE armed.retry
    BY <2>2, <2>3, RecordedDoes
  <2>6. out' = shown
    BY <2>1 DEF Finish
  <2> HIDE DEF shown
  <2> QED BY <1>2, <1>4, <2>1, <2>2, <2>3, <2>4, <2>5, <2>6
<1>5. CASE vendor.own \notin {"reads twice", "has no cache"}
  <2> DEFINE kept == IF code # "transport" THEN code
                     ELSE IF vendor.own = "keeps a ledger" THEN "local" ELSE NoError
             left == IF kept = NoError THEN dir ELSE Recorded(dir, kept)
             shown == Fallback(Seen(left, cred[p].of), kept)
  <2>1. dir' = left /\ Finish(p, shown)
    BY <1>5 DEF Fail, FailRecorded
  <2>2. /\ kept \in Codes \cup {NoError} /\ (code = "limited" <=> kept = "limited")
        /\ kept # NoError => kept \in Codes
    BY DEF Codes, Answered, NoError
  <2> HIDE DEF kept
  <2>3. /\ left \in Dirs /\ left.payload = dir.payload
        /\ left.retry = IF kept = "limited" THEN Backoff ELSE dir.retry
    BY <1>1, <2>2, RecordedDoes DEF NoError
  <2> HIDE DEF left
  <2>4. shown \in Outcomes /\ (shown.shows \in Logins => shown.shows = Named(cred[p].of))
    BY <2>2, <2>3, FallbackShows
  <2>5. out' = shown
    BY <2>1 DEF Finish
  <2> HIDE DEF shown
  <2> QED BY <1>2, <1>5, <2>1, <2>2, <2>3, <2>4, <2>5
<1> QED BY <1>3, <1>4, <1>5

(***************************************************************************)
(* Whose failure the sidecars tell: Devin's fetch notes its own login as   *)
(* soon as it changes one of them.                                         *)
(***************************************************************************)
LEMMA FailMarks ==
  ASSUME TypeOK, NEW p \in Procs, NEW code \in Answered, Fail(p, code)
  PROVE  /\ vendor.own = "binds the sidecars" =>
              \/ markOf' = cred[p].asks
              \/ /\ markOf' = markOf
                 /\ dir'.err = dir.err /\ dir'.stale = dir.stale /\ dir'.retry = dir.retry
         /\ markOf' \in Logins
<1>1. cred[p].asks \in Logins /\ markOf \in Logins /\ First \in Logins
  BY TypeParts, Strangers DEF FetchType, CacheType, Creds
<1> QED BY <1>1 DEF Fail

-----------------------------------------------------------------------------
(* Every step keeps the types, and touches one process. *)

Frame(p) == \A q \in Procs \ {p} : pc'[q] = pc[q] /\ cred'[q] = cred[q]

Keeps(p) == /\ CacheType' /\ FetchType' /\ LoginType' /\ TimeType'
            /\ Known' /\ Frame(p) /\ UNCHANGED vendor

LEMMA GoesOn ==
  ASSUME TypeInv, NEW p \in Procs, NEW pcs \in Pcs, NEW c \in Creds,
         c.of = NoOne => vendor.own = "reads twice",
         pcs \in {"refresh", "save"} => vendor.spends # "never",
         Goto(p, pcs), cred' = [cred EXCEPT ![p] = c] \/ (cred' = cred /\ c = cred[p]),
         lock' \in Procs \cup {NoOne}, retried' \subseteq Procs, out' \in Outcomes,
         UNCHANGED vendor
  PROVE  FetchType' /\ Known' /\ Frame(p) /\ pc'[p] = pcs /\ cred'[p] = c
<1>1. pc \in [Procs -> Pcs] /\ cred \in [Procs -> Creds]
  BY TypeParts DEF TypeInv, FetchType
<1>2. pc' \in [Procs -> Pcs] /\ pc'[p] = pcs /\ \A q \in Procs \ {p} : pc'[q] = pc[q]
  BY <1>1 DEF Goto
<1>3. cred' \in [Procs -> Creds] /\ cred'[p] = c /\ \A q \in Procs \ {p} : cred'[q] = cred[q]
  BY <1>1
<1>4. Known'
  BY <1>2, <1>3 DEF Known, TypeInv
<1> QED BY <1>2, <1>3, <1>4 DEF FetchType, Frame

LEMMA Ended ==
  ASSUME TypeInv, NEW p \in Procs, NEW o \in Outcomes, Finish(p, o), UNCHANGED vendor
  PROVE  FetchType' /\ Known' /\ Frame(p) /\ pc'[p] = "idle" /\ cred'[p] = NoCred
         /\ out' = o
<1>1. NoCred.of = First
  BY DEF NoCred
<1>2. Known'
  BY <1>1, FinishDoes, Strangers DEF Known, TypeInv
<1> QED BY <1>2, FinishDoes DEF TypeInv, FetchType, Frame

LEMMA HeldIs == TypeInv => Held \in Creds /\ Held.of = login.of /\ Held.asks = login.of
                           /\ Held.token = login.token /\ Held.of \in Logins
BY TypeParts DEF TypeInv, LoginType, Held, Creds

LEMMA PairIs ==
  ASSUME TypeInv, NEW p
  PROVE  /\ PairOf(p) \in Creds /\ PairOf(p).of = pair.of /\ PairOf(p).asks = pair.of
         /\ PairOf(p).token = pair.token /\ pair.of \in Logins
BY TypeParts DEF TypeInv, LoginType, PairOf, Creds

LEMMA NoCredIs == NoCred \in Creds /\ NoCred.of = First /\ NoCred.asks = First
BY Times, Strangers DEF NoCred, Creds

LEMMA CredIs ==
  ASSUME TypeInv, NEW p \in Procs
  PROVE  /\ cred[p] \in Creds /\ cred[p].of \in Logins \cup {NoOne} /\ cred[p].asks \in Logins
         /\ cred[p].token \in 0 .. MaxTokens
         /\ vendor.own # "reads twice" => cred[p].of \in Logins
BY TypeParts DEF TypeInv, Known, FetchType, Creds

LEMMA SpenderIs ==
  ASSUME TypeInv, NEW p \in Procs, pc[p] \in {"refresh", "save"}
  PROVE  cred[p].of \in Logins /\ vendor.own \in {"nothing", "has no cache"}
<1>1. IsVendor(vendor)
  BY VendorsAre, TypeParts DEF TypeInv
<1> QED BY <1>1, CredIs DEF TypeInv, Known, IsVendor

(***************************************************************************)
(* Writing a payload.                                                      *)
(***************************************************************************)
LEMMA WriteDoes ==
  ASSUME TypeInv, NEW p \in Procs, NEW l \in Logins, Write(p, l)
  PROVE  /\ CacheType' /\ dir'.payload = Named(l) /\ dir'.retry = 0
         /\ ~dir'.stale /\ dir'.err = NoError
         /\ whose' = (IF vendor.binds = "nothing" THEN First ELSE cred[p].asks)
         /\ UNCHANGED bound
<1>1. dir \in Dirs /\ CacheType /\ Named(l) \in Logins /\ cred[p].asks \in Logins
  BY TypeParts, NamedIs, CredIs DEF TypeInv, CacheType
<1>2. /\ dir' \in Dirs /\ dir'.payload = Named(l) /\ dir'.retry = 0
      /\ ~dir'.stale /\ dir'.err = NoError
  BY <1>1, WrittenIs DEF Write
<1> QED BY <1>1, <1>2, Strangers DEF Write, CacheType

LEMMA FailKeeps ==
  ASSUME TypeInv, NEW p \in Procs, NEW code \in Answered, Fail(p, code), UNCHANGED vendor
  PROVE  CacheType' /\ FetchType' /\ Known' /\ Frame(p) /\ pc'[p] = "idle"
         /\ cred'[p] = NoCred
<1>1. dir' \in Dirs /\ UNCHANGED <<whose, ended, bound>> /\ markOf' \in Logins
  BY FailDoes, FailMarks DEF TypeInv
<1>2. CacheType'
  BY <1>1, TypeParts DEF TypeInv, CacheType
<1>3. Finish(p, out') /\ out' \in Outcomes
  BY FailDoes DEF TypeInv
<1> DEFINE o == out'
<1> HIDE DEF o
<1>4. Finish(p, o) /\ o \in Outcomes
  BY <1>3 DEF o
<1> QED BY <1>2, <1>4, Ended

LEMMA StartKeeps == ASSUME TypeInv, NEW p \in Procs, Start(p) PROVE Keeps(p)
<1>1. PICK c \in {Held, NoCred} : cred' = [cred EXCEPT ![p] = c]
  BY DEF Start
<1>2. PICK label \in {"renew", "lock"} : Goto(p, label)
  BY DEF Start
<1>3. c \in Creds /\ c.of # NoOne /\ label \in Pcs
  BY <1>1, HeldIs, NoCredIs, Strangers DEF Pcs
<1>4. lock' \in Procs \cup {NoOne} /\ retried' \subseteq Procs /\ out' \in Outcomes
  BY TypeParts, OutcomesAre DEF TypeInv, FetchType, Start
<1>5. FetchType' /\ Known' /\ Frame(p)
  BY <1>1, <1>2, <1>3, <1>4, GoesOn DEF Start
<1>6. CacheType' /\ LoginType' /\ TimeType'
  BY TypeParts DEF TypeInv, Start, cache, logins, tokens, CacheType, LoginType, TimeType
<1> QED BY <1>5, <1>6 DEF Keeps, Start

LEMMA RenewKeeps == ASSUME TypeInv, NEW p \in Procs, Renew(p) PROVE Keeps(p)
<1>1. /\ lock \in Procs \cup {NoOne} /\ retried \subseteq Procs /\ out \in Outcomes
      /\ ledger \in [Logins -> [left : 0 .. Backoff, ok : BOOLEAN]]
      /\ quiet \in [Logins -> 0 .. Backoff] /\ deaths \in 0 .. MaxDeaths
  BY TypeParts DEF TypeInv, FetchType, TimeType
<1>2. UNCHANGED <<vendor, retried, out>> /\ lock' \in Procs \cup {NoOne}
  BY <1>1 DEF Renew, mine
<1>3. FetchType' /\ Known' /\ Frame(p)
  <2>1. CASE cred' = [cred EXCEPT ![p] = Held] /\ Goto(p, "lock")
    BY <1>1, <1>2, <2>1, GoesOn, HeldIs, Strangers DEF Pcs
  <2>2. CASE cred' = cred /\ Goto(p, "cli")
    BY <1>1, <1>2, <2>2, GoesOn, CredIs DEF Pcs, TypeInv, Known
  <2> QED BY <2>1, <2>2 DEF Renew
<1>4. TimeType'
  <2>1. quiet' \in [Logins -> 0 .. Backoff]
    BY <1>1, Times DEF Renew, Hushed
  <2>2. ledger' = ledger \/ ledger' = [ledger EXCEPT ![First].left = Backoff]
    BY DEF Renew
  <2>3. ledger' \in [Logins -> [left : 0 .. Backoff, ok : BOOLEAN]]
    BY <1>1, <2>2, Times
  <2> QED BY <1>1, <2>1, <2>3 DEF TimeType, Renew
<1>5. CacheType' /\ LoginType'
  BY TypeParts DEF TypeInv, Renew, cache, logins, tokens, CacheType, LoginType
<1> QED BY <1>2, <1>3, <1>4, <1>5 DEF Keeps

LEMMA RenewTimesOutKeeps == ASSUME TypeInv, NEW p \in Procs, RenewTimesOut(p) PROVE Keeps(p)
<1>1. Finish(p, Failed) /\ UNCHANGED <<vendor, cache, ledger, logins, tokens, quiet, deaths>>
  BY DEF RenewTimesOut
<1>2. CacheType' /\ LoginType' /\ TimeType'
  BY <1>1, TypeParts DEF TypeInv, cache, logins, tokens, CacheType, LoginType, TimeType
<1> QED BY <1>1, <1>2, Ended, OutcomesAre DEF Keeps

LEMMA CliRanKeeps == ASSUME TypeInv, NEW p \in Procs, CliRan(p) PROVE Keeps(p)
<1>1. retried \subseteq Procs /\ out \in Outcomes /\ LoginType /\ CacheType /\ TimeType
  BY TypeParts DEF TypeInv, FetchType
<1>2. PICK due \in BOOLEAN : login' = [login EXCEPT !.due = due]
  BY <1>1 DEF CliRan, LoginType
<1>3. LoginType' /\ login'.due = due
  BY <1>1, <1>2 DEF LoginType, CliRan, tokens
<1>4. [Held EXCEPT !.due = due] \in Creds /\ [Held EXCEPT !.due = due].of # NoOne
  BY HeldIs, Strangers DEF Creds
<1>5. cred' = [cred EXCEPT ![p] = [Held EXCEPT !.due = due]]
  BY <1>3 DEF CliRan
<1>6. FetchType' /\ Known' /\ Frame(p)
  BY <1>1, <1>4, <1>5, GoesOn DEF CliRan, mine, Pcs
<1>7. CacheType' /\ TimeType'
  BY <1>1 DEF CliRan, cache, CacheType, TimeType
<1> QED BY <1>3, <1>6, <1>7 DEF Keeps, CliRan

LEMMA CutShort ==
  ASSUME NEW S, NEW s \in Seq(S), NEW n \in 0 .. Len(s)
  PROVE  ToSet(SubSeq(s, 1, n)) \subseteq ToSet(s)
<1> DEFINE t == SubSeq(s, 1, n)
<1>1. Len(s) \in Nat /\ DOMAIN s = 1 .. Len(s) /\ \A i \in 1 .. Len(s) : s[i] \in S
  BY LenProperties, ElementOfSeq
<1>2. n \in Int /\ n >= 0 /\ \A i \in 1 .. n : i \in 1 .. Len(s)
  BY <1>1
<1>3. \A i \in 1 .. n : s[i] \in S
  BY <1>1, <1>2
<1>4. t \in Seq(S) /\ Len(t) = (IF 1 <= n THEN n - 1 + 1 ELSE 0)
      /\ \A i \in 1 .. n - 1 + 1 : t[i] = s[1 + i - 1]
  BY <1>2, <1>3, SubSeqProperties
<1> HIDE DEF t
<1>5. DOMAIN t = 1 .. n
  BY <1>2, <1>4, LenProperties
<1>6. \A i \in 1 .. n : t[i] = s[i]
  BY <1>2, <1>4
<1>7. ToSet(t) \subseteq ToSet(s)
  BY <1>1, <1>2, <1>5, <1>6 DEF ToSet
<1> QED BY <1>7 DEF t

Removals == {"rmPayload", "rmStale", "rmErr", "rmRetry"}

LEMMA SweepIs ==
  ASSUME NEW l
  PROVE  Sweep(l) \in Seq(Removals) /\ ToSet(Sweep(l)) \subseteq Removals
<1>1. /\ <<>> \in Seq(Removals) /\ ClearMarkers \in Seq(Removals) /\ Forget \in Seq(Removals)
  BY DEF ClearMarkers, Forget, Removals
<1> QED BY <1>1, SequencesSay DEF Sweep, Removals

LEMMA TakeLockKeeps == ASSUME TypeInv, NEW p \in Procs, TakeLock(p) PROVE Keeps(p)
<1>1. retried \subseteq Procs /\ out \in Outcomes /\ CacheType /\ LoginType /\ TimeType
  BY TypeParts DEF TypeInv, FetchType
<1>2. IsVendor(vendor)
  BY VendorsAre, TypeParts DEF TypeInv
<1>3. CacheType'
  <2>1. CASE UNCHANGED cache
    BY <1>1, <2>1 DEF cache, CacheType
  <2>2. CASE vendor.own = "binds the sidecars" /\ Bind(cred[p].of)
    <3>1. ToSet(Sweep(cred[p].of)) \subseteq Removals /\ cred[p].of \in Logins
      BY <1>2, <2>2, SweepIs, CredIs
    <3>2. dir' \in Dirs
      BY <1>1, <2>2, <3>1, RemovedLeaves DEF Bind, CacheType, Removals
    <3> QED BY <1>1, <2>2, <3>1, <3>2 DEF Bind, CacheType
  <2> QED BY <2>1, <2>2 DEF TakeLock
<1>4. FetchType' /\ Known' /\ Frame(p)
  <2>1. CASE UNCHANGED cred
    BY <1>1, <2>1, CredIs, GoesOn DEF TakeLock, mine, Pcs, TypeInv, Known
  <2>2. CASE \E of \in {login.of} \cup (IF vendor.own = "reads twice" THEN {NoOne} ELSE {}) :
               cred' = [cred EXCEPT ![p] = [Held EXCEPT !.of = of]]
    <3> DEFINE c(l) == [Held EXCEPT !.of = l]
    <3>0. \A l \in Logins \cup {NoOne} : c(l) \in Creds /\ c(l).of = l
      BY HeldIs DEF Creds
    <3>1. PICK l \in {login.of} \cup (IF vendor.own = "reads twice" THEN {NoOne} ELSE {}) :
               cred' = [cred EXCEPT ![p] = c(l)]
      BY <2>2
    <3>2. l \in Logins \cup {NoOne} /\ (l = NoOne => vendor.own = "reads twice")
      BY <3>1, HeldIs, Strangers
    <3>3. c(l) \in Creds /\ c(l).of = l
      BY <3>0, <3>2
    <3> HIDE DEF c
    <3> QED BY <1>1, <3>1, <3>2, <3>3, GoesOn DEF TakeLock, mine, Pcs
  <2> QED BY <2>1, <2>2 DEF TakeLock
<1>5. LoginType' /\ TimeType'
  BY <1>1 DEF TakeLock, logins, tokens, LoginType, TimeType
<1> QED BY <1>3, <1>4, <1>5 DEF Keeps, TakeLock

LEMMA BindFailsDoes ==
  ASSUME TypeInv, NEW p \in Procs, BindFails(p)
  PROVE  /\ dir' \in Dirs /\ dir'.payload \in {dir.payload, NoPayload}
         /\ dir'.retry \in {dir.retry, 0} /\ (dir'.stale => dir.stale)
         /\ dir'.err \in {dir.err, NoError}
<1> DEFINE s == Sweep(cred[p].of)
<1>1. PICK n \in 0 .. Len(s) : dir' = Apply(dir, SubSeq(s, 1, n), NoError)
  BY DEF BindFails
<1>2. s \in Seq(Removals) /\ ToSet(s) \subseteq Removals
  BY SweepIs
<1> HIDE DEF s
<1>3. ToSet(SubSeq(s, 1, n)) \subseteq ToSet(s)
  BY <1>1, <1>2, CutShort
<1> DEFINE t == SubSeq(s, 1, n)
<1>4. dir \in Dirs /\ dir' = Apply(dir, t, NoError) /\ ToSet(t) \subseteq Removals
  BY <1>1, <1>2, <1>3, TypeParts DEF TypeInv, CacheType
<1> HIDE DEF t
<1> QED BY <1>4, RemovedLeaves DEF Removals

LEMMA BindFailsKeeps == ASSUME TypeInv, NEW p \in Procs, BindFails(p) PROVE Keeps(p)
<1>1. CacheType'
  BY BindFailsDoes, TypeParts DEF TypeInv, BindFails, CacheType
<1>2. LoginType' /\ TimeType'
  BY TypeParts DEF TypeInv, BindFails, logins, tokens, LoginType, TimeType
<1>3. FetchType' /\ Known' /\ Frame(p)
  BY Ended, OutcomesAre DEF BindFails
<1> QED BY <1>1, <1>2, <1>3 DEF Keeps, BindFails

LEMMA ServeKeeps == ASSUME TypeInv, NEW p \in Procs, Serve(p) PROVE Keeps(p)
<1>1. dir \in Dirs /\ dir.payload \in Payloads /\ dir.age \in 0 .. MaxStale + 1
  BY TypeParts DEF TypeInv, CacheType, Dirs
<1>2. CacheType' /\ LoginType' /\ TimeType'
  BY TypeParts DEF TypeInv, Serve, cache, logins, tokens, CacheType, LoginType, TimeType
<1>3. Offered # Limited
  <2>1. Offered = Named(cred[p].of)
    BY DEF Serve, Answers, Accepts
  <2>2. IsVendor(vendor)
    BY VendorsAre, TypeParts DEF TypeInv
  <2>3. CASE cred[p].of \in Logins
    BY <2>1, <2>3, NamedIs, Strangers
  <2>4. CASE cred[p].of = NoOne
    <3>1. vendor.own = "reads twice"
      BY <2>4 DEF TypeInv, Known
    <3> QED BY <2>1, <2>2, <2>4, <3>1, NobodyIsNamed, Strangers
  <2> QED BY <2>3, <2>4, CredIs
<1>4. Offered \in Payloads
  BY <1>1, <1>3 DEF Offered, FreshPayload, Payloads
<1>5. CachedOutcome(dir, Offered, dir.age, FALSE) \in Outcomes
  BY <1>1, <1>4, CachedIs
<1>6. FetchType' /\ Known' /\ Frame(p)
  BY <1>5, Ended DEF Serve
<1> QED BY <1>2, <1>6 DEF Keeps, Serve

LEMMA NotSentKeeps == ASSUME TypeInv, NEW p \in Procs, NotSent(p) PROVE Keeps(p)
<1>1. PICK code \in Answered : Fail(p, code)
  BY DEF NotSent, Answered
<1>2. LoginType' /\ TimeType'
  BY TypeParts DEF TypeInv, NotSent, logins, tokens, LoginType, TimeType
<1> QED BY <1>1, <1>2, FailKeeps DEF Keeps, NotSent

LEMMA HoldBackKeeps == ASSUME TypeInv, NEW p \in Procs, HoldBack(p) PROVE Keeps(p)
<1>1. CacheType' /\ LoginType' /\ TimeType'
  BY TypeParts DEF TypeInv, HoldBack, cache, logins, tokens, CacheType, LoginType, TimeType
<1> QED BY <1>1, Ended, OutcomesAre DEF Keeps, HoldBack

(***************************************************************************)
(* The credential a fetch goes on with.                                    *)
(***************************************************************************)
LEMMA ChosenAre ==
  ASSUME TypeInv, NEW p \in Procs, NEW c \in Chosen(p)
  PROVE  /\ c \in Creds /\ (c = cred[p] \/ (c = PairOf(p) /\ pair.there))
         /\ c.of = NoOne => vendor.own = "reads twice"
<1>1. c = cred[p] \/ (c = PairOf(p) /\ pair.there)
  BY DEF Chosen, KeepsFor
<1> QED BY <1>1, CredIs, PairIs, Strangers DEF TypeInv, Known

LEMMA GoOnDoes ==
  ASSUME TypeInv, NEW p \in Procs, GoOn(p)
  PROVE  \E c \in Chosen(p) :
           /\ cred'[p] = c
           /\ pc'[p] = (IF ~KnowsWho(p) THEN "who"
                        ELSE IF vendor.spends = "due" /\ c.due THEN "refresh" ELSE "ask")
           /\ lock' = IF vendor.own = "has no cache" /\ ~c.due THEN NoOne ELSE lock
           /\ FetchType' /\ Known' /\ Frame(p)
<1>1. PICK c \in Chosen(p) :
        /\ cred' = [cred EXCEPT ![p] = c]
        /\ Goto(p, IF ~KnowsWho(p) THEN "who"
                   ELSE IF vendor.spends = "due" /\ c.due THEN "refresh" ELSE "ask")
        /\ lock' = IF vendor.own = "has no cache" /\ ~c.due THEN NoOne ELSE lock
  BY DEF GoOn
<1> DEFINE to == IF ~KnowsWho(p) THEN "who"
                 ELSE IF vendor.spends = "due" /\ c.due THEN "refresh" ELSE "ask"
<1>2. to \in Pcs
  BY DEF Pcs
<1>3. to \in {"refresh", "save"} => vendor.spends # "never"
  OBVIOUS
<1>4. c \in Creds /\ (c.of = NoOne => vendor.own = "reads twice")
  BY ChosenAre
<1>5. lock \in Procs \cup {NoOne} /\ retried \subseteq Procs /\ out \in Outcomes
  BY TypeParts DEF TypeInv, FetchType
<1>6. /\ lock' \in Procs \cup {NoOne} /\ retried' \subseteq Procs /\ out' \in Outcomes
      /\ UNCHANGED vendor
  BY <1>1, <1>5 DEF GoOn, mine
<1> HIDE DEF to
<1>7. Goto(p, to) /\ cred' = [cred EXCEPT ![p] = c]
  BY <1>1 DEF to
<1>8. FetchType' /\ Known' /\ Frame(p) /\ pc'[p] = to /\ cred'[p] = c
  BY <1>2, <1>3, <1>4, <1>6, <1>7, GoesOn
<1> QED BY <1>1, <1>8 DEF to

LEMMA GoOnKeeps == ASSUME TypeInv, NEW p \in Procs, GoOn(p) PROVE Keeps(p)
<1>1. CacheType' /\ LoginType' /\ TimeType'
  BY TypeParts DEF TypeInv, GoOn, cache, logins, tokens, CacheType, LoginType, TimeType
<1> QED BY <1>1, GoOnDoes DEF Keeps, GoOn

LEMMA LookInLedgerDoes ==
  ASSUME TypeInv, NEW p \in Procs, LookInLedger(p)
  PROVE  \/ /\ ledger[cred[p].of].left = 0
            /\ ledger' = [ledger EXCEPT ![cred[p].of] = [left |-> Backoff, ok |-> FALSE]]
            /\ Goto(p, "ask")
            /\ UNCHANGED <<cred, mine, lock>>
         \/ /\ \E o \in Outcomes : Finish(p, o) /\ (o.shows \in Logins => o.shows = Named(cred[p].of))
            /\ UNCHANGED ledger
<1>1. dir \in Dirs /\ dir.payload \in Payloads /\ "local" \in Codes
  BY TypeParts DEF TypeInv, CacheType, Dirs, Codes
<1> DEFINE last == ledger[cred[p].of]
<1>2. CASE last.left = 0
  BY <1>2 DEF LookInLedger
<1>3. CASE last.left # 0 /\ last.ok /\ Accepts(dir.payload, cred[p].of)
  <2>1. Finish(p, CachedOutcome(dir, dir.payload, dir.age, FALSE)) /\ UNCHANGED ledger
    BY <1>3 DEF LookInLedger
  <2>2. /\ CachedOutcome(dir, dir.payload, dir.age, FALSE) \in Outcomes
        /\ CachedOutcome(dir, dir.payload, dir.age, FALSE).shows = Named(cred[p].of)
    BY <1>1, <1>3, CachedIs DEF Accepts
  <2> QED BY <2>1, <2>2
<1>4. CASE last.left # 0 /\ ~(last.ok /\ Accepts(dir.payload, cred[p].of))
  <2>1. Finish(p, Fallback(Seen(dir, cred[p].of), "local")) /\ UNCHANGED ledger
    BY <1>4 DEF LookInLedger
  <2> DEFINE o == Fallback(Seen(dir, cred[p].of), "local")
  <2>2. o \in Outcomes /\ (o.shows \in Logins => o.shows = Named(cred[p].of))
    BY <1>1, FallbackShows
  <2> QED BY <2>1, <2>2
<1> QED BY <1>2, <1>3, <1>4

LEMMA LookInLedgerKeeps == ASSUME TypeInv, NEW p \in Procs, LookInLedger(p) PROVE Keeps(p)
<1>1. /\ lock \in Procs \cup {NoOne} /\ retried \subseteq Procs /\ out \in Outcomes
      /\ ledger \in [Logins -> [left : 0 .. Backoff, ok : BOOLEAN]] /\ TimeType
      /\ IsVendor(vendor)
  BY TypeParts, VendorsAre DEF TypeInv, FetchType, TimeType
<1>2. CacheType' /\ LoginType' /\ UNCHANGED <<vendor, quiet, deaths>>
  BY TypeParts DEF TypeInv, LookInLedger, cache, logins, tokens, CacheType, LoginType
<1>3. CASE /\ ledger' = [ledger EXCEPT ![cred[p].of] = [left |-> Backoff, ok |-> FALSE]]
           /\ Goto(p, "ask") /\ UNCHANGED <<cred, mine, lock>>
  <2>1. [left |-> Backoff, ok |-> FALSE] \in [left : 0 .. Backoff, ok : BOOLEAN]
    BY Times
  <2>2. ledger' \in [Logins -> [left : 0 .. Backoff, ok : BOOLEAN]]
    BY <1>1, <1>3, <2>1
  <2>3. TimeType'
    BY <1>1, <1>2, <2>2 DEF TimeType
  <2>4. FetchType' /\ Known' /\ Frame(p)
    BY <1>1, <1>2, <1>3, GoesOn, CredIs DEF mine, Pcs, TypeInv, Known
  <2> QED BY <1>2, <2>3, <2>4 DEF Keeps
<1>4. CASE (\E o \in Outcomes : Finish(p, o)) /\ UNCHANGED ledger
  <2>1. TimeType'
    BY <1>1, <1>2, <1>4 DEF TimeType
  <2> QED BY <1>2, <1>4, <2>1, Ended DEF Keeps
<1> QED BY <1>3, <1>4, LookInLedgerDoes

(***************************************************************************)
(* The two kinds of end of Cline's question: an answer, or a failure that  *)
(* is noted.                                                               *)
(***************************************************************************)
LEMMA AskWhoDoes ==
  ASSUME TypeInv, NEW p \in Procs, AskWho(p)
  PROVE  /\ UNCHANGED <<vendor, ledger, logins, tokens, deaths, whose, ended, bound, markOf>>
         /\ \/ Goto(p, "ask") /\ UNCHANGED <<cache, quiet, cred, mine, lock>>
            \/ /\ \E o \in Outcomes :
                    Finish(p, o) /\ (o.shows \in Logins => o.shows = Named(cred[p].of))
               /\ \/ UNCHANGED <<dir, quiet>>
                  \/ \E code \in {"limited", "status"} :
                       /\ dir' = Recorded(dir, code)
                       /\ quiet' = IF code = "limited" THEN Hushed ELSE quiet
<1>1. dir \in Dirs /\ dir.payload \in Payloads /\ IsVendor(vendor)
  BY TypeParts, VendorsAre DEF TypeInv, CacheType, Dirs
<1>2. UNCHANGED <<vendor, ledger, logins, tokens, deaths, whose, ended, bound, markOf>>
  BY DEF AskWho, cache
<1>3. CASE Accepts(Offered, cred[p].of)
           /\ Finish(p, CachedOutcome(dir, Offered, dir.age, FALSE)) /\ UNCHANGED <<cache, quiet>>
  <2>1. Offered = Named(cred[p].of)
    BY <1>3 DEF Accepts
  <2>2. Offered # Limited
    <3>1. CASE cred[p].of \in Logins
      BY <2>1, <3>1, NamedIs, Strangers
    <3>2. CASE cred[p].of = NoOne
      <4>1. vendor.own = "reads twice"
        BY <3>2 DEF TypeInv, Known
      <4> QED BY <1>1, <2>1, <3>2, <4>1, NobodyIsNamed, Strangers
    <3> QED BY <3>1, <3>2, CredIs
  <2>3. Offered \in Payloads
    BY <1>1, <2>2 DEF Offered, FreshPayload, Payloads
  <2>4. /\ CachedOutcome(dir, Offered, dir.age, FALSE) \in Outcomes
        /\ CachedOutcome(dir, Offered, dir.age, FALSE).shows = Offered
    BY <1>1, <2>3, CachedIs
  <2> QED BY <1>2, <1>3, <2>1, <2>4 DEF cache
<1>4. CASE Goto(p, "ask") /\ UNCHANGED <<cache, quiet, cred, mine, lock>>
  BY <1>2, <1>4
<1>5. CASE Finish(p, Failed) /\ UNCHANGED <<cache, quiet>>
  BY <1>2, <1>5, OutcomesAre, Strangers DEF cache
<1>6. CASE \E code \in {"limited", "status"} :
             /\ dir' = Recorded(dir, code)
             /\ quiet' = IF code = "limited" THEN Hushed ELSE quiet
             /\ Finish(p, Failed)
  BY <1>2, <1>6, OutcomesAre, Strangers
<1> QED BY <1>3, <1>4, <1>5, <1>6 DEF AskWho

LEMMA AskWhoKeeps == ASSUME TypeInv, NEW p \in Procs, AskWho(p) PROVE Keeps(p)
<1>1. /\ lock \in Procs \cup {NoOne} /\ retried \subseteq Procs /\ out \in Outcomes
      /\ TimeType /\ LoginType /\ CacheType
  BY TypeParts DEF TypeInv, FetchType
<1>2. UNCHANGED <<vendor, ledger, logins, tokens, deaths, whose, ended, bound, markOf>>
  BY AskWhoDoes
<1>3. FetchType' /\ Known' /\ Frame(p)
  <2>1. CASE Goto(p, "ask") /\ UNCHANGED <<cred, mine, lock>>
    BY <1>1, <1>2, <2>1, GoesOn, CredIs DEF mine, Pcs, TypeInv, Known
  <2>2. CASE \E o \in Outcomes : Finish(p, o)
    BY <1>2, <2>2, Ended
  <2> QED BY <2>1, <2>2, AskWhoDoes
<1>4. dir' \in Dirs /\ quiet' \in [Logins -> 0 .. Backoff]
  <2>1. CASE UNCHANGED <<dir, quiet>>
    BY <1>1, <2>1 DEF CacheType, TimeType
  <2>2. CASE \E code \in {"limited", "status"} :
               /\ dir' = Recorded(dir, code)
               /\ quiet' = IF code = "limited" THEN Hushed ELSE quiet
    <3>1. PICK code \in {"limited", "status"} :
               /\ dir' = Recorded(dir, code)
               /\ quiet' = IF code = "limited" THEN Hushed ELSE quiet
      BY <2>2
    <3>2. Hushed \in [Logins -> 0 .. Backoff]
      BY Times DEF Hushed
    <3>3. code \in Codes
      BY DEF Codes
    <3> QED BY <1>1, <3>1, <3>2, <3>3, RecordedDoes DEF CacheType, TimeType
  <2> QED BY <2>1, <2>2, AskWhoDoes DEF cache
<1>5. CacheType' /\ TimeType' /\ LoginType'
  BY <1>1, <1>2, <1>4 DEF CacheType, TimeType, LoginType, logins, tokens
<1> QED BY <1>2, <1>3, <1>5 DEF Keeps

LEMMA AskDoes ==
  ASSUME TypeInv, NEW p \in Procs, Ask(p)
  PROVE  /\ FetchType' /\ Known' /\ Frame(p) /\ pc'[p] = "reply"
         /\ cred'[p].of = cred[p].of /\ cred'[p].token = cred[p].token
         /\ cred'[p].asks = IF vendor.own = "reads twice" THEN login.of ELSE cred[p].asks
<1>1. /\ lock \in Procs \cup {NoOne} /\ retried \subseteq Procs /\ out \in Outcomes
      /\ cred \in [Procs -> Creds] /\ login.of \in Logins
  BY TypeParts DEF TypeInv, FetchType, LoginType
<1> DEFINE c == IF vendor.own = "reads twice" THEN [cred[p] EXCEPT !.asks = login.of]
                ELSE cred[p]
<1>2. /\ c \in Creds /\ c.of = cred[p].of /\ c.token = cred[p].token
      /\ c.asks = IF vendor.own = "reads twice" THEN login.of ELSE cred[p].asks
  BY <1>1, CredIs DEF Creds
<1>3. cred' = [cred EXCEPT ![p] = c] \/ (cred' = cred /\ c = cred[p])
  BY <1>1 DEF Ask
<1> HIDE DEF c
<1>4. c.of = NoOne => vendor.own = "reads twice"
  BY <1>2 DEF TypeInv, Known
<1>5. FetchType' /\ Known' /\ Frame(p) /\ pc'[p] = "reply" /\ cred'[p] = c
  BY <1>1, <1>2, <1>3, <1>4, GoesOn DEF Ask, mine, Pcs
<1> QED BY <1>2, <1>5

LEMMA AskKeeps == ASSUME TypeInv, NEW p \in Procs, Ask(p) PROVE Keeps(p)
<1>1. CacheType /\ LoginType /\ TimeType
  BY TypeParts DEF TypeInv
<1>2. quiet' \in [Logins -> 0 .. Backoff]
  <2>1. quiet' = quiet \/ quiet' = [quiet EXCEPT ![cred[p].of] = Backoff]
    BY DEF Ask
  <2> QED BY <1>1, <2>1, Times DEF TimeType
<1>3. CacheType' /\ LoginType' /\ TimeType'
  BY <1>1, <1>2 DEF Ask, cache, logins, tokens, CacheType, LoginType, TimeType
<1> QED BY <1>3, AskDoes DEF Keeps, Ask

LEMMA ReplyOkKeeps == ASSUME TypeInv, NEW p \in Procs, ReplyOk(p) PROVE Keeps(p)
<1>1. CacheType /\ LoginType /\ TimeType /\ cred[p].of \in Logins
  BY TypeParts, CredIs DEF TypeInv, ReplyOk
<1>2. CacheType'
  <2>1. CASE UNCHANGED cache
    BY <1>1, <2>1 DEF cache, CacheType
  <2>2. CASE Write(p, cred[p].of)
    BY <1>1, <2>2, WriteDoes
  <2> QED BY <2>1, <2>2 DEF ReplyOk, NotWritten
<1>3. Named(cred[p].of) \in Payloads
  BY <1>1, NamedIs DEF Payloads
<1>4. FetchType' /\ Known' /\ Frame(p)
  BY <1>3, OutcomesAre, Ended DEF ReplyOk
<1>5. ledger' \in [Logins -> [left : 0 .. Backoff, ok : BOOLEAN]]
  <2>1. ledger' = ledger \/ ledger' = [ledger EXCEPT ![cred[p].of].ok = TRUE]
    BY DEF ReplyOk
  <2>2. ledger \in [Logins -> [left : 0 .. Backoff, ok : BOOLEAN]]
    BY <1>1 DEF TimeType
  <2> QED BY <2>1, <2>2
<1>6. quiet' \in [Logins -> 0 .. Backoff]
  <2>1. quiet' = quiet \/ quiet' = [l \in Logins |-> 0]
    BY DEF ReplyOk, Unhushed
  <2> QED BY <1>1, <2>1, Times DEF TimeType
<1>7. TimeType' /\ LoginType'
  BY <1>1, <1>5, <1>6 DEF ReplyOk, TimeType, LoginType, logins, tokens
<1> QED BY <1>2, <1>4, <1>7 DEF Keeps, ReplyOk

LEMMA ReplyCheckedKeeps == ASSUME TypeInv, NEW p \in Procs, ReplyChecked(p) PROVE Keeps(p)
<1>1. CacheType /\ LoginType /\ TimeType /\ login.of \in Logins /\ cred[p].asks \in Payloads
  BY TypeParts, CredIs DEF TypeInv, LoginType, Payloads
<1>3. CacheType' /\ quiet' \in [Logins -> 0 .. Backoff]
  <2>1. CASE UNCHANGED <<cache, quiet>>
    BY <1>1, <2>1 DEF cache, CacheType, TimeType
  <2>2. CASE cred[p].of = login.of /\ Write(p, cred[p].of) /\ quiet' = Unhushed
    BY <1>1, <2>2, WriteDoes, Times DEF Unhushed
  <2> QED BY <2>1, <2>2 DEF ReplyChecked
<1>4. FetchType' /\ Known' /\ Frame(p)
  BY <1>1, OutcomesAre, Ended DEF ReplyChecked
<1>5. TimeType' /\ LoginType'
  BY <1>1, <1>3 DEF ReplyChecked, TimeType, LoginType, logins, tokens
<1> QED BY <1>3, <1>4, <1>5 DEF Keeps, ReplyChecked

LEMMA ReplyFailsKeeps == ASSUME TypeInv, NEW p \in Procs, ReplyFails(p) PROVE Keeps(p)
<1>1. PICK code \in Answered : /\ Fail(p, code)
                               /\ quiet' = IF code = "limited" /\ ~Paces THEN Hushed ELSE quiet
  BY DEF ReplyFails, Answered
<1>2. LoginType /\ TimeType
  BY TypeParts DEF TypeInv
<1>3. quiet' \in [Logins -> 0 .. Backoff]
  BY <1>1, <1>2, Times DEF TimeType, Hushed
<1>4. LoginType' /\ TimeType'
  BY <1>2, <1>3 DEF ReplyFails, LoginType, TimeType, logins, tokens
<1> QED BY <1>1, <1>4, FailKeeps DEF Keeps, ReplyFails

LEMMA AsAgentDoes ==
  ASSUME TypeInv, NEW p \in Procs, AsAgent(p)
  PROVE  /\ FetchType' /\ Known' /\ Frame(p) /\ pc'[p] = "ask"
         /\ cred'[p].of = cred'[p].asks
<1>1. PICK l \in Logins : cred' = [cred EXCEPT ![p].of = l, ![p].asks = l]
  BY DEF AsAgent
<1>2. /\ lock \in Procs \cup {NoOne} /\ retried \subseteq Procs /\ out \in Outcomes
      /\ cred \in [Procs -> Creds]
  BY TypeParts DEF TypeInv, FetchType
<1> DEFINE c == [cred[p] EXCEPT !.of = l, !.asks = l]
<1>3. c \in Creds /\ c.of = l /\ c.asks = l
  BY CredIs DEF Creds
<1>4. cred' = [cred EXCEPT ![p] = c]
  BY <1>1, <1>2
<1> HIDE DEF c
<1>5. /\ Goto(p, "ask") /\ UNCHANGED vendor
      /\ lock' \in Procs \cup {NoOne} /\ retried' \subseteq Procs /\ out' \in Outcomes
  BY <1>2 DEF AsAgent
<1>6. c.of # NoOne
  BY <1>3, Strangers
<1>7. "ask" \in Pcs /\ "ask" \notin {"refresh", "save"}
  BY DEF Pcs
<1>8. FetchType' /\ Known' /\ Frame(p) /\ pc'[p] = "ask" /\ cred'[p] = c
  BY <1>3, <1>4, <1>5, <1>6, <1>7, GoesOn
<1> QED BY <1>3, <1>8

LEMMA AsAgentKeeps == ASSUME TypeInv, NEW p \in Procs, AsAgent(p) PROVE Keeps(p)
<1>1. CacheType' /\ LoginType' /\ TimeType'
  BY TypeParts DEF TypeInv, AsAgent, cache, logins, tokens, CacheType, LoginType, TimeType
<1> QED BY <1>1, AsAgentDoes DEF Keeps, AsAgent

LEMMA RenewRefusedKeeps == ASSUME TypeInv, NEW p \in Procs, RenewRefused(p) PROVE Keeps(p)
<1>1. CacheType' /\ LoginType' /\ TimeType'
  BY TypeParts
  DEF TypeInv, RenewRefused, cache, logins, tokens, CacheType, LoginType, TimeType
<1>2. lock \in Procs \cup {NoOne} /\ retried \subseteq Procs /\ out \in Outcomes
  BY TypeParts DEF TypeInv, FetchType
<1>3. FetchType' /\ Known' /\ Frame(p)
  BY <1>2, GoesOn, CredIs DEF RenewRefused, Pcs, TypeInv, Known
<1> QED BY <1>1, <1>3 DEF Keeps, RenewRefused

(***************************************************************************)
(* The three ends of a renewal: the new pair is in hand, it went missing,  *)
(* or there is none.                                                       *)
(***************************************************************************)
Rotates(p) ==
  /\ cred[p].token = newest[cred[p].of]
  /\ newest[cred[p].of] < MaxTokens
  /\ newest' = [newest EXCEPT ![cred[p].of] = @ + 1]

LEMMA RefreshDoes ==
  ASSUME TypeInv, NEW p \in Procs, Refresh(p)
  PROVE  /\ FetchType' /\ Known' /\ Frame(p) /\ CacheType'
         /\ \/ /\ Rotates(p) /\ pc'[p] = "save"
               /\ cred'[p].of = cred[p].of /\ cred'[p].asks = cred[p].asks
               /\ cred'[p].token = cred[p].token + 1
               /\ UNCHANGED <<cache, mine, lock, lost>>
            \/ Rotates(p) /\ lost' = TRUE /\ Fail(p, "transport") /\ pc'[p] = "idle"
            \/ /\ \E code \in Answered : code # "limited" /\ Fail(p, code)
               /\ pc'[p] = "idle"
               /\ UNCHANGED <<newest, lost>>
<1>1. /\ lock \in Procs \cup {NoOne} /\ retried \subseteq Procs /\ out \in Outcomes
      /\ cred \in [Procs -> Creds] /\ newest \in [Logins -> 0 .. MaxTokens]
      /\ CacheType /\ UNCHANGED vendor /\ cred[p].of \in Logins
      /\ vendor.spends # "never"
  BY TypeParts, SpenderIs DEF TypeInv, Known, FetchType, LoginType, Refresh
<1>2. CASE /\ Rotates(p)
           /\ cred' = [cred EXCEPT ![p].token = @ + 1, ![p].due = FALSE]
           /\ Goto(p, "save")
           /\ UNCHANGED <<cache, mine, lock, lost>>
  <2> DEFINE c == [cred[p] EXCEPT !.token = cred[p].token + 1, !.due = FALSE]
  <2>1. cred[p].token + 1 \in 0 .. MaxTokens
    <3>1. newest[cred[p].of] \in 0 .. MaxTokens
      BY <1>1
    <3>2. cred[p].token = newest[cred[p].of] /\ newest[cred[p].of] < MaxTokens
      BY <1>2 DEF Rotates
    <3> QED BY <3>1, <3>2, Times
  <2>2. /\ c \in Creds /\ c.of = cred[p].of /\ c.asks = cred[p].asks
        /\ c.token = cred[p].token + 1
    BY <2>1, CredIs DEF Creds
  <2>3. cred' = [cred EXCEPT ![p] = c]
    BY <1>1, <1>2
  <2> HIDE DEF c
  <2>4. c.of = NoOne => vendor.own = "reads twice"
    BY <2>2 DEF TypeInv, Known
  <2>5. FetchType' /\ Known' /\ Frame(p) /\ pc'[p] = "save" /\ cred'[p] = c
    BY <1>1, <1>2, <2>2, <2>3, <2>4, GoesOn DEF mine, Pcs
  <2>6. CacheType'
    BY <1>1, <1>2 DEF cache, CacheType
  <2> QED BY <1>2, <2>2, <2>5, <2>6
<1>3. CASE Rotates(p) /\ lost' = TRUE /\ Fail(p, "transport")
  BY <1>1, <1>3, FailKeeps DEF Answered
<1>4. CASE (\E code \in {"transport", "local"} : Fail(p, code)) /\ UNCHANGED <<newest, lost>>
  BY <1>1, <1>4, FailKeeps DEF Answered
<1> QED BY <1>2, <1>3, <1>4 DEF Refresh, Rotates

LEMMA RefreshKeeps == ASSUME TypeInv, NEW p \in Procs, Refresh(p) PROVE Keeps(p)
<1>1. LoginType /\ TimeType /\ UNCHANGED <<vendor, ledger, login, used, pair, quiet, deaths>>
  BY TypeParts DEF TypeInv, Refresh, logins
<1>2. newest' \in [Logins -> 0 .. MaxTokens]
  <2>1. CASE Rotates(p)
    <3>1. newest \in [Logins -> 0 .. MaxTokens] /\ cred[p].of \in Logins
      BY <1>1, SpenderIs DEF LoginType, Refresh
    <3>2. newest[cred[p].of] + 1 \in 0 .. MaxTokens
      BY <2>1, <3>1, Times DEF Rotates
    <3> QED BY <2>1, <3>1, <3>2 DEF Rotates
  <2>2. CASE UNCHANGED newest
    BY <1>1, <2>2 DEF LoginType
  <2> QED BY <2>1, <2>2, RefreshDoes
<1>3. lost' \in BOOLEAN
  BY <1>1, RefreshDoes DEF LoginType
<1>4. LoginType' /\ TimeType'
  BY <1>1, <1>2, <1>3 DEF LoginType, TimeType
<1> QED BY <1>1, <1>4, RefreshDoes DEF Keeps

LEMMA SaveDoes ==
  ASSUME TypeInv, NEW p \in Procs, Save(p)
  PROVE  /\ FetchType' /\ Known' /\ Frame(p) /\ CacheType'
         /\ \/ /\ pc'[p] = "ask" /\ cred'[p] = cred[p] /\ UNCHANGED <<cache, mine, lost>>
               /\ \/ /\ vendor.own = "has no cache"
                     /\ login' = [of |-> cred[p].of, token |-> cred[p].token, due |-> FALSE]
                     /\ lock' = NoOne /\ UNCHANGED pair
                  \/ /\ vendor.own # "has no cache"
                     /\ pair' = Kept(cred[p]) /\ UNCHANGED <<login, lock>>
            \/ /\ lost' = TRUE /\ Fail(p, "local") /\ pc'[p] = "idle"
               /\ UNCHANGED <<pair, login>>
<1>1. /\ lock \in Procs \cup {NoOne} /\ retried \subseteq Procs /\ out \in Outcomes
      /\ CacheType /\ UNCHANGED vendor
  BY TypeParts DEF TypeInv, FetchType, Save
<1>2. CASE /\ \/ /\ vendor.own = "has no cache"
                 /\ login' = [of |-> cred[p].of, token |-> cred[p].token, due |-> FALSE]
                 /\ lock' = NoOne /\ UNCHANGED pair
              \/ /\ vendor.own # "has no cache"
                 /\ pair' = Kept(cred[p]) /\ UNCHANGED <<login, lock>>
           /\ Goto(p, "ask")
           /\ UNCHANGED <<cache, cred, mine, lost>>
  <2>1. lock' \in Procs \cup {NoOne}
    BY <1>1, <1>2
  <2>2. FetchType' /\ Known' /\ Frame(p) /\ pc'[p] = "ask" /\ cred'[p] = cred[p]
    BY <1>1, <1>2, <2>1, GoesOn, CredIs DEF mine, Pcs, TypeInv, Known
  <2>3. CacheType'
    BY <1>1, <1>2 DEF cache, CacheType
  <2> QED BY <1>2, <2>2, <2>3
<1>3. CASE lost' = TRUE /\ Fail(p, "local") /\ UNCHANGED <<pair, login>>
  BY <1>1, <1>3, FailKeeps DEF Answered
<1> QED BY <1>2, <1>3 DEF Save

LEMMA SaveKeeps == ASSUME TypeInv, NEW p \in Procs, Save(p) PROVE Keeps(p)
<1>1. LoginType /\ TimeType /\ UNCHANGED <<vendor, ledger, used, newest, quiet, deaths>>
  BY TypeParts DEF TypeInv, Save
<1>2. cred[p].of \in Logins /\ cred[p].token \in 0 .. MaxTokens
  BY CredIs, SpenderIs DEF Save
<1>3. login' \in [of : Logins, token : 0 .. MaxTokens, due : BOOLEAN]
  <2>1. \/ login' = login
        \/ login' = [of |-> cred[p].of, token |-> cred[p].token, due |-> FALSE]
    BY SaveDoes
  <2>2. \A l \in Logins, t \in 0 .. MaxTokens :
          [of |-> l, token |-> t, due |-> FALSE] \in
            [of : Logins, token : 0 .. MaxTokens, due : BOOLEAN]
    OBVIOUS
  <2>3. CASE login' = login
    BY <1>1, <2>3 DEF LoginType
  <2>4. CASE login' = [of |-> cred[p].of, token |-> cred[p].token, due |-> FALSE]
    BY <1>2, <2>2, <2>4
  <2> QED BY <2>1, <2>3, <2>4
<1>4. pair' \in [of : Logins, token : 0 .. MaxTokens, due : BOOLEAN, there : BOOLEAN]
  <2>1. pair' = pair \/ pair' = Kept(cred[p])
    BY SaveDoes
  <2>2. \A l \in Logins, t \in 0 .. MaxTokens :
          [of |-> l, token |-> t, due |-> FALSE, there |-> TRUE] \in
            [of : Logins, token : 0 .. MaxTokens, due : BOOLEAN, there : BOOLEAN]
    OBVIOUS
  <2>3. CASE pair' = pair
    BY <1>1, <2>3 DEF LoginType
  <2>4. CASE pair' = Kept(cred[p])
    BY <1>2, <2>2, <2>4 DEF Kept
  <2> QED BY <2>1, <2>3, <2>4
<1>5. lost' \in BOOLEAN
  BY <1>1, SaveDoes DEF LoginType
<1>6. LoginType' /\ TimeType'
  BY <1>1, <1>3, <1>4, <1>5 DEF LoginType, TimeType
<1> QED BY <1>1, <1>6, SaveDoes DEF Keeps

LEMMA DieKeeps == ASSUME TypeInv, NEW p \in Procs, Die(p) PROVE Keeps(p)
<1>1. LoginType /\ TimeType /\ CacheType
  BY TypeParts DEF TypeInv
<1>2. lost' \in BOOLEAN
  BY DEF Die
<1>3. deaths' \in 0 .. MaxDeaths
  BY <1>1, Times DEF Die, TimeType
<1>4. LoginType' /\ TimeType' /\ CacheType'
  BY <1>1, <1>2, <1>3 DEF Die, logins, cache, LoginType, TimeType, CacheType
<1>5. FetchType' /\ Known' /\ Frame(p)
  BY Ended, OutcomesAre DEF Die
<1> QED BY <1>4, <1>5 DEF Keeps, Die

LEMMA ProcessKeeps ==
  ASSUME TypeInv, NEW p \in Procs, Start(p) \/ Step(p) \/ Die(p)
  PROVE  Keeps(p)
BY StartKeeps, RenewKeeps, RenewTimesOutKeeps, CliRanKeeps, TakeLockKeeps, BindFailsKeeps,
   ServeKeeps, NotSentKeeps, HoldBackKeeps, GoOnKeeps, LookInLedgerKeeps, AskWhoKeeps,
   AskKeeps, ReplyOkKeeps, ReplyCheckedKeeps, ReplyFailsKeeps, AsAgentKeeps,
   RenewRefusedKeeps, RefreshKeeps, SaveKeeps, DieKeeps
DEF Step

(***************************************************************************)
(* What the rest of the world does to a fetch: nothing.                    *)
(***************************************************************************)
World == \/ \E l \in Logins : SignIn(l)
         \/ AppRenews \/ Lapse \/ PeriodEnds \/ Tick

LEMMA WorldLeaves ==
  ASSUME World
  PROVE  UNCHANGED <<vendor, lock, pc, cred, retried, out, deaths, whose, bound, markOf, lost>>
BY DEF World, SignIn, AppRenews, Lapse, PeriodEnds, Tick, cache, mine, tokens, logins

LEMMA WorldKeeps ==
  ASSUME TypeInv, World
  PROVE  TypeInv'
<1>1. /\ UNCHANGED <<vendor, lock, pc, cred, retried, out, deaths, whose, bound, markOf, lost>>
      /\ vendor \in Vendors /\ CacheType /\ FetchType /\ LoginType /\ TimeType /\ Known
  BY WorldLeaves, TypeParts DEF TypeInv
<1>2. FetchType' /\ Known'
  BY <1>1 DEF FetchType, Known
<1>3. CacheType'
  <2>1. dir' = dir \/ dir' = Aged(dir)
    BY DEF World, SignIn, AppRenews, Lapse, PeriodEnds, Tick, cache
  <2>2. ended' \in BOOLEAN
    BY <1>1 DEF World, SignIn, AppRenews, Lapse, PeriodEnds, Tick, cache, CacheType
  <2> QED BY <1>1, <2>1, <2>2, AgedIs DEF CacheType
<1>4. TimeType'
  <2>1. CASE Tick
    <3>1. \A n \in 0 .. Backoff : Less(n) \in 0 .. Backoff
      BY Times DEF Less
    <3>2. quiet' \in [Logins -> 0 .. Backoff]
      BY <1>1, <2>1, <3>1 DEF Tick, TimeType
    <3>3. \A l \in Logins : [ledger[l] EXCEPT !.left = Less(@)] \in
                              [left : 0 .. Backoff, ok : BOOLEAN]
      BY <1>1, <3>1 DEF TimeType
    <3>4. ledger' \in [Logins -> [left : 0 .. Backoff, ok : BOOLEAN]]
      BY <2>1, <3>3 DEF Tick
    <3> QED BY <1>1, <3>2, <3>4 DEF TimeType
  <2>2. CASE ~Tick
    BY <1>1, <2>2 DEF World, SignIn, AppRenews, Lapse, PeriodEnds, TimeType
  <2> QED BY <2>1, <2>2
<1>5. LoginType'
  <2>1. CASE \E l \in Logins : SignIn(l)
    <3>1. PICK l \in Logins : SignIn(l)
      BY <2>1
    <3>2. login' \in [of : Logins, token : 0 .. MaxTokens, due : BOOLEAN]
      <4>1. login' = [of |-> l, token |-> 0, due |-> FALSE]
        BY <3>1 DEF SignIn
      <4>2. 0 \in 0 .. MaxTokens
        BY Times
      <4> QED BY <4>1, <4>2
    <3> QED BY <1>1, <3>1, <3>2 DEF SignIn, LoginType, tokens
  <2>2. CASE AppRenews
    <3>1. CASE login' = [login EXCEPT !.due = FALSE] /\ UNCHANGED newest
      BY <1>1, <2>2, <3>1 DEF AppRenews, LoginType
    <3>2. CASE /\ login.token < MaxTokens /\ login.token = newest[login.of]
               /\ newest' = [newest EXCEPT ![login.of] = @ + 1]
               /\ login' = [login EXCEPT !.token = @ + 1, !.due = FALSE]
      <4>1. login.of \in Logins /\ login.token + 1 \in 0 .. MaxTokens
        BY <1>1, <3>2, Times DEF LoginType
      <4>2. newest' \in [Logins -> 0 .. MaxTokens]
        BY <1>1, <3>2, <4>1 DEF LoginType
      <4>3. login' \in [of : Logins, token : 0 .. MaxTokens, due : BOOLEAN]
        BY <1>1, <3>2, <4>1 DEF LoginType
      <4> QED BY <1>1, <2>2, <4>2, <4>3 DEF AppRenews, LoginType
    <3> QED BY <2>2, <3>1, <3>2 DEF AppRenews
  <2>3. CASE Lapse
    BY <1>1, <2>3 DEF Lapse, LoginType
  <2>4. CASE PeriodEnds \/ Tick
    BY <1>1, <2>4 DEF PeriodEnds, Tick, logins, tokens, LoginType
  <2> QED BY <2>1, <2>2, <2>3, <2>4 DEF World
<1> QED BY <1>1, <1>2, <1>3, <1>4, <1>5, TypeParts DEF TypeInv

LEMMA NextIs ==
  ASSUME Next
  PROVE  (\E p \in Procs : Start(p) \/ Step(p) \/ Die(p)) \/ World
BY DEF Next, World

LEMMA TypeStep ==
  ASSUME TypeInv, [Next]_vars
  PROVE  TypeInv'
<1>1. CASE \E p \in Procs : Start(p) \/ Step(p) \/ Die(p)
  <2>1. PICK p \in Procs : Start(p) \/ Step(p) \/ Die(p)
    BY <1>1
  <2>2. Keeps(p)
    BY <2>1, ProcessKeeps
  <2>3. vendor' \in Vendors
    BY <2>2, TypeParts DEF TypeInv, Keeps
  <2> QED BY <2>2, <2>3, TypeParts DEF Keeps, TypeInv
<1>2. CASE World
  BY <1>2, WorldKeeps
<1>3. CASE UNCHANGED vars
  BY <1>3, TypeParts DEF vars, TypeInv, CacheType, FetchType, LoginType, TimeType, Known
<1> QED BY <1>1, <1>2, <1>3, NextIs

LEMMA TypeInit == Init => TypeInv
<1> SUFFICES ASSUME Init PROVE TypeInv
  OBVIOUS
<1>1. dir \in Dirs /\ dir.retry \in 0 .. Backoff
  <2>1. EmptyDir \in Dirs /\ PlainDir(Corrupt, 0) \in Dirs
    BY Times DEF EmptyDir, PlainDir, Dirs, Payloads
  <2>2. [PlainDir(Corrupt, 0) EXCEPT !.retry = Backoff] \in Dirs
    BY <2>1, Times DEF Dirs
  <2> QED BY <2>1, <2>2 DEF Init, Dirs
<1>2. vendor \in Vendors /\ CacheType
  BY <1>1, Strangers DEF Init, CacheType
<1>3. FetchType
  <2>1. /\ lock = NoOne /\ pc = [p \in Procs |-> "idle"] /\ retried = {}
        /\ cred = [p \in Procs |-> NoCred] /\ out = NoOutcome
    BY DEF Init
  <2>2. pc \in [Procs -> Pcs]
    BY <2>1 DEF Pcs
  <2>3. cred \in [Procs -> Creds] /\ out \in Outcomes
    BY <2>1, NoCredIs, OutcomesAre
  <2> QED BY <2>1, <2>2, <2>3 DEF FetchType
<1>4. LoginType
  <2>1. /\ login = [of |-> First, token |-> 0, due |-> FALSE] /\ pair = NoPair
        /\ newest = [l \in Logins |-> 0] /\ used = {First} /\ lost = FALSE
    BY DEF Init
  <2>2. 0 \in 0 .. MaxTokens /\ First \in Logins
    BY Times, Strangers
  <2>3. newest \in [Logins -> 0 .. MaxTokens] /\ used \subseteq Logins
    BY <2>1, <2>2
  <2>4. /\ login \in [of : Logins, token : 0 .. MaxTokens, due : BOOLEAN]
        /\ pair \in [of : Logins, token : 0 .. MaxTokens, due : BOOLEAN, there : BOOLEAN]
    BY <2>1, <2>2 DEF NoPair
  <2> QED BY <2>1, <2>3, <2>4 DEF LoginType
<1>5. TimeType
  <2>1. ledger \in [Logins -> [left : 0 .. Backoff, ok : BOOLEAN]]
    BY Times DEF Init
  <2>2. quiet = [l \in Logins |-> IF Paces THEN 0 ELSE dir.retry] /\ deaths = 0
    BY DEF Init
  <2>3. quiet \in [Logins -> 0 .. Backoff] /\ deaths \in 0 .. MaxDeaths
    BY <1>1, <2>2, Times
  <2> QED BY <2>1, <2>3 DEF TimeType
<1>6. Known
  BY NoCredIs, Strangers DEF Init, Known
<1> QED BY <1>2, <1>3, <1>4, <1>5, <1>6, TypeParts DEF TypeInv

(***************************************************************************)
(* The directory, the login, and every fetch keep their shape, whichever   *)
(* of the vendors it is.                                                   *)
(***************************************************************************)
THEOREM VendorTypes == Spec => []TypeOK
<1>1. TypeInv => TypeOK
  BY DEF TypeInv
<1> QED BY <1>1, TypeInit, TypeStep, PTL DEF Spec

-----------------------------------------------------------------------------
(* The lock. *)

(***************************************************************************)
(* Where the directory's lock is held: from its taking to the end of the   *)
(* fetch, except that Nous Research sends its request without it.          *)
(***************************************************************************)
Inside(p) == \/ pc[p] \in {"cli", "look", "who", "refresh", "save"}
             \/ pc[p] \in {"ask", "reply"} /\ vendor.own # "has no cache"

Places == \A p \in Procs :
  /\ Inside(p) => lock = p
  /\ pc[p] \in {"renew", "cli"} => vendor.own = "runs the CLI"
  /\ pc[p] = "who" => vendor.own = "asks who"

(***************************************************************************)
(* What a step of one fetch does to the lock.                              *)
(***************************************************************************)
Turn(p) == /\ lock' = lock \/ lock \in {NoOne, p}
           /\ Inside(p)' => lock' = p
           /\ pc'[p] \in {"renew", "cli"} => vendor.own = "runs the CLI"
           /\ pc'[p] = "who" => vendor.own = "asks who"

LEMMA EndTurns ==
  ASSUME TypeInv, NEW p \in Procs, NEW o, Finish(p, o)
  PROVE  Turn(p)
BY FinishDoes DEF TypeInv, Turn, Inside

LEMMA FailTurns ==
  ASSUME TypeInv, NEW p \in Procs, NEW code \in Answered, Fail(p, code)
  PROVE  Turn(p)
<1>1. Finish(p, out')
  BY FailDoes DEF TypeInv
<1> DEFINE o == out'
<1> HIDE DEF o
<1>2. Finish(p, o)
  BY <1>1 DEF o
<1> QED BY <1>2, EndTurns

LEMMA GotoIs ==
  ASSUME TypeInv, NEW p \in Procs, NEW label, Goto(p, label)
  PROVE  pc'[p] = label
BY TypeParts DEF TypeInv, FetchType, Goto

LEMMA ProcessTurns ==
  ASSUME TypeInv, Places, NEW p \in Procs, Start(p) \/ Step(p) \/ Die(p)
  PROVE  Turn(p)
<1>0. /\ vendor' = vendor /\ IsVendor(vendor)
      /\ lock \in Procs \cup {NoOne} /\ pc[p] \in Pcs
      /\ Inside(p) => lock = p
  BY ProcessKeeps, TypeParts, VendorsAre DEF Keeps, TypeInv, FetchType, Places
<1>1. CASE Start(p)
  <2>1. pc'[p] = IF vendor.own = "runs the CLI" /\ login.due THEN "renew" ELSE "lock"
    BY <1>1, GotoIs DEF Start
  <2> QED BY <1>1, <2>1 DEF Start, Turn, Inside
<1>2. CASE Renew(p)
  <2>1. \/ pc'[p] = "cli" /\ lock' = p
        \/ pc'[p] = "lock" /\ lock' = lock
    BY <1>2, GotoIs DEF Renew
  <2> QED BY <1>0, <1>2, <2>1 DEF Renew, Turn, Inside, Places
<1>3. CASE RenewTimesOut(p) \/ BindFails(p) \/ Serve(p) \/ HoldBack(p) \/ Die(p)
  BY <1>3, EndTurns DEF RenewTimesOut, BindFails, Serve, HoldBack, Die
<1>4. CASE CliRan(p)
  <2>1. pc'[p] = "lock" /\ lock' = NoOne /\ lock = p
    BY <1>0, <1>4, GotoIs DEF CliRan, Inside
  <2> QED BY <2>1 DEF Turn, Inside
<1>5. CASE TakeLock(p)
  <2>1. pc'[p] = "look" /\ lock' = p /\ lock = NoOne
    BY <1>5, GotoIs DEF TakeLock
  <2> QED BY <2>1 DEF Turn, Inside
<1>6. CASE NotSent(p) \/ ReplyFails(p)
  <2>1. \E code \in Answered : Fail(p, code)
    BY <1>6 DEF NotSent, ReplyFails, Answered
  <2> QED BY <2>1, FailTurns
<1>7. CASE GoOn(p)
  <2>1. lock = p
    BY <1>0, <1>7 DEF GoOn, Looks, Inside
  <2>2. PICK c \in Chosen(p) :
             /\ pc'[p] = (IF ~KnowsWho(p) THEN "who"
                          ELSE IF vendor.spends = "due" /\ c.due THEN "refresh" ELSE "ask")
             /\ lock' = IF vendor.own = "has no cache" /\ ~c.due THEN NoOne ELSE lock
    BY <1>7, GoOnDoes
  <2>3. pc'[p] \in {"who", "refresh", "ask"} /\ (pc'[p] = "who" => vendor.own = "asks who")
    BY <2>2 DEF KnowsWho
  <2>4. Inside(p)' => lock' = p
    <3>1. CASE vendor.own # "has no cache"
      BY <2>1, <2>2, <3>1
    <3>2. CASE vendor.own = "has no cache"
      <4>1. KnowsWho(p) /\ vendor.spends = "due"
        BY <1>0, <3>2 DEF KnowsWho, IsVendor
      <4> QED BY <1>0, <2>1, <2>2, <3>2, <4>1 DEF Inside
    <3> QED BY <3>1, <3>2
  <2> QED BY <2>1, <2>3, <2>4 DEF Turn
<1>8. CASE LookInLedger(p)
  <2>1. lock = p
    BY <1>0, <1>8 DEF LookInLedger, Inside
  <2>2. CASE Goto(p, "ask") /\ UNCHANGED lock
    BY <2>1, <2>2, GotoIs DEF Turn
  <2>3. CASE \E o \in Outcomes : Finish(p, o)
    BY <2>3, EndTurns
  <2> QED BY <1>8, <2>2, <2>3, LookInLedgerDoes
<1>9. CASE AskWho(p)
  <2>1. lock = p
    BY <1>0, <1>9 DEF AskWho, Inside
  <2>2. CASE Goto(p, "ask") /\ UNCHANGED lock
    BY <2>1, <2>2, GotoIs DEF Turn
  <2>3. CASE \E o \in Outcomes : Finish(p, o)
    BY <2>3, EndTurns
  <2> QED BY <1>9, <2>2, <2>3, AskWhoDoes
<1>10. CASE Ask(p)
  <2>1. pc'[p] = "reply" /\ lock' = lock
    BY <1>10, AskDoes DEF Ask
  <2> QED BY <1>0, <1>10, <2>1 DEF Ask, Turn, Inside
<1>11. CASE ReplyOk(p)
  BY <1>11, EndTurns DEF ReplyOk
<1>12. CASE ReplyChecked(p)
  BY <1>12, EndTurns DEF ReplyChecked
<1>13. CASE AsAgent(p)
  <2>1. pc'[p] = "ask" /\ lock' = lock
    BY <1>13, AsAgentDoes DEF AsAgent
  <2> QED BY <1>0, <1>13, <2>1 DEF AsAgent, Turn, Inside
<1>14. CASE RenewRefused(p)
  <2>1. pc'[p] = "refresh" /\ lock' = lock
    BY <1>14, GotoIs DEF RenewRefused
  <2>2. vendor.own # "has no cache"
    BY <1>0, <1>14 DEF RenewRefused, IsVendor
  <2> QED BY <1>0, <1>14, <2>1, <2>2 DEF RenewRefused, Turn, Inside
<1>15. CASE Refresh(p)
  <2>1. lock = p
    BY <1>0, <1>15 DEF Refresh, Inside
  <2>2. CASE pc'[p] = "save" /\ UNCHANGED lock
    BY <2>1, <2>2 DEF Turn
  <2>3. CASE \E code \in Answered : Fail(p, code)
    BY <2>3, FailTurns
  <2> QED BY <1>15, <2>2, <2>3, RefreshDoes DEF Answered
<1>16. CASE Save(p)
  <2>1. lock = p
    BY <1>0, <1>16 DEF Save, Inside
  <2>2. CASE pc'[p] = "ask" /\ (IF vendor.own = "has no cache" THEN lock' = NoOne
                                ELSE lock' = lock)
    BY <1>0, <2>1, <2>2 DEF Turn, Inside
  <2>3. CASE Fail(p, "local")
    BY <2>3, FailTurns DEF Answered
  <2> QED BY <1>16, <2>2, <2>3, SaveDoes
<1> QED BY <1>1, <1>2, <1>3, <1>4, <1>5, <1>6, <1>7, <1>8, <1>9, <1>10, <1>11, <1>12, <1>13,
           <1>14, <1>15, <1>16 DEF Step

LEMMA PlacesStep ==
  ASSUME TypeInv, Places, [Next]_vars
  PROVE  Places'
<1>1. CASE \E p \in Procs : Start(p) \/ Step(p) \/ Die(p)
  <2>1. PICK p \in Procs : Start(p) \/ Step(p) \/ Die(p)
    BY <1>1
  <2>2. Turn(p) /\ Keeps(p)
    BY <2>1, ProcessTurns, ProcessKeeps
  <2>3. vendor' = vendor /\ \A q \in Procs \ {p} : pc'[q] = pc[q]
    BY <2>2 DEF Keeps, Frame
  <2>4. ASSUME NEW q \in Procs \ {p}, Inside(q)'
        PROVE  lock' = q
    <3>1. lock = q
      BY <2>3, <2>4 DEF Places, Inside
    <3> QED BY <2>2, <3>1, Strangers DEF Turn
  <2> QED BY <2>2, <2>3, <2>4 DEF Turn, Places
<1>2. CASE World
  BY <1>2, WorldLeaves DEF Places, Inside
<1>3. CASE UNCHANGED vars
  BY <1>3 DEF vars, Places, Inside
<1> QED BY <1>1, <1>2, <1>3, NextIs

LEMMA PlacesInit == Init => Places
BY DEF Init, Places, Inside

(***************************************************************************)
(* Between two fetches that are at the lock's work, the lock decides.      *)
(***************************************************************************)
LEMMA OneInside ==
  ASSUME Places, NEW p \in Procs, NEW q \in Procs, Inside(p), Inside(q)
  PROVE  p = q
BY DEF Places

-----------------------------------------------------------------------------
(* Whose figures. *)

(***************************************************************************)
(* Only SuperGrok may ask with another login than the one it looked at,    *)
(* and if that one is still signed in when the answer comes, it asked with *)
(* it: nobody signs in twice there.  A payload is of the login it names.   *)
(***************************************************************************)
Owners ==
  /\ \A p \in Procs :
       /\ vendor.own # "reads twice" => cred[p].of = cred[p].asks
       /\ vendor.own = "reads twice" => cred[p].of \in used \cup {NoOne}
       /\ vendor.own = "reads twice" /\ pc[p] = "reply" /\ cred[p].of = login.of =>
            cred[p].asks = login.of
  /\ vendor.own = "reads twice" => First \in used /\ login.of \in used
  /\ dir.payload \in Logins => dir.payload = Named(whose)

Figures(p) == {Named(l) : l \in {cred[p].of, cred[p].asks} \cap Logins}

(***************************************************************************)
(* What a step of one fetch does to its credential, to the payload, and    *)
(* what it shows at its end.                                               *)
(***************************************************************************)
Goes(p) == /\ vendor.own # "reads twice" => cred'[p].of = cred'[p].asks
           /\ vendor.own = "reads twice" => cred'[p].of \in used \cup {NoOne}
           /\ vendor.own = "reads twice" /\ pc'[p] = "reply" => cred'[p].asks = login.of

Puts(p) == \/ dir'.payload \in {dir.payload, NoPayload} /\ whose' = whose
           \/ /\ Write(p, cred[p].of) /\ cred[p].of \in Logins
              /\ vendor.own = "reads twice" => pc[p] = "reply" /\ cred[p].of = login.of

Shows(p) == pc'[p] = "idle" /\ out'.shows \in Logins => out'.shows \in Figures(p)

LEMMA ItsOwn ==
  ASSUME TypeInv, NEW p \in Procs, NEW l \in Logins, l = Named(cred[p].of)
  PROVE  l \in Figures(p)
<1>1. CASE cred[p].of \in Logins
  BY <1>1 DEF Figures
<1>2. CASE cred[p].of = NoOne
  <2>1. vendor.own = "reads twice" /\ IsVendor(vendor)
    BY <1>2, VendorsAre, TypeParts DEF TypeInv, Known
  <2>2. Named(cred[p].of) = NoOne
    BY <1>2, <2>1, NobodyIsNamed
  <2> QED BY <1>2, <2>2, Strangers
<1> QED BY <1>1, <1>2, CredIs

LEMMA EndGoes ==
  ASSUME TypeInv, Owners, NEW p \in Procs, NEW o, Finish(p, o)
  PROVE  Goes(p) /\ pc'[p] = "idle" /\ out' = o
<1>1. cred'[p] = NoCred /\ pc'[p] = "idle" /\ out' = o
  BY FinishDoes DEF TypeInv
<1> QED BY <1>1, NoCredIs DEF Goes, Owners

LEMMA EndMoves ==
  ASSUME TypeInv, Owners, NEW p \in Procs, NEW o, Finish(p, o),
         o.shows \in Logins => o.shows = Named(cred[p].of)
  PROVE  Goes(p) /\ Shows(p)
<1>1. Goes(p) /\ pc'[p] = "idle" /\ out' = o
  BY EndGoes
<1> QED BY <1>1, ItsOwn DEF Shows

LEMMA FailMoves ==
  ASSUME TypeInv, Owners, NEW p \in Procs, NEW code \in Answered, Fail(p, code)
  PROVE  Goes(p) /\ Shows(p) /\ Puts(p)
<1>1. Finish(p, out') /\ (out'.shows \in Logins => out'.shows = Named(cred[p].of))
  BY FailDoes DEF TypeInv
<1> DEFINE o == out'
<1> HIDE DEF o
<1>2. Finish(p, o) /\ (o.shows \in Logins => o.shows = Named(cred[p].of))
  BY <1>1 DEF o
<1>3. Puts(p)
  BY FailDoes DEF TypeInv, Puts
<1> QED BY <1>2, <1>3, EndMoves

LEMMA FailedShowsNothing ==
  Failed.shows \notin Logins /\ NoOutcome.shows \notin Logins
BY OutcomesAre, Strangers

LEMMA ProcessMoves ==
  ASSUME TypeInv, Places, Owners, NEW p \in Procs, Start(p) \/ Step(p) \/ Die(p)
  PROVE  Goes(p) /\ Puts(p) /\ (pc[p] # "idle" => Shows(p))
<1>0. /\ vendor' = vendor /\ IsVendor(vendor) /\ pc[p] \in Pcs /\ CacheType
      /\ pc'[p] \in Pcs /\ cred \in [Procs -> Creds] /\ dir.payload \in Payloads
  BY ProcessKeeps, TypeParts, VendorsAre DEF Keeps, TypeInv, FetchType, CacheType, Dirs
<1>a. ASSUME UNCHANGED cache PROVE Puts(p)
  BY <1>a DEF cache, Puts
<1>b. ASSUME cred'[p] = Held, pc'[p] \notin {"idle", "reply"} PROVE Goes(p) /\ Shows(p)
  BY <1>b, HeldIs DEF Goes, Shows, Owners
<1>c. ASSUME cred'[p] = cred[p], pc'[p] \notin {"idle", "reply"} PROVE Goes(p) /\ Shows(p)
  BY <1>c DEF Goes, Shows, Owners
<1>1. CASE Start(p)
  <2>1. cred'[p] \in {Held, NoCred} /\ pc'[p] \in {"renew", "lock"} /\ pc[p] = "idle"
    BY <1>0, <1>1, GotoIs DEF Start
  <2> QED BY <1>1, <1>a, <2>1, HeldIs, NoCredIs DEF Start, Goes, Owners
<1>2. CASE Renew(p)
  <2>1. cred'[p] \in {Held, cred[p]} /\ pc'[p] \in {"cli", "lock"}
    BY <1>0, <1>2, GotoIs DEF Renew
  <2> QED BY <1>2, <1>a, <1>b, <1>c, <2>1 DEF Renew
<1>3. CASE RenewTimesOut(p) \/ HoldBack(p) \/ Die(p)
  <2>1. Finish(p, Failed) \/ Finish(p, NoOutcome)
    BY <1>3 DEF RenewTimesOut, HoldBack, Die
  <2>2. UNCHANGED cache
    BY <1>3 DEF RenewTimesOut, HoldBack, Die
  <2> QED BY <1>a, <2>1, <2>2, EndMoves, FailedShowsNothing
<1>4. CASE BindFails(p)
  <2>1. Puts(p)
    BY <1>4, BindFailsDoes DEF Puts, BindFails
  <2> QED BY <1>4, <2>1, EndMoves, FailedShowsNothing DEF BindFails
<1>5. CASE Serve(p)
  <2>1. Finish(p, CachedOutcome(dir, Offered, dir.age, FALSE)) /\ Offered = Named(cred[p].of)
    BY <1>5 DEF Serve, Answers, Accepts
  <2>2. CachedOutcome(dir, Offered, dir.age, FALSE).shows = Offered
    BY DEF CachedOutcome
  <2> QED BY <1>5, <1>a, <2>1, <2>2, EndMoves DEF Serve
<1>6. CASE CliRan(p)
  <2>1. cred'[p] = [Held EXCEPT !.due = login'.due] /\ pc'[p] = "lock"
    BY <1>0, <1>6, GotoIs DEF CliRan
  <2>2. vendor.own = "runs the CLI"
    BY <1>6 DEF CliRan, Places
  <2>3. cred'[p].of = login.of /\ cred'[p].asks = login.of
    BY <2>1, HeldIs DEF Creds
  <2> QED BY <1>6, <1>a, <2>1, <2>2, <2>3 DEF Goes, Shows, CliRan
<1>7. CASE TakeLock(p)
  <2>1. pc'[p] = "look"
    BY <1>7, GotoIs DEF TakeLock
  <2>2. Goes(p)
    <3>1. CASE UNCHANGED cred
      BY <2>1, <3>1 DEF Goes, Owners
    <3>2. CASE \E of \in {login.of} \cup (IF vendor.own = "reads twice" THEN {NoOne} ELSE {}) :
                 cred' = [cred EXCEPT ![p] = [Held EXCEPT !.of = of]]
      <4>1. PICK l \in {login.of} \cup (IF vendor.own = "reads twice" THEN {NoOne} ELSE {}) :
                 cred' = [cred EXCEPT ![p] = [Held EXCEPT !.of = l]]
        BY <3>2
      <4>2. cred'[p].of = l /\ cred'[p].asks = login.of
        BY <1>0, <4>1, HeldIs DEF Creds
      <4>3. vendor.own # "reads twice" => l = login.of
        BY <4>1
      <4>4. l \in {login.of, NoOne}
        BY <4>1
      <4> QED BY <2>1, <4>2, <4>3, <4>4 DEF Goes, Owners
    <3> QED BY <1>7, <3>1, <3>2 DEF TakeLock
  <2>3. Puts(p)
    <3>1. CASE UNCHANGED cache
      BY <1>a, <3>1
    <3>2. CASE Bind(cred[p].of)
      <4>1. ToSet(Sweep(cred[p].of)) \subseteq Removals
        BY SweepIs
      <4>2. dir'.payload \in {dir.payload, NoPayload} /\ whose' = whose
        BY <1>0, <3>2, <4>1, RemovedLeaves DEF Bind, CacheType, Removals
      <4> QED BY <4>2 DEF Puts
    <3> QED BY <1>7, <3>1, <3>2 DEF TakeLock
  <2> QED BY <2>1, <2>2, <2>3 DEF Shows
<1>8. CASE NotSent(p) \/ ReplyFails(p)
  <2>1. \E code \in Answered : Fail(p, code)
    BY <1>8 DEF NotSent, ReplyFails, Answered
  <2> QED BY <2>1, FailMoves
<1>9. CASE GoOn(p)
  <2>1. PICK c \in Chosen(p) : cred'[p] = c /\ pc'[p] \in {"who", "refresh", "ask"}
    BY <1>9, GoOnDoes
  <2>2. c = cred[p] \/ (c = PairOf(p) /\ pair.there)
    BY ChosenAre
  <2>3. vendor.own # "reads twice" => c.of = c.asks
    BY <2>2, PairIs DEF Owners
  <2>4. vendor.own = "reads twice" => c.of \in used \cup {NoOne}
    <3>1. SUFFICES ASSUME vendor.own = "reads twice", c = PairOf(p), KeepsFor(p),
                          pair.of # cred[p].of \/ pair.token > cred[p].token
                   PROVE  c.of \in used \cup {NoOne}
      BY <2>2 DEF Owners, Chosen
    <3>2. pair.of = cred[p].of
      <4>1. Named(pair.of) = Named(cred[p].of)
        BY <3>1 DEF KeepsFor
      <4>2. Named(pair.of) = pair.of /\ Named(cred[p].of) = cred[p].of
        BY <1>0, <3>1 DEF Named, IsVendor
      <4> QED BY <4>1, <4>2
    <3> QED BY <3>1, <3>2, PairIs DEF Owners
  <2> QED BY <1>9, <1>a, <2>1, <2>3, <2>4 DEF GoOn, Goes, Shows
<1>10. CASE LookInLedger(p)
  <2>1. CASE Goto(p, "ask") /\ UNCHANGED cred
    BY <1>10, <1>a, <1>c, <2>1, GotoIs DEF LookInLedger
  <2>2. CASE \E o \in Outcomes : Finish(p, o) /\ (o.shows \in Logins => o.shows = Named(cred[p].of))
    BY <1>10, <1>a, <2>2, EndMoves DEF LookInLedger
  <2> QED BY <1>10, <2>1, <2>2, LookInLedgerDoes
<1>11. CASE AskWho(p)
  <2>1. Puts(p)
    <3>1. CASE UNCHANGED dir
      BY <1>11, <3>1, AskWhoDoes DEF Puts
    <3>2. CASE \E code \in {"limited", "status"} : dir' = Recorded(dir, code)
      <4>1. dir'.payload = dir.payload
        BY <1>0, <3>2, RecordedDoes DEF CacheType, Codes
      <4> QED BY <1>11, <4>1, AskWhoDoes DEF Puts
    <3> QED BY <1>11, <3>1, <3>2, AskWhoDoes DEF cache
  <2>2. CASE Goto(p, "ask") /\ UNCHANGED cred
    BY <1>c, <2>1, <2>2, GotoIs
  <2>3. CASE \E o \in Outcomes : Finish(p, o) /\ (o.shows \in Logins => o.shows = Named(cred[p].of))
    BY <2>1, <2>3, EndMoves
  <2> QED BY <1>11, <2>2, <2>3, AskWhoDoes
<1>12. CASE Ask(p)
  <2>1. /\ pc'[p] = "reply" /\ cred'[p].of = cred[p].of
        /\ cred'[p].asks = IF vendor.own = "reads twice" THEN login.of ELSE cred[p].asks
    BY <1>12, AskDoes
  <2> QED BY <1>12, <1>a, <2>1 DEF Ask, Goes, Shows, Owners
<1>13. CASE ReplyOk(p)
  <2>1. Finish(p, Fresh(Named(cred[p].of))) /\ cred[p].of \in Logins
    BY <1>13, CredIs DEF ReplyOk
  <2>2. Fresh(Named(cred[p].of)).shows = Named(cred[p].of)
    BY DEF Fresh
  <2>3. Puts(p)
    BY <1>13, <1>a, <2>1 DEF ReplyOk, NotWritten, Puts
  <2> QED BY <2>1, <2>2, <2>3, EndMoves
<1>14. CASE ReplyChecked(p)
  <2>1. Finish(p, Fresh(cred[p].asks)) /\ vendor.own = "reads twice" /\ pc[p] = "reply"
    BY <1>14 DEF ReplyChecked
  <2>2. Goes(p) /\ out' = Fresh(cred[p].asks) /\ Fresh(cred[p].asks).shows = cred[p].asks
    <3>1. \A l : Fresh(l).shows = l
      BY DEF Fresh
    <3> QED BY <2>1, <3>1, EndGoes
  <2>3. cred[p].asks \in Figures(p)
    BY <1>0, <2>1, CredIs, NobodyIsNamed DEF Figures
  <2>4. Puts(p)
    <3>1. CASE UNCHANGED cache
      BY <1>a, <3>1
    <3>2. CASE cred[p].of = login.of /\ Write(p, cred[p].of)
      BY <2>1, <3>2, HeldIs DEF Puts
    <3> QED BY <1>14, <3>1, <3>2 DEF ReplyChecked
  <2> QED BY <2>2, <2>3, <2>4 DEF Shows
<1>15. CASE AsAgent(p)
  <2>1. pc'[p] = "ask" /\ cred'[p].of = cred'[p].asks /\ vendor.own # "reads twice"
    BY <1>15, AsAgentDoes DEF AsAgent
  <2> QED BY <1>15, <1>a, <2>1 DEF AsAgent, Goes, Shows
<1>16. CASE RenewRefused(p)
  <2>1. pc'[p] = "refresh" /\ cred' = cred
    BY <1>16, GotoIs DEF RenewRefused
  <2> QED BY <1>16, <1>a, <1>c, <2>1 DEF RenewRefused
<1>17. CASE Refresh(p)
  <2>1. CASE pc'[p] = "save" /\ UNCHANGED cache
             /\ cred'[p].of = cred[p].of /\ cred'[p].asks = cred[p].asks
    BY <1>a, <2>1 DEF Goes, Shows, Owners
  <2>2. CASE \E code \in Answered : Fail(p, code)
    BY <2>2, FailMoves
  <2> QED BY <1>17, <2>1, <2>2, RefreshDoes DEF Answered
<1>18. CASE Save(p)
  <2>1. CASE pc'[p] = "ask" /\ cred'[p] = cred[p] /\ UNCHANGED cache
    BY <1>a, <1>c, <2>1
  <2>2. CASE Fail(p, "local")
    BY <2>2, FailMoves DEF Answered
  <2> QED BY <1>18, <2>1, <2>2, SaveDoes
<1> QED BY <1>1, <1>2, <1>3, <1>4, <1>5, <1>6, <1>7, <1>8, <1>9, <1>10, <1>11, <1>12, <1>13,
           <1>14, <1>15, <1>16, <1>17, <1>18 DEF Step

(***************************************************************************)
(* A fetch signs nobody in; only Nous Research writes the login's file,    *)
(* and it writes the login it has renewed.                                 *)
(***************************************************************************)
LEMMA ProcessLogin ==
  ASSUME TypeInv, NEW p \in Procs, Start(p) \/ Step(p) \/ Die(p)
  PROVE  /\ used' = used
         /\ \/ login'.of = login.of /\ login'.token = login.token
            \/ /\ pc[p] = "save" /\ vendor.own = "has no cache"
               /\ login' = [of |-> cred[p].of, token |-> cred[p].token, due |-> FALSE]
<1>1. CASE CliRan(p)
  BY <1>1, TypeParts DEF CliRan, TypeInv, LoginType
<1>2. CASE Save(p)
  BY <1>2, SaveDoes DEF Save
<1>3. CASE ~CliRan(p) /\ ~Save(p)
  <2>1. login' = login /\ used' = used
    BY <1>3 DEF Step, Start, Die, Renew, RenewTimesOut, TakeLock, BindFails, Serve, NotSent,
       HoldBack, GoOn, LookInLedger, AskWho, Ask, ReplyOk, ReplyChecked, ReplyFails, AsAgent,
       RenewRefused, Refresh, logins
  <2> QED BY <2>1
<1> QED BY <1>1, <1>2, <1>3

LEMMA OwnersStep ==
  ASSUME TypeInv, Places, Owners, [Next]_vars
  PROVE  Owners'
<1>0. IsVendor(vendor)
  BY VendorsAre, TypeParts DEF TypeInv
<1>1. CASE \E p \in Procs : Start(p) \/ Step(p) \/ Die(p)
  <2>1. PICK p \in Procs : Start(p) \/ Step(p) \/ Die(p)
    BY <1>1
  <2>2. Keeps(p) /\ Goes(p) /\ Puts(p) /\ vendor' = vendor
    BY <2>1, ProcessKeeps, ProcessMoves DEF Keeps
  <2>3. \A q \in Procs \ {p} : pc'[q] = pc[q] /\ cred'[q] = cred[q]
    BY <2>2 DEF Keeps, Frame
  <2>4. used' = used /\ (vendor.own = "reads twice" => login'.of = login.of)
    BY <2>1, ProcessLogin
  <2>5. dir'.payload \in Logins => dir'.payload = Named(whose)'
    <3>1. CASE dir'.payload \in {dir.payload, NoPayload} /\ whose' = whose
      BY <2>2, <3>1, Strangers DEF Owners, Named
    <3>2. CASE /\ Write(p, cred[p].of) /\ cred[p].of \in Logins
               /\ vendor.own = "reads twice" => pc[p] = "reply" /\ cred[p].of = login.of
      <4>1. /\ dir'.payload = Named(cred[p].of)
            /\ whose' = (IF vendor.binds = "nothing" THEN First ELSE cred[p].asks)
        BY <3>2, WriteDoes
      <4>2. cred[p].of = cred[p].asks
        BY <3>2 DEF Owners
      <4> QED BY <2>2, <4>1, <4>2 DEF Named
    <3> QED BY <2>2, <3>1, <3>2 DEF Puts
  <2> QED BY <2>2, <2>3, <2>4, <2>5 DEF Owners, Goes
<1>2. CASE World
  <2>1. UNCHANGED <<vendor, pc, cred, whose>>
    BY <1>2, WorldLeaves
  <2>2. dir'.payload = dir.payload
    BY <1>2, AgedIs, TypeParts
    DEF TypeInv, CacheType, World, SignIn, AppRenews, Lapse, PeriodEnds, Tick, cache
  <2>3. Named(whose)' = Named(whose)
    BY <2>1 DEF Named
  <2>4. CASE \E l \in Logins : SignIn(l)
    <3>1. PICK l \in Logins : SignIn(l)
      BY <2>4
    <3>2. login'.of = l /\ used' = used \cup {l}
      BY <3>1 DEF SignIn
    <3>3. vendor.own = "reads twice" => l \notin used
      BY <1>0, <3>1 DEF SignIn, IsVendor
    <3>4. vendor.own = "reads twice" => \A p \in Procs : cred[p].of # l
      BY <3>3, Strangers DEF Owners
    <3> QED BY <2>1, <2>2, <2>3, <3>2, <3>4 DEF Owners
  <2>5. CASE ~\E l \in Logins : SignIn(l)
    <3>1. used' = used
      BY <1>2, <2>5 DEF World, AppRenews, Lapse, PeriodEnds, Tick, logins
    <3>2. login'.of = login.of
      BY <1>2, <2>5, TypeParts
      DEF TypeInv, LoginType, World, AppRenews, Lapse, PeriodEnds, Tick, logins
    <3> QED BY <2>1, <2>2, <2>3, <3>1, <3>2 DEF Owners
  <2> QED BY <2>4, <2>5
<1>3. CASE UNCHANGED vars
  BY <1>3 DEF vars, Owners, Named
<1> QED BY <1>1, <1>2, <1>3, NextIs

LEMMA OwnersInit == Init => Owners
<1> SUFFICES ASSUME Init PROVE Owners
  OBVIOUS
<1>1. dir.payload \notin Logins
  BY Strangers DEF Init, EmptyDir, PlainDir
<1> QED BY <1>1, NoCredIs DEF Init, Owners

(***************************************************************************)
(* A payload that names a login or an account holds its figures, and a     *)
(* fetch shows the figures of the login it went by, after a failure too.   *)
(***************************************************************************)
THEOREM FiguresStayTheirOwn == Spec => FiguresAreItsOwn
<1>1. Init => TypeInv /\ Places /\ Owners
  BY TypeInit, PlacesInit, OwnersInit
<1>2. TypeInv /\ Places /\ Owners /\ [Next]_vars => (TypeInv /\ Places /\ Owners)'
  BY TypeStep, PlacesStep, OwnersStep
<1>3. ASSUME TypeInv, Places, Owners, [Next]_vars
      PROVE  [/\ dir'.payload \in Logins => dir'.payload = Named(whose')
              /\ \A p \in Procs : Ends(p) /\ out'.shows \in Logins =>
                   out'.shows \in {Named(l) : l \in {cred[p].of, cred[p].asks} \cap Logins}]_vars
  <2>1. SUFFICES ASSUME Next
                 PROVE  /\ dir'.payload \in Logins => dir'.payload = Named(whose')
                        /\ \A p \in Procs : Ends(p) /\ out'.shows \in Logins =>
                             out'.shows \in Figures(p)
    BY <1>3 DEF Figures
  <2>2. vendor' = vendor
    BY <1>3, <2>1, NextIs, WorldLeaves, ProcessKeeps DEF Keeps
  <2>3. dir'.payload \in Logins => dir'.payload = Named(whose')
    <3>1. Owners'
      BY <1>3, <2>1, OwnersStep
    <3> QED BY <2>2, <3>1 DEF Owners, Named
  <2>4. ASSUME NEW p \in Procs, Ends(p), out'.shows \in Logins
        PROVE  out'.shows \in Figures(p)
    <3>1. CASE World
      BY <2>4, <3>1, WorldLeaves DEF Ends
    <3>2. CASE \E q \in Procs : Start(q) \/ Step(q) \/ Die(q)
      <4>1. PICK q \in Procs : Start(q) \/ Step(q) \/ Die(q)
        BY <3>2
      <4>2. Keeps(q) /\ (pc[q] # "idle" => Shows(q))
        BY <1>3, <4>1, ProcessKeeps, ProcessMoves
      <4>3. q = p
        BY <2>4, <4>2 DEF Keeps, Frame, Ends
      <4> QED BY <2>4, <4>2, <4>3 DEF Ends, Shows
    <3> QED BY <2>1, <3>1, <3>2, NextIs
  <2> QED BY <2>3, <2>4
<1> QED BY <1>1, <1>2, <1>3, PTL DEF Spec, FiguresAreItsOwn

-----------------------------------------------------------------------------
(* Devin's sidecars. *)

Marked == dir.stale \/ dir.err # NoError \/ BackedOff(dir)

(***************************************************************************)
(* From the lock on, Devin's directory is bound to the fetch's login; what *)
(* the sidecars tell is the bound login's failure; and before the first    *)
(* binding no payload names a login.                                       *)
(***************************************************************************)
Bindings ==
  vendor.own = "binds the sidecars" =>
    /\ \A p \in Procs : pc[p] \in {"look", "ask", "reply"} => bound = cred[p].of
    /\ bound # NoOne /\ Marked => markOf = bound
    /\ bound = NoOne => dir.payload \notin Logins

Binds(p) == /\ pc'[p] \in {"look", "ask", "reply"} => bound' = cred'[p].of
            /\ bound' = bound \/ lock = NoOne
            /\ (bound # NoOne)' /\ Marked' => markOf' = bound'
            /\ (bound = NoOne)' => dir'.payload \notin Logins

LEMMA Unmarked ==
  ASSUME ~dir'.stale, dir'.err = NoError, dir'.retry = 0
  PROVE  ~Marked'
<1>1. Marked' <=> (dir'.stale \/ dir'.err # NoError \/ dir'.retry > 0)
  BY DEF Marked, BackedOff
<1> QED BY <1>1

LEMMA NotMarkedAnew ==
  ASSUME dir'.stale => dir.stale, dir'.err \in {dir.err, NoError}, dir'.retry \in {dir.retry, 0},
         Marked'
  PROVE  Marked
<1>1. Marked' <=> (dir'.stale \/ dir'.err # NoError \/ dir'.retry > 0)
  BY DEF Marked, BackedOff
<1>2. Marked <=> (dir.stale \/ dir.err # NoError \/ dir.retry > 0)
  BY DEF Marked, BackedOff
<1> QED BY <1>1, <1>2

LEMMA CacheBinds ==
  ASSUME Bindings, vendor.own = "binds the sidecars", NEW p \in Procs, UNCHANGED cache,
         pc'[p] \in {"look", "ask", "reply"} => bound = cred'[p].of
  PROVE  Binds(p)
BY DEF Bindings, Binds, cache, Marked, BackedOff

LEMMA EndBinds ==
  ASSUME TypeInv, Bindings, vendor.own = "binds the sidecars", NEW p \in Procs,
         UNCHANGED cache, NEW o, Finish(p, o)
  PROVE  Binds(p)
BY CacheBinds, FinishDoes DEF TypeInv

LEMMA FailBinds ==
  ASSUME TypeInv, Owners, Bindings, vendor.own = "binds the sidecars", NEW p \in Procs,
         pc[p] \in {"look", "ask", "reply"}, NEW code \in Answered, Fail(p, code)
  PROVE  Binds(p)
<1>1. bound = cred[p].of /\ cred[p].of = cred[p].asks /\ bound # NoOne
  BY CredIs, Strangers DEF Bindings, Owners
<1>2. bound' = bound /\ dir'.payload = dir.payload /\ Finish(p, out')
  BY FailDoes DEF TypeInv
<1>3. pc'[p] = "idle"
  <2> DEFINE o == out'
  <2> HIDE DEF o
  <2>1. Finish(p, o)
    BY <1>2 DEF o
  <2> QED BY <2>1, FinishDoes DEF TypeInv
<1>4. CASE markOf' = cred[p].asks
  BY <1>1, <1>2, <1>3, <1>4 DEF Binds
<1>5. CASE markOf' = markOf /\ Marked' = Marked
  BY <1>1, <1>2, <1>3, <1>5 DEF Binds, Bindings
<1>6. \/ markOf' = cred[p].asks
      \/ /\ markOf' = markOf
         /\ dir'.err = dir.err /\ dir'.stale = dir.stale /\ dir'.retry = dir.retry
  BY FailMarks DEF TypeInv
<1> QED BY <1>4, <1>5, <1>6 DEF Marked, BackedOff

(***************************************************************************)
(* The sidecars that are there when the directory is bound to a login stay *)
(* only if it was bound to that login before.                              *)
(***************************************************************************)
LEMMA BindBinds ==
  ASSUME TypeInv, Bindings, vendor.own = "binds the sidecars", NEW l \in Logins, Bind(l)
  PROVE  /\ bound' = l /\ bound' # NoOne
         /\ Marked' => markOf' = bound'
<1>1. dir \in Dirs /\ bound' = l /\ markOf' = markOf /\ l # NoOne
  BY TypeParts, Strangers DEF TypeInv, CacheType, Bind
<1>2. CASE Sweep(l) = <<>> /\ Stays(l)
  <2>1. bound = l
    BY <1>1, <1>2 DEF Stays, Bindings
  <2>2. dir'.stale = dir.stale /\ dir'.err = dir.err /\ dir'.retry = dir.retry
    <3>1. dir' = Apply(dir, <<>>, NoError)
      BY <1>2 DEF Bind
    <3>2. dir.stale \in BOOLEAN
      BY <1>1 DEF Dirs
    <3> QED BY <3>1, <3>2, SequencesSay DEF Apply
  <2> QED BY <1>1, <2>1, <2>2 DEF Bindings, Marked, BackedOff
<1>3. CASE Sweep(l) \in {ClearMarkers, Forget}
  <2>1. /\ ~dir'.stale /\ dir'.err = NoError /\ dir'.retry = 0
    BY <1>3, SequencesSay DEF Bind, Apply
  <2> QED BY <1>1, <2>1, Unmarked
<1> QED BY <1>2, <1>3 DEF Sweep

LEMMA ProcessBinds ==
  ASSUME TypeInv, Places, Owners, Bindings, vendor.own = "binds the sidecars",
         NEW p \in Procs, Start(p) \/ Step(p) \/ Die(p)
  PROVE  Binds(p)
<1>0. /\ vendor.binds = "key" /\ vendor.reads = "before" /\ vendor.spends = "never"
      /\ cred[p].of \in Logins /\ pc[p] \in Pcs
      /\ pc[p] \notin {"renew", "cli", "who", "refresh", "save"}
  BY VendorsAre, TypeParts, CredIs DEF TypeInv, IsVendor, Known, Places, FetchType
<1>1. CASE Start(p)
  <2>1. pc'[p] \in {"renew", "lock"} /\ UNCHANGED cache
    BY <1>1, GotoIs DEF Start
  <2> QED BY <2>1, CacheBinds
<1>2. CASE RenewTimesOut(p) \/ Serve(p) \/ HoldBack(p) \/ Die(p)
  <2>1. (\E o : Finish(p, o)) /\ UNCHANGED cache
    BY <1>2 DEF RenewTimesOut, Serve, HoldBack, Die
  <2> QED BY <2>1, EndBinds
<1>3. CASE TakeLock(p)
  <2>1. pc'[p] = "look" /\ cred' = cred /\ lock = NoOne /\ Bind(cred[p].of)
    BY <1>0, <1>3, GotoIs DEF TakeLock
  <2> QED BY <1>0, <2>1, BindBinds DEF Binds
<1>4. CASE BindFails(p)
  <2>1. pc'[p] = "idle" /\ bound' = bound /\ markOf' = markOf
    BY <1>4, FinishDoes DEF BindFails, TypeInv
  <2>2. /\ dir'.payload \in {dir.payload, NoPayload}
        /\ dir'.retry \in {dir.retry, 0} /\ (dir'.stale => dir.stale)
        /\ dir'.err \in {dir.err, NoError}
    BY <1>4, BindFailsDoes
  <2>3. Marked' => Marked
    BY <2>2, NotMarkedAnew
  <2> QED BY <2>1, <2>2, <2>3, Strangers DEF Bindings, Binds
<1>5. CASE NotSent(p) \/ ReplyFails(p)
  <2>1. (\E code \in Answered : Fail(p, code)) /\ pc[p] \in {"look", "reply"}
    BY <1>5 DEF NotSent, ReplyFails, Answered, Looks
  <2> QED BY <2>1, FailBinds
<1>6. CASE GoOn(p)
  <2>1. PICK c \in Chosen(p) : cred'[p] = c
    BY <1>6, GoOnDoes
  <2>2. c.of = cred[p].of
    <3>1. CASE c = cred[p]
      BY <3>1
    <3>2. CASE c = PairOf(p) /\ KeepsFor(p)
      BY <1>0, <3>2, PairIs DEF KeepsFor, Named
    <3> QED BY <3>1, <3>2 DEF Chosen
  <2>3. bound = cred[p].of /\ UNCHANGED cache
    BY <1>6 DEF GoOn, Looks, Bindings
  <2> QED BY <2>1, <2>2, <2>3, CacheBinds
<1>7. CASE Ask(p)
  <2>1. cred'[p].of = cred[p].of /\ UNCHANGED cache /\ bound = cred[p].of
    BY <1>7, AskDoes DEF Ask, Bindings
  <2> QED BY <2>1, CacheBinds
<1>8. CASE ReplyOk(p)
  <2>1. Finish(p, Fresh(Named(cred[p].of))) /\ pc[p] = "reply"
    BY <1>8 DEF ReplyOk
  <2>2. CASE UNCHANGED cache
    BY <2>1, <2>2, EndBinds
  <2>3. CASE Write(p, cred[p].of)
    <3>1. /\ ~dir'.stale /\ dir'.err = NoError /\ dir'.retry = 0 /\ bound' = bound
      BY <1>0, <2>3, WriteDoes
    <3>2. bound # NoOne /\ pc'[p] = "idle"
      BY <1>0, <2>1, Strangers, FinishDoes DEF Bindings, TypeInv
    <3> QED BY <1>0, <3>1, <3>2, Unmarked DEF Binds
  <2> QED BY <1>8, <2>2, <2>3 DEF ReplyOk, NotWritten
<1>9. ~Renew(p) /\ ~CliRan(p) /\ ~LookInLedger(p) /\ ~AskWho(p) /\ ~ReplyChecked(p)
      /\ ~AsAgent(p) /\ ~RenewRefused(p) /\ ~Refresh(p) /\ ~Save(p)
  BY <1>0 DEF Renew, CliRan, LookInLedger, AskWho, ReplyChecked, AsAgent, RenewRefused,
     Refresh, Save
<1> QED BY <1>1, <1>2, <1>3, <1>4, <1>5, <1>6, <1>7, <1>8, <1>9 DEF Step

LEMMA BindingsStep ==
  ASSUME TypeInv, Places, Owners, Bindings, [Next]_vars
  PROVE  Bindings'
<1>1. CASE \E p \in Procs : Start(p) \/ Step(p) \/ Die(p)
  <2>1. PICK p \in Procs : Start(p) \/ Step(p) \/ Die(p)
    BY <1>1
  <2>2. vendor' = vendor /\ \A q \in Procs \ {p} : pc'[q] = pc[q] /\ cred'[q] = cred[q]
    BY <2>1, ProcessKeeps DEF Keeps, Frame
  <2>3. SUFFICES ASSUME vendor.own = "binds the sidecars"
                 PROVE  Bindings'
    BY <2>2 DEF Bindings
  <2>4. Binds(p)
    BY <2>1, <2>3, ProcessBinds
  <2>5. ASSUME NEW q \in Procs \ {p}, pc'[q] \in {"look", "ask", "reply"}
        PROVE  bound' = cred'[q].of
    <3>1. Inside(q) /\ pc[q] \in {"look", "ask", "reply"}
      BY <2>2, <2>3, <2>5 DEF Inside
    <3>2. lock # NoOne
      BY <3>1, Strangers DEF Places
    <3> QED BY <2>2, <2>3, <2>4, <3>1, <3>2 DEF Binds, Bindings
  <2> QED BY <2>4, <2>5 DEF Binds, Bindings
<1>2. CASE World
  <2>1. UNCHANGED <<vendor, pc, cred, bound, markOf>>
    BY <1>2, WorldLeaves
  <2>2. dir' = dir \/ dir' = Aged(dir)
    BY <1>2 DEF World, SignIn, AppRenews, Lapse, PeriodEnds, Tick, cache
  <2>3. dir \in Dirs /\ dir.retry \in 0 .. Backoff
    BY TypeParts DEF TypeInv, CacheType, Dirs
  <2>4. dir'.payload = dir.payload /\ (Marked' => Marked)
    BY <2>2, <2>3, AgedIs, Times DEF Marked, BackedOff, Less
  <2> QED BY <2>1, <2>4 DEF Bindings
<1>3. CASE UNCHANGED vars
  BY <1>3 DEF vars, Bindings, Marked, BackedOff
<1> QED BY <1>1, <1>2, <1>3, NextIs

LEMMA BindingsInit == Init => Bindings
<1> SUFFICES ASSUME Init PROVE Bindings
  OBVIOUS
<1>1. dir.payload \notin Logins
  BY Strangers DEF Init, EmptyDir, PlainDir
<1> QED BY <1>1 DEF Init, Bindings

(***************************************************************************)
(* Devin: from the binding of the directory on, no marker, error or        *)
(* backoff there tells of another login's failure.                         *)
(***************************************************************************)
THEOREM MarkersTellOfTheLogin == Spec => []MarkersAreOfTheLogin
<1>1. Init => TypeInv /\ Places /\ Owners /\ Bindings
  BY TypeInit, PlacesInit, OwnersInit, BindingsInit
<1>2. TypeInv /\ Places /\ Owners /\ Bindings /\ [Next]_vars
        => (TypeInv /\ Places /\ Owners /\ Bindings)'
  BY TypeStep, PlacesStep, OwnersStep, BindingsStep
<1>3. TypeInv /\ Bindings => MarkersAreOfTheLogin
  <2> SUFFICES ASSUME TypeInv, Bindings, vendor.own = "binds the sidecars", NEW p \in Procs,
                      pc[p] \in {"look", "ask", "reply"}, Marked
               PROVE  markOf = cred[p].of
    BY DEF MarkersAreOfTheLogin, Marked
  <2> QED BY CredIs, Strangers DEF Bindings
<1> QED BY <1>1, <1>2, <1>3, PTL DEF Spec

-----------------------------------------------------------------------------
(* When nobody should ask. *)

Gated == vendor.gate \/ vendor.own = "asks who"
Out == {"who", "refresh", "save", "ask", "reply"}

(***************************************************************************)
(* Who looks at the backoff last of all before it asks finds it disarmed;  *)
(* the time noted for an attempt covers the time to stay silent after it,  *)
(* and Muse notes it before the attempt is made.                           *)
(***************************************************************************)
GateQuiet ==
  Gated =>
    /\ \A l \in Logins : quiet[l] <= dir.retry
    /\ \A p \in Procs : pc[p] \in Out => \A l \in Logins : quiet[l] = 0

LedgerQuiet ==
  vendor.own = "keeps a ledger" =>
    /\ \A l \in Logins : quiet[l] <= ledger[l].left
    /\ \A p \in Procs : pc[p] = "ask" =>
         quiet[cred[p].of] = 0 /\ ledger[cred[p].of].left = Backoff

CliQuiet ==
  vendor.own = "runs the CLI" => \A l \in Logins : quiet[l] <= ledger[First].left

Quiets == GateQuiet /\ LedgerQuiet /\ CliQuiet

LEMMA HushedIs ==
  ASSUME NEW l \in Logins
  PROVE  Hushed[l] = Backoff /\ Unhushed[l] = 0
BY DEF Hushed, Unhushed

LEMMA QuietIs ==
  ASSUME TypeInv, NEW l \in Logins
  PROVE  /\ quiet[l] \in 0 .. Backoff /\ dir.retry \in 0 .. Backoff
         /\ ledger[l].left \in 0 .. Backoff /\ ledger[First].left \in 0 .. Backoff
BY TypeParts, Strangers DEF TypeInv, TimeType, CacheType, Dirs

LEMMA Longest == Backoff <= Backoff
BY ClockAssumption

LEMMA Waits ==
  ASSUME NEW m \in 0 .. Backoff
  PROVE  /\ m <= 0 => m = 0
         /\ m <= Backoff /\ m <= m
         /\ \A n \in 0 .. Backoff : m <= n => Less(m) <= Less(n)
<1>1. Backoff \in Nat
  BY Times
<1> QED BY <1>1 DEF Less

(***************************************************************************)
(* A backoff is armed no shorter than the silence it stands for.           *)
(***************************************************************************)
LEMMA FailQuiet ==
  ASSUME TypeInv, GateQuiet, Gated, NEW p \in Procs, NEW code \in Answered, Fail(p, code),
         quiet' = IF code = "limited" THEN Hushed ELSE quiet
  PROVE  \A l \in Logins : quiet'[l] <= dir'.retry
<1>1. vendor.own # "has no cache"
  BY VendorsAre, TypeParts DEF TypeInv, IsVendor, Gated
<1>2. dir'.retry = IF code = "limited" THEN Backoff ELSE dir.retry
  BY <1>1, FailDoes DEF TypeInv
<1> QED BY <1>2, HushedIs, Times DEF GateQuiet

Rests(p) == /\ \A l \in Logins : quiet'[l] <= dir'.retry
            /\ pc'[p] \in Out => \A l \in Logins : quiet'[l] = 0
            /\ quiet' \in {quiet, Unhushed} \/ Inside(p)

LEMMA GoOnRests ==
  ASSUME TypeInv, Owners, GateQuiet, Gated, NEW p \in Procs, GoOn(p)
  PROVE  \A l \in Logins : quiet[l] = 0
<1>0. IsVendor(vendor)
  BY VendorsAre, TypeParts DEF TypeInv
<1>1. ~Answers(p) /\ ~Barred(p)
  BY DEF GoOn
<1>2. ~BackedOff(dir)
  <2>1. SUFFICES ASSUME BackedOff(dir), KnowsWho(p), ~vendor.gate PROVE FALSE
    BY <1>1 DEF Barred
  <2>2. dir.payload \in Logins /\ whose = cred[p].of /\ ~vendor.ends
    BY <1>0, <2>1 DEF Gated, KnowsWho, IsVendor
  <2>3. Offered = dir.payload
    BY <1>1, <2>1 DEF Barred, Offered, FreshPayload
  <2> QED BY <1>1, <2>1, <2>2, <2>3 DEF Answers, Accepts, Owners
<1>3. dir.retry = 0
  BY <1>2, QuietIs, Strangers DEF BackedOff
<1>4. \A l \in Logins : quiet[l] \in 0 .. Backoff /\ quiet[l] <= 0
  BY <1>3, QuietIs DEF GateQuiet
<1> QED BY <1>4, Waits

LEMMA ProcessRests ==
  ASSUME TypeInv, Places, Owners, GateQuiet, Gated, NEW p \in Procs,
         Start(p) \/ Step(p) \/ Die(p)
  PROVE  Rests(p)
<1>0. /\ vendor.own \notin {"has no cache", "binds the sidecars", "keeps a ledger", "runs the CLI"}
      /\ ~Paces /\ pc[p] \notin {"renew", "cli"}
  BY VendorsAre, TypeParts DEF TypeInv, IsVendor, Gated, Paces, Places
<1>a. ASSUME UNCHANGED <<dir, quiet>>, pc'[p] \in Out => pc[p] \in Out PROVE Rests(p)
  BY <1>a DEF Rests, GateQuiet
<1>b. ASSUME UNCHANGED <<cache, quiet>>, NEW o, Finish(p, o) PROVE Rests(p)
  <2>1. pc'[p] = "idle"
    BY <1>b, FinishDoes DEF TypeInv
  <2> QED BY <1>a, <1>b, <2>1 DEF cache, Out
<1>c. ASSUME NEW code \in Answered, Fail(p, code), UNCHANGED quiet, code # "limited"
      PROVE  Rests(p)
  <2>1. pc'[p] = "idle"
    BY <1>c, FailKeeps, ProcessKeeps DEF Keeps
  <2>2. \A l \in Logins : quiet'[l] <= dir'.retry
    BY <1>c, FailQuiet
  <2> QED BY <1>c, <2>1, <2>2 DEF Rests, Out
<1>1. CASE Start(p)
  <2>1. pc'[p] \in {"renew", "lock"}
    BY <1>1, GotoIs DEF Start
  <2> QED BY <1>1, <1>a, <2>1 DEF Start, cache, Out
<1>2. CASE RenewTimesOut(p) \/ Serve(p) \/ HoldBack(p) \/ Die(p)
  <2>1. (\E o : Finish(p, o)) /\ UNCHANGED <<cache, quiet>>
    BY <1>2 DEF RenewTimesOut, Serve, HoldBack, Die
  <2> QED BY <1>b, <2>1
<1>3. CASE TakeLock(p)
  <2>1. pc'[p] = "look" /\ UNCHANGED <<cache, quiet>>
    BY <1>0, <1>3, GotoIs DEF TakeLock
  <2> QED BY <1>a, <2>1 DEF cache, Out
<1>4. CASE NotSent(p)
  <2>1. UNCHANGED quiet /\ (Fail(p, "local") \/ Fail(p, "status"))
    BY <1>4 DEF NotSent
  <2> QED BY <1>c, <2>1 DEF Answered
<1>5. CASE GoOn(p)
  <2>1. UNCHANGED <<cache, quiet>>
    BY <1>5 DEF GoOn
  <2> QED BY <1>5, <2>1, GoOnRests DEF Rests, GateQuiet, cache
<1>6. CASE AskWho(p)
  <2>1. Inside(p) /\ pc[p] \in Out
    BY <1>6 DEF AskWho, Inside, Out
  <2>2. CASE UNCHANGED <<dir, quiet>>
    BY <1>a, <2>1, <2>2
  <2>3. CASE (\E o \in Outcomes : Finish(p, o)) /\
             \E code \in {"limited", "status"} :
               /\ dir' = Recorded(dir, code)
               /\ quiet' = IF code = "limited" THEN Hushed ELSE quiet
    <3>1. PICK code \in {"limited", "status"} :
               /\ dir' = Recorded(dir, code)
               /\ quiet' = IF code = "limited" THEN Hushed ELSE quiet
      BY <2>3
    <3>2. dir'.retry = IF code = "limited" THEN Backoff ELSE dir.retry
      BY <3>1, RecordedDoes, TypeParts DEF TypeInv, CacheType, Codes
    <3>3. \A l \in Logins : quiet'[l] <= dir'.retry
      BY <3>1, <3>2, HushedIs, Times DEF GateQuiet
    <3>4. pc'[p] = "idle"
      BY <2>3, FinishDoes DEF TypeInv
    <3> QED BY <2>1, <3>3, <3>4 DEF Rests, Out
  <2> QED BY <1>6, <2>2, <2>3, AskWhoDoes DEF cache
<1>7. CASE Ask(p)
  <2>1. UNCHANGED <<cache, quiet>> /\ pc[p] = "ask"
    BY <1>0, <1>7 DEF Ask
  <2> QED BY <1>a, <2>1 DEF cache, Out
<1>d. ASSUME NEW l \in Logins, Write(p, l), quiet' = Unhushed, NEW o, Finish(p, o)
      PROVE  Rests(p)
  <2>1. dir'.retry = 0 /\ pc'[p] = "idle"
    BY <1>d, WriteDoes, FinishDoes DEF TypeInv
  <2> QED BY <1>d, <2>1, HushedIs DEF Rests
<1>8. CASE ReplyOk(p)
  <2>1. Finish(p, Fresh(Named(cred[p].of))) /\ cred[p].of \in Logins /\ quiet' = Unhushed
    BY <1>0, <1>8, CredIs DEF ReplyOk
  <2>2. CASE UNCHANGED cache
    <3>1. dir' = dir /\ \A l \in Logins : quiet'[l] <= dir.retry /\ quiet'[l] = 0
      BY <2>1, <2>2, HushedIs, QuietIs DEF cache
    <3> QED BY <2>1, <3>1 DEF Rests
  <2>3. CASE Write(p, cred[p].of)
    BY <1>d, <2>1, <2>3
  <2> QED BY <1>8, <2>2, <2>3 DEF ReplyOk, NotWritten
<1>9. CASE ReplyChecked(p)
  <2>1. Finish(p, Fresh(cred[p].asks))
    BY <1>9 DEF ReplyChecked
  <2>2. CASE UNCHANGED <<cache, quiet>>
    BY <1>b, <2>1, <2>2
  <2>3. CASE cred[p].of = login.of /\ Write(p, cred[p].of) /\ quiet' = Unhushed
    BY <1>d, <2>1, <2>3, HeldIs
  <2> QED BY <1>9, <2>2, <2>3 DEF ReplyChecked
<1>10. CASE ReplyFails(p)
  <2>1. PICK code \in Answered : /\ Fail(p, code)
                                 /\ quiet' = IF code = "limited" THEN Hushed ELSE quiet
    BY <1>0, <1>10 DEF ReplyFails, Answered
  <2>2. pc'[p] = "idle" /\ Inside(p)
    BY <1>0, <1>10, <2>1, FailKeeps, ProcessKeeps DEF Keeps, Inside, ReplyFails
  <2>3. \A l \in Logins : quiet'[l] <= dir'.retry
    BY <2>1, FailQuiet
  <2> QED BY <2>2, <2>3 DEF Rests, Out
<1>11. CASE AsAgent(p) \/ RenewRefused(p)
  <2>1. UNCHANGED <<cache, quiet>> /\ pc[p] = "reply"
    BY <1>11 DEF AsAgent, RenewRefused
  <2> QED BY <1>a, <2>1 DEF cache, Out
<1>12. CASE Refresh(p) \/ Save(p)
  <2>1. UNCHANGED quiet /\ pc[p] \in Out
    BY <1>12 DEF Refresh, Save, Out
  <2>2. CASE UNCHANGED cache
    BY <1>a, <2>1, <2>2 DEF cache
  <2>3. CASE \E code \in Answered : code # "limited" /\ Fail(p, code)
    BY <1>c, <2>1, <2>3
  <2> QED BY <1>12, <2>2, <2>3, RefreshDoes, SaveDoes DEF Answered
<1>13. ~Renew(p) /\ ~CliRan(p) /\ ~BindFails(p) /\ ~LookInLedger(p)
  BY <1>0 DEF Renew, CliRan, BindFails, LookInLedger
<1> QED BY <1>1, <1>2, <1>3, <1>4, <1>5, <1>6, <1>7, <1>8, <1>9, <1>10, <1>11, <1>12, <1>13
        DEF Step

LEMMA GateQuietStep ==
  ASSUME TypeInv, Places, Owners, GateQuiet, [Next]_vars
  PROVE  GateQuiet'
<1>0. vendor' = vendor
  BY NextIs, WorldLeaves, ProcessKeeps DEF Keeps, vars
<1> SUFFICES ASSUME Gated PROVE GateQuiet'
  BY <1>0 DEF GateQuiet, Gated
<1>1. CASE \E p \in Procs : Start(p) \/ Step(p) \/ Die(p)
  <2>1. PICK p \in Procs : Start(p) \/ Step(p) \/ Die(p)
    BY <1>1
  <2>2. Rests(p) /\ \A q \in Procs \ {p} : pc'[q] = pc[q]
    BY <2>1, ProcessRests, ProcessKeeps DEF Keeps, Frame
  <2>3. ASSUME NEW q \in Procs \ {p}, pc[q] \in Out, NEW l \in Logins
        PROVE  quiet'[l] = 0
    <3>1. quiet[l] = 0
      BY <2>3 DEF GateQuiet
    <3>2. vendor.own # "has no cache"
      BY VendorsAre, TypeParts DEF TypeInv, IsVendor, Gated
    <3>3. ~Inside(p)
      BY <2>3, <3>2, OneInside DEF Inside, Out
    <3> QED BY <2>2, <3>1, <3>3, HushedIs DEF Rests
  <2> QED BY <2>2, <2>3 DEF Rests, GateQuiet
<1>2. CASE World
  <2>1. UNCHANGED pc
    BY <1>2, WorldLeaves
  <2>2. CASE Tick
    <3>1. dir \in Dirs /\ dir.retry \in 0 .. Backoff
      BY TypeParts DEF TypeInv, CacheType, Dirs
    <3>2. /\ dir'.retry = Less(dir.retry)
          /\ \A l \in Logins : quiet'[l] = Less(quiet[l])
      BY <2>2, <3>1, AgedIs DEF Tick
    <3>3. \A l \in Logins : quiet[l] \in 0 .. Backoff /\ quiet[l] <= dir.retry
      BY QuietIs DEF GateQuiet
    <3>4. \A m, n \in 0 .. Backoff : m <= n => Less(m) <= Less(n)
      BY Waits
    <3>5. Less(0) = 0
      BY DEF Less
    <3> QED BY <2>1, <3>1, <3>2, <3>3, <3>4, <3>5 DEF GateQuiet
  <2>3. CASE ~Tick
    <3>1. dir' = dir /\ quiet' = quiet
      BY <1>2, <2>3 DEF World, SignIn, AppRenews, Lapse, PeriodEnds, cache
    <3> QED BY <2>1, <3>1 DEF GateQuiet
  <2> QED BY <2>2, <2>3
<1>3. CASE UNCHANGED vars
  BY <1>3 DEF vars, GateQuiet
<1> QED BY <1>1, <1>2, <1>3, NextIs

(***************************************************************************)
(* Muse: what a step of one fetch does to the ledger and the silence.      *)
(***************************************************************************)
Notes(p) ==
  /\ \A l \in Logins : quiet'[l] <= ledger'[l].left
  /\ pc'[p] = "ask" => quiet'[cred'[p].of] = 0 /\ ledger'[cred'[p].of].left = Backoff
  /\ \/ Inside(p)
     \/ quiet' = quiet /\ ledger' = ledger

LEMMA ProcessNotes ==
  ASSUME TypeInv, Places, LedgerQuiet, vendor.own = "keeps a ledger", NEW p \in Procs,
         Start(p) \/ Step(p) \/ Die(p)
  PROVE  Notes(p)
<1>0. /\ vendor.reads = "before" /\ vendor.spends = "never" /\ Paces
      /\ cred[p].of \in Logins
      /\ pc[p] \notin {"renew", "cli", "who", "refresh", "save"}
  BY VendorsAre, TypeParts, CredIs DEF TypeInv, Known, IsVendor, Paces, Places
<1>a. ASSUME UNCHANGED <<quiet, ledger>>, pc'[p] # "ask" PROVE Notes(p)
  BY <1>a DEF Notes, LedgerQuiet
<1>1. CASE Start(p) \/ TakeLock(p)
  <2>1. pc'[p] \in {"renew", "lock", "look"}
    BY <1>1, GotoIs DEF Start, TakeLock
  <2> QED BY <1>1, <1>a, <2>1 DEF Start, TakeLock
<1>2. CASE RenewTimesOut(p) \/ Die(p)
  <2>1. pc'[p] = "idle"
    BY <1>2, FinishDoes DEF RenewTimesOut, Die, TypeInv
  <2> QED BY <1>2, <1>a, <2>1 DEF RenewTimesOut, Die
<1>3. CASE LookInLedger(p)
  <2>1. Inside(p) /\ quiet' = quiet
    BY <1>3 DEF LookInLedger, Inside
  <2>2. CASE /\ ledger[cred[p].of].left = 0
             /\ ledger' = [ledger EXCEPT ![cred[p].of] = [left |-> Backoff, ok |-> FALSE]]
             /\ Goto(p, "ask") /\ UNCHANGED cred
    <3>1. \A l \in Logins : ledger'[l].left =
                              IF l = cred[p].of THEN Backoff ELSE ledger[l].left
      BY <1>0, <2>2, TypeParts DEF TypeInv, TimeType
    <3>2. \A l \in Logins : quiet[l] \in 0 .. Backoff /\ quiet[l] <= ledger[l].left
      BY QuietIs, <1>0 DEF LedgerQuiet
    <3>3. quiet[cred[p].of] = 0
      BY <1>0, <2>2, <3>2, Waits
    <3>4. \A l \in Logins : quiet[l] <= ledger'[l].left
      BY <3>1, <3>2, Waits
    <3> QED BY <1>0, <2>1, <2>2, <3>1, <3>3, <3>4 DEF Notes
  <2>3. CASE (\E o \in Outcomes : Finish(p, o)) /\ UNCHANGED ledger
    <3>1. pc'[p] = "idle"
      BY <2>3, FinishDoes DEF TypeInv
    <3> QED BY <1>a, <2>1, <2>3, <3>1
  <2> QED BY <1>3, <2>2, <2>3, LookInLedgerDoes
<1>4. CASE Ask(p)
  <2>1. /\ ledger' = ledger /\ quiet' = [quiet EXCEPT ![cred[p].of] = Backoff]
        /\ pc'[p] = "reply" /\ Inside(p)
    BY <1>4, GotoIs DEF Ask, Inside
  <2>2. ledger[cred[p].of].left = Backoff /\ \A l \in Logins : quiet[l] <= ledger[l].left
    BY <1>4 DEF Ask, LedgerQuiet
  <2>3. \A l \in Logins : quiet'[l] = IF l = cred[p].of THEN Backoff ELSE quiet[l]
    BY <2>1, TypeParts DEF TypeInv, TimeType
  <2>4. \A l \in Logins : quiet'[l] <= ledger[l].left
    BY <2>2, <2>3, QuietIs, Waits
  <2> QED BY <2>1, <2>4 DEF Notes
<1>5. CASE ReplyOk(p)
  <2>1. /\ quiet' = quiet /\ ledger' = [ledger EXCEPT ![cred[p].of].ok = TRUE]
        /\ pc'[p] = "idle" /\ Inside(p)
    BY <1>0, <1>5, FinishDoes DEF ReplyOk, Inside, TypeInv
  <2>2. \A l \in Logins : ledger'[l].left = ledger[l].left
    BY <2>1, TypeParts DEF TypeInv, TimeType
  <2> QED BY <2>1, <2>2 DEF Notes, LedgerQuiet
<1>6. CASE ReplyFails(p)
  <2>1. UNCHANGED <<quiet, ledger>> /\ \E code \in Answered : Fail(p, code)
    BY <1>0, <1>6 DEF ReplyFails, Answered
  <2>2. pc'[p] = "idle"
    BY <1>6, <2>1, FailKeeps, ProcessKeeps DEF Keeps
  <2> QED BY <1>a, <2>1, <2>2
<1>7. /\ ~Renew(p) /\ ~CliRan(p) /\ ~BindFails(p) /\ ~Serve(p) /\ ~NotSent(p) /\ ~HoldBack(p)
      /\ ~GoOn(p) /\ ~AskWho(p) /\ ~ReplyChecked(p) /\ ~AsAgent(p) /\ ~RenewRefused(p)
      /\ ~Refresh(p) /\ ~Save(p)
  BY <1>0 DEF Renew, CliRan, BindFails, Serve, NotSent, HoldBack, GoOn, Looks, AskWho,
     ReplyChecked, AsAgent, RenewRefused, Refresh, Save
<1> QED BY <1>1, <1>2, <1>3, <1>4, <1>5, <1>6, <1>7 DEF Step

LEMMA LedgerQuietStep ==
  ASSUME TypeInv, Places, LedgerQuiet, [Next]_vars
  PROVE  LedgerQuiet'
<1>0. vendor' = vendor
  BY NextIs, WorldLeaves, ProcessKeeps DEF Keeps, vars
<1> SUFFICES ASSUME vendor.own = "keeps a ledger" PROVE LedgerQuiet'
  BY <1>0 DEF LedgerQuiet
<1>1. CASE \E p \in Procs : Start(p) \/ Step(p) \/ Die(p)
  <2>1. PICK p \in Procs : Start(p) \/ Step(p) \/ Die(p)
    BY <1>1
  <2>2. Notes(p) /\ \A q \in Procs \ {p} : pc'[q] = pc[q] /\ cred'[q] = cred[q]
    BY <2>1, ProcessNotes, ProcessKeeps DEF Keeps, Frame
  <2>3. ASSUME NEW q \in Procs \ {p}, pc[q] = "ask"
        PROVE  quiet' = quiet /\ ledger' = ledger
    BY <2>2, <2>3, OneInside DEF Inside, Notes
  <2> QED BY <2>2, <2>3 DEF Notes, LedgerQuiet
<1>2. CASE World
  <2>1. UNCHANGED <<pc, cred>>
    BY <1>2, WorldLeaves
  <2>2. CASE Tick
    <3>1. \A l \in Logins : /\ quiet'[l] = Less(quiet[l])
                             /\ ledger'[l].left = Less(ledger[l].left)
      BY <2>2, TypeParts DEF Tick, TypeInv, TimeType
    <3>2. \A l \in Logins : quiet[l] \in 0 .. Backoff /\ ledger[l].left \in 0 .. Backoff
                             /\ quiet[l] <= ledger[l].left
      BY QuietIs DEF LedgerQuiet
    <3>3. \A m, n \in 0 .. Backoff : m <= n => Less(m) <= Less(n)
      BY Waits
    <3> QED BY <2>1, <2>2, <3>1, <3>2, <3>3 DEF LedgerQuiet, Tick
  <2>3. CASE ~Tick
    <3>1. ledger' = ledger /\ quiet' = quiet
      BY <1>2, <2>3 DEF World, SignIn, AppRenews, Lapse, PeriodEnds
    <3> QED BY <2>1, <3>1 DEF LedgerQuiet
  <2> QED BY <2>2, <2>3
<1>3. CASE UNCHANGED vars
  BY <1>3 DEF vars, LedgerQuiet
<1> QED BY <1>1, <1>2, <1>3, NextIs

LEMMA CliQuietStep ==
  ASSUME TypeInv, Places, CliQuiet, [Next]_vars
  PROVE  CliQuiet'
<1>0. vendor' = vendor
  BY NextIs, WorldLeaves, ProcessKeeps DEF Keeps, vars
<1> SUFFICES ASSUME vendor.own = "runs the CLI" PROVE CliQuiet'
  BY <1>0 DEF CliQuiet
<1>1. CASE UNCHANGED <<ledger, quiet>>
  BY <1>1 DEF CliQuiet
<1>2. CASE Tick
  <2>1. \A l \in Logins : /\ quiet'[l] = Less(quiet[l])
                           /\ ledger'[l].left = Less(ledger[l].left)
    BY <1>2, TypeParts DEF Tick, TypeInv, TimeType
  <2>2. \A l \in Logins : quiet[l] \in 0 .. Backoff /\ ledger[First].left \in 0 .. Backoff
                           /\ quiet[l] <= ledger[First].left
    BY QuietIs DEF CliQuiet
  <2>3. \A m, n \in 0 .. Backoff : m <= n => Less(m) <= Less(n)
    BY Waits
  <2> QED BY <2>1, <2>2, <2>3, Strangers DEF CliQuiet
<1>3. CASE World /\ ~Tick
  BY <1>1, <1>3 DEF World, SignIn, AppRenews, Lapse, PeriodEnds
<1>4. CASE \E p \in Procs : Start(p) \/ Step(p) \/ Die(p)
  <2>1. PICK p \in Procs : Start(p) \/ Step(p) \/ Die(p)
    BY <1>4
  <2>2. CASE Renew(p)
    <3>1. CASE UNCHANGED <<ledger, quiet>>
      BY <1>1, <3>1
    <3>2. CASE ledger' = [ledger EXCEPT ![First].left = Backoff] /\ quiet' = Hushed
      <4>1. ledger \in [Logins -> [left : 0 .. Backoff, ok : BOOLEAN]] /\ First \in Logins
        BY TypeParts, Strangers DEF TypeInv, TimeType
      <4>2. ledger'[First].left = Backoff
        BY <3>2, <4>1
      <4>3. \A l \in Logins : quiet'[l] = Backoff
        BY <3>2, HushedIs
      <4> QED BY <4>2, <4>3, Longest DEF CliQuiet
    <3> QED BY <2>2, <3>1, <3>2 DEF Renew
  <2>3. CASE ~Renew(p)
    <3>1. Paces /\ ~AskWho(p) /\ ~ReplyChecked(p) /\ ~LookInLedger(p)
      BY DEF Paces, AskWho, ReplyChecked, LookInLedger, Places
    <3>2. UNCHANGED <<ledger, quiet>>
      BY <2>1, <2>3, <3>1
      DEF Step, Start, Die, RenewTimesOut, CliRan, TakeLock, BindFails, Serve, NotSent,
          HoldBack, GoOn, Ask, ReplyOk, ReplyFails, AsAgent, RenewRefused, Refresh, Save
    <3> QED BY <1>1, <3>2
  <2> QED BY <2>2, <2>3
<1>5. CASE UNCHANGED vars
  BY <1>1, <1>5 DEF vars
<1> QED BY <1>2, <1>3, <1>4, <1>5, NextIs

LEMMA QuietsInit == Init => Quiets
<1> SUFFICES ASSUME Init PROVE Quiets
  OBVIOUS
<1>0. TypeInv
  BY TypeInit
<1>1. /\ pc = [p \in Procs |-> "idle"] /\ IsVendor(vendor)
      /\ quiet = [l \in Logins |-> IF Paces THEN 0 ELSE dir.retry]
      /\ ledger = [l \in Logins |-> [left |-> 0, ok |-> FALSE]]
  BY VendorsAre DEF Init
<1>2. GateQuiet
  <2>1. Gated => ~Paces
    BY <1>1 DEF Gated, Paces, IsVendor
  <2>2. Gated => \A l \in Logins : quiet[l] = dir.retry /\ dir.retry \in 0 .. Backoff
    BY <1>0, <1>1, <2>1, QuietIs
  <2>3. \A n \in 0 .. Backoff : n <= n
    BY Times
  <2> QED BY <1>1, <2>2, <2>3 DEF GateQuiet, Out
<1>3. LedgerQuiet
  <2>1. vendor.own = "keeps a ledger" => \A l \in Logins : quiet[l] = 0 /\ ledger[l].left = 0
    BY <1>1 DEF Paces
  <2>2. \A p \in Procs : pc[p] # "ask"
    BY <1>1
  <2>3. 0 <= 0
    OBVIOUS
  <2> QED BY <2>1, <2>2, <2>3 DEF LedgerQuiet
<1>4. CliQuiet
  <2>1. vendor.own = "runs the CLI" => \A l \in Logins : quiet[l] = 0 /\ ledger[l].left = 0
    BY <1>1 DEF Paces
  <2>2. 0 <= 0
    OBVIOUS
  <2> QED BY <2>1, <2>2, Strangers DEF CliQuiet
<1> QED BY <1>2, <1>3, <1>4 DEF Quiets

(***************************************************************************)
(* A vendor that looks at the backoff after refusing a payload asks no one *)
(* while one is armed, and the attempts that are to be spaced are, whoever *)
(* makes them and whoever dies in between.                                 *)
(***************************************************************************)
THEOREM AskingWaits == Spec => NobodyAsksEarly
<1> DEFINE Inv == TypeInv /\ Places /\ Owners /\ Quiets
<1>1. Init => Inv
  BY TypeInit, PlacesInit, OwnersInit, QuietsInit
<1>2. Inv /\ [Next]_vars => Inv'
  BY TypeStep, PlacesStep, OwnersStep, GateQuietStep, LedgerQuietStep, CliQuietStep DEF Quiets
<1>3. ASSUME Inv, [Next]_vars
      PROVE  [vendor.gate \/ Paces \/ vendor.own = "asks who" => AsksInPeace]_vars
  <2>1. SUFFICES ASSUME Next, Gated \/ Paces, NEW p \in Procs, Asks(p)
                 PROVE  quiet[AskedFor(p)] = 0
    BY <1>3 DEF Gated, AsksInPeace
  <2>2. ~World
    BY <2>1, WorldLeaves DEF Asks
  <2>3. PICK q \in Procs : Start(q) \/ Step(q) \/ Die(q)
    BY <2>1, <2>2, NextIs
  <2>4. Keeps(q) /\ q = p
    <3>1. Keeps(q)
      BY <1>3, <2>3, ProcessKeeps
    <3> QED BY <2>1, <3>1 DEF Keeps, Frame, Asks
  <2>5. AskedFor(p) \in Logins
    <3>1. cred'[p].asks \in Logins
      BY <2>4 DEF Keeps, FetchType, Creds
    <3>2. pc[p] # "ask" => vendor.own # "reads twice"
      BY <1>3, <2>1 DEF Asks, Places
    <3> QED BY <1>3, <3>1, <3>2, CredIs DEF AskedFor
  <2>6. CASE vendor.own = "runs the CLI"
    <3>1. Renew(p)
      <4>1. pc[p] = "renew" /\ pc'[p] = "cli"
        BY <2>1, <2>6 DEF Asks
      <4>2. ~RenewTimesOut(p) /\ ~Die(p)
        BY <1>3, <4>1, FinishDoes DEF RenewTimesOut, Die, TypeInv
      <4> QED BY <2>3, <2>4, <4>1, <4>2
          DEF Step, Start, CliRan, TakeLock, BindFails, Serve, NotSent, HoldBack, GoOn, Looks,
              LookInLedger, AskWho, Ask, ReplyOk, ReplyChecked, ReplyFails, AsAgent,
              RenewRefused, Refresh, Save
    <3>2. ledger[First].left = 0
      BY <1>3, <2>1, <2>6, <3>1, GotoIs DEF Renew, Asks
    <3>3. \A l \in Logins : quiet[l] \in 0 .. Backoff /\ quiet[l] <= 0
      BY <1>3, <2>6, <3>2, QuietIs DEF Quiets, CliQuiet
    <3> QED BY <2>5, <3>3, Times
  <2>7. CASE Gated /\ vendor.own # "runs the CLI"
    <3>1. pc[p] \in Out
      BY <2>1, <2>7 DEF Asks, Out
    <3> QED BY <1>3, <2>5, <2>7, <3>1 DEF Quiets, GateQuiet
  <2>8. CASE vendor.own = "keeps a ledger"
    <3>1. pc[p] = "ask" /\ pc'[p] = "reply"
      BY <1>3, <2>1, <2>8 DEF Asks, Places
    <3>2. Ask(p)
      <4>1. ~Die(p)
        BY <1>3, <3>1, FinishDoes DEF Die, TypeInv
      <4> QED BY <2>3, <2>4, <3>1, <4>1
          DEF Step, Start, Renew, RenewTimesOut, CliRan, TakeLock, BindFails, Serve, NotSent,
              HoldBack, GoOn, Looks, LookInLedger, AskWho, ReplyOk, ReplyChecked, ReplyFails,
              AsAgent, RenewRefused, Refresh, Save
    <3>3. AskedFor(p) = cred[p].of
      BY <1>3, <2>8, <3>1, <3>2, AskDoes DEF AskedFor, Owners
    <3> QED BY <1>3, <2>8, <3>1, <3>3 DEF Quiets, LedgerQuiet
  <2> QED BY <2>1, <2>6, <2>7, <2>8 DEF Paces
<1> QED BY <1>1, <1>2, <1>3, PTL DEF Spec, NobodyAsksEarly

-----------------------------------------------------------------------------
(* Refresh tokens. *)

Counted == vendor.reads = "within" \/ used = {First}
Spends == vendor.spends # "never"

(***************************************************************************)
(* A login nobody had yet has no token; what the login's file holds is no  *)
(* newer than what the server accepts; and a fetch about to write a        *)
(* renewed token holds the newest, which the login's file does not.        *)
(***************************************************************************)
Issued ==
  /\ ~Spends => login.token = 0 /\ \A l \in Logins : newest[l] = 0
  /\ Spends =>
       /\ {First, login.of, pair.of} \subseteq used
       /\ \A p \in Procs : cred[p].of \in used
       /\ \A l \in Logins \ used : newest[l] = 0
       /\ login.token <= newest[login.of]
       /\ \A p \in Procs : pc[p] = "save" =>
            /\ cred[p].token = newest[cred[p].of]
            /\ cred[p].of = login.of => login.token < newest[login.of]

(***************************************************************************)
(* A fetch that goes by another login than the one that is signed in now   *)
(* cannot be the one that makes the login's token old.                     *)
(***************************************************************************)
Away ==
  \A p \in Procs : pc[p] \in {"look", "refresh", "save"} /\ cred[p].of # login.of =>
    lost \/ newest[login.of] = login.token

(***************************************************************************)
(* What a step of one fetch does to the tokens: nothing; or it has rotated *)
(* one, lost one, or written one down.                                     *)
(***************************************************************************)
NoSpending(p) ==
  /\ pc[p] # "save" /\ pc'[p] # "save"
  /\ UNCHANGED <<login, pair, newest, lost>>
  /\ cred'[p].of \in used
  /\ pc'[p] \in {"look", "refresh"} =>
       \/ vendor.reads = "before" \/ cred'[p].of = login.of
       \/ pc[p] = "look" /\ (cred'[p].of = cred[p].of \/ (pair.there /\ cred'[p].of = pair.of))

Rotated(p) ==
  /\ pc[p] = "refresh" /\ Rotates(p) /\ pc'[p] = "save"
  /\ cred'[p].of = cred[p].of /\ cred'[p].token = cred[p].token + 1
  /\ UNCHANGED <<login, pair, lost>>

Lost(p) ==
  /\ pc[p] \in {"refresh", "save"} /\ pc'[p] = "idle" /\ cred'[p].of = First
  /\ lost' = TRUE /\ UNCHANGED <<login, pair>>
  /\ newest' = newest \/ (pc[p] = "refresh" /\ Rotates(p))

Saved(p) ==
  /\ pc[p] = "save" /\ pc'[p] = "ask" /\ cred'[p] = cred[p] /\ UNCHANGED <<newest, lost>>
  /\ \/ UNCHANGED pair /\ login' = [of |-> cred[p].of, token |-> cred[p].token, due |-> FALSE]
     \/ UNCHANGED login /\ pair' = Kept(cred[p])

LEMMA EndSpends ==
  ASSUME TypeInv, Issued, Spends, NEW p \in Procs, NEW o, Finish(p, o), pc[p] # "save",
         UNCHANGED <<login, pair, newest, lost>>
  PROVE  NoSpending(p)
<1>1. pc'[p] = "idle" /\ cred'[p].of = First
  BY FinishDoes, NoCredIs DEF TypeInv
<1> QED BY <1>1 DEF NoSpending, Issued

LEMMA FailEnds ==
  ASSUME TypeInv, NEW p \in Procs, NEW code \in Answered, Fail(p, code)
  PROVE  /\ pc'[p] = "idle" /\ cred'[p].of = First
         /\ \E o \in Outcomes : Finish(p, o)
<1>1. Finish(p, out') /\ out' \in Outcomes
  BY FailDoes DEF TypeInv
<1> DEFINE o == out'
<1> HIDE DEF o
<1>2. Finish(p, o) /\ o \in Outcomes
  BY <1>1 DEF o
<1> QED BY <1>2, FinishDoes, NoCredIs DEF TypeInv

LEMMA ProcessSpends ==
  ASSUME TypeInv, Places, Issued, Spends, NEW p \in Procs, Start(p) \/ Step(p) \/ Die(p)
  PROVE  NoSpending(p) \/ Rotated(p) \/ Lost(p) \/ Saved(p)
<1>0. /\ IsVendor(vendor) /\ vendor.own \in {"nothing", "has no cache"}
      /\ pc[p] \notin {"renew", "cli", "who"}
      /\ cred \in [Procs -> Creds] /\ lost \in BOOLEAN
      /\ {First, login.of, pair.of, cred[p].of} \subseteq used
  <2>1. IsVendor(vendor) /\ vendor.own \in {"nothing", "has no cache"}
    BY VendorsAre, TypeParts DEF TypeInv, IsVendor, Spends
  <2>2. cred \in [Procs -> Creds] /\ lost \in BOOLEAN
    BY TypeParts DEF TypeInv, FetchType, LoginType
  <2>3. {First, login.of, pair.of, cred[p].of} \subseteq used
    BY DEF Issued
  <2> QED BY <2>1, <2>2, <2>3 DEF Places
<1>1. CASE Start(p)
  <2>1. cred'[p] \in {Held, NoCred} /\ pc'[p] \in {"renew", "lock"} /\ pc[p] = "idle"
    BY <1>0, <1>1, GotoIs DEF Start
  <2>2. cred'[p].of \in used
    BY <1>0, <2>1, HeldIs, NoCredIs
  <2> QED BY <1>1, <2>1, <2>2 DEF Start, NoSpending, logins, tokens
<1>2. CASE RenewTimesOut(p) \/ Serve(p) \/ HoldBack(p) \/ ReplyOk(p)
  <2>1. /\ pc[p] # "save" /\ UNCHANGED <<login, pair, newest, lost>>
        /\ \E o : Finish(p, o)
    BY <1>2 DEF RenewTimesOut, Serve, HoldBack, ReplyOk, Looks, logins, tokens
  <2> QED BY <2>1, EndSpends
<1>3. CASE NotSent(p) \/ ReplyFails(p)
  <2>1. /\ pc[p] # "save" /\ UNCHANGED <<login, pair, newest, lost>>
        /\ \E code \in Answered : Fail(p, code)
    BY <1>3 DEF NotSent, ReplyFails, Looks, logins, tokens, Answered
  <2> QED BY <2>1, FailEnds, EndSpends
<1>4. CASE Die(p)
  <2>1. Finish(p, NoOutcome) /\ UNCHANGED <<login, pair, newest>>
    BY <1>4 DEF Die, logins
  <2>2. CASE pc[p] = "save"
    <3>1. lost' = TRUE /\ pc'[p] = "idle" /\ cred'[p].of = First
      BY <1>4, <2>1, <2>2, FinishDoes, NoCredIs DEF Die, TypeInv
    <3> QED BY <2>1, <2>2, <3>1 DEF Lost
  <2>3. CASE pc[p] # "save"
    <3>1. lost' = lost
      BY <1>0, <1>4, <2>3 DEF Die
    <3> QED BY <2>1, <2>3, <3>1, EndSpends
  <2> QED BY <2>2, <2>3
<1>5. CASE TakeLock(p)
  <2>1. pc'[p] = "look" /\ pc[p] = "lock" /\ UNCHANGED <<login, pair, newest, lost>>
    BY <1>5, GotoIs DEF TakeLock, logins, tokens
  <2>2. cred'[p].of \in used /\ (vendor.reads = "before" \/ cred'[p].of = login.of)
    <3>1. CASE vendor.reads = "before"
      BY <1>0, <1>5, <3>1 DEF TakeLock
    <3>2. CASE vendor.reads # "before"
      <4>1. cred' = [cred EXCEPT ![p] = [Held EXCEPT !.of = login.of]]
        BY <1>0, <1>5, <3>2 DEF TakeLock
      <4>2. cred'[p].of = login.of
        BY <1>0, <4>1, HeldIs DEF Creds
      <4> QED BY <1>0, <4>2
    <3> QED BY <3>1, <3>2
  <2> QED BY <2>1, <2>2 DEF NoSpending
<1>6. CASE GoOn(p)
  <2>1. PICK c \in Chosen(p) : cred'[p] = c /\ pc'[p] \in {"who", "refresh", "ask"}
    BY <1>6, GoOnDoes
  <2>2. c.of = cred[p].of \/ (pair.there /\ c.of = pair.of)
    BY ChosenAre, PairIs
  <2>3. pc[p] = "look" /\ UNCHANGED <<login, pair, newest, lost>>
    BY <1>6 DEF GoOn, Looks, logins, tokens
  <2> QED BY <1>0, <2>1, <2>2, <2>3 DEF NoSpending
<1>7. CASE Ask(p)
  <2>1. pc[p] = "ask" /\ UNCHANGED <<login, pair, newest, lost>>
    BY <1>7 DEF Ask, logins, tokens
  <2> QED BY <1>0, <1>7, <2>1, AskDoes DEF NoSpending
<1>8. CASE RenewRefused(p)
  <2>1. /\ pc[p] = "reply" /\ pc'[p] = "refresh" /\ UNCHANGED <<login, pair, newest, lost, cred>>
        /\ vendor.reads = "before"
    BY <1>0, <1>8, GotoIs DEF RenewRefused, logins, tokens, IsVendor
  <2> QED BY <1>0, <2>1 DEF NoSpending
<1>9. CASE Refresh(p)
  <2>1. pc[p] = "refresh" /\ UNCHANGED <<login, pair>>
    BY <1>9 DEF Refresh, logins
  <2>2. CASE /\ Rotates(p) /\ pc'[p] = "save" /\ UNCHANGED lost
             /\ cred'[p].of = cred[p].of /\ cred'[p].token = cred[p].token + 1
    BY <2>1, <2>2 DEF Rotated
  <2>3. CASE Rotates(p) /\ lost' = TRUE /\ Fail(p, "transport")
    BY <2>1, <2>3, FailEnds DEF Lost, Answered
  <2>4. CASE (\E code \in Answered : Fail(p, code)) /\ UNCHANGED <<newest, lost>>
    BY <2>1, <2>4, FailEnds, EndSpends
  <2> QED BY <1>9, <2>2, <2>3, <2>4, RefreshDoes
<1>10. CASE Save(p)
  <2>1. pc[p] = "save" /\ UNCHANGED newest
    BY <1>10 DEF Save
  <2>2. CASE /\ pc'[p] = "ask" /\ cred'[p] = cred[p] /\ UNCHANGED lost
             /\ \/ /\ login' = [of |-> cred[p].of, token |-> cred[p].token, due |-> FALSE]
                   /\ UNCHANGED pair
                \/ pair' = Kept(cred[p]) /\ UNCHANGED login
    BY <2>1, <2>2 DEF Saved
  <2>3. CASE lost' = TRUE /\ Fail(p, "local") /\ UNCHANGED <<pair, login>>
    BY <2>1, <2>3, FailEnds DEF Lost, Answered
  <2> QED BY <1>10, <2>2, <2>3, SaveDoes
<1>11. /\ ~Renew(p) /\ ~CliRan(p) /\ ~BindFails(p) /\ ~LookInLedger(p) /\ ~AskWho(p)
       /\ ~ReplyChecked(p) /\ ~AsAgent(p)
  BY <1>0 DEF Renew, CliRan, BindFails, LookInLedger, AskWho, ReplyChecked, AsAgent
<1> QED BY <1>1, <1>2, <1>3, <1>4, <1>5, <1>6, <1>7, <1>8, <1>9, <1>10, <1>11 DEF Step

(***************************************************************************)
(* A rotation makes one login's token newer.                               *)
(***************************************************************************)
LEMMA RotatesTo ==
  ASSUME TypeInv, NEW p \in Procs, cred[p].of \in Logins, Rotates(p)
  PROVE  /\ cred[p].token = newest[cred[p].of]
         /\ \A l \in Logins :
              newest'[l] = IF l = cred[p].of THEN newest[l] + 1 ELSE newest[l]
BY TypeParts DEF TypeInv, LoginType, Rotates

LEMMA TokensAre ==
  ASSUME TypeInv
  PROVE  /\ \A l \in Logins : newest[l] \in Nat
         /\ login.token \in Nat /\ login.of \in Logins /\ pair.of \in Logins
         /\ \A p \in Procs : cred[p].token \in Nat
<1>1. \A n \in 0 .. MaxTokens : n \in Nat
  OBVIOUS
<1>2. \A p \in Procs : cred[p].token \in 0 .. MaxTokens
  BY CredIs
<1>3. /\ \A l \in Logins : newest[l] \in 0 .. MaxTokens
      /\ login.token \in 0 .. MaxTokens /\ login.of \in Logins /\ pair.of \in Logins
  BY TypeParts DEF TypeInv, LoginType
<1> QED BY <1>1, <1>2, <1>3

LEMMA NeverIssues ==
  ASSUME TypeInv, Issued, ~Spends, NEW p \in Procs, Start(p) \/ Step(p) \/ Die(p)
  PROVE  login'.token = 0 /\ \A l \in Logins : newest'[l] = 0
<1>1. pc[p] \notin {"refresh", "save"}
  BY DEF TypeInv, Known, Spends
<1>2. login'.token = login.token
  BY <1>1, ProcessLogin
<1>3. newest' = newest
  BY <1>1 DEF Step, Start, Die, Renew, RenewTimesOut, CliRan, TakeLock, BindFails, Serve,
     NotSent, HoldBack, GoOn, LookInLedger, AskWho, Ask, ReplyOk, ReplyChecked, ReplyFails,
     AsAgent, RenewRefused, Refresh, Save, tokens
<1> QED BY <1>2, <1>3 DEF Issued

LEMMA ProcessIssues ==
  ASSUME TypeInv, Places, Issued, Spends, NEW p \in Procs, Start(p) \/ Step(p) \/ Die(p)
  PROVE  Issued'
<1>0. /\ vendor' = vendor /\ used' = used
      /\ \A q \in Procs \ {p} : pc'[q] = pc[q] /\ cred'[q] = cred[q]
  BY ProcessKeeps, ProcessLogin DEF Keeps, Frame
<1>1. /\ {First, login.of, pair.of} \subseteq used /\ \A q \in Procs : cred[q].of \in used
      /\ \A l \in Logins \ used : newest[l] = 0
      /\ login.token <= newest[login.of]
      /\ \A q \in Procs : pc[q] = "save" =>
           /\ cred[q].token = newest[cred[q].of]
           /\ cred[q].of = login.of => login.token < newest[login.of]
  BY DEF Issued
<1>2. SUFFICES
        /\ {First, login'.of, pair'.of} \subseteq used /\ cred'[p].of \in used
        /\ \A l \in Logins \ used : newest'[l] = 0
        /\ login'.token <= newest'[login'.of]
        /\ \A q \in Procs : pc'[q] = "save" =>
             /\ cred'[q].token = newest'[cred'[q].of]
             /\ cred'[q].of = login'.of => login'.token < newest'[login'.of]
  BY <1>0, <1>1 DEF Issued, Spends
<1>3. CASE NoSpending(p)
  BY <1>0, <1>1, <1>3 DEF NoSpending
<1>4. ASSUME pc[p] \in {"refresh", "save"}, NEW q \in Procs, pc[q] = "save" PROVE p = q
  BY <1>4, OneInside DEF Inside
<1>5. ASSUME Rotates(p), pc[p] = "refresh"
      PROVE  /\ cred[p].of \in Logins
             /\ \A l \in Logins : newest'[l] = IF l = cred[p].of THEN newest[l] + 1 ELSE newest[l]
             /\ \A l \in Logins \ used : newest'[l] = 0
             /\ login.token <= newest'[login.of]
             /\ cred[p].of = login.of => login.token < newest'[login.of]
  <2>1. cred[p].of \in Logins
    BY <1>5, SpenderIs
  <2>2. \A l \in Logins : newest'[l] = IF l = cred[p].of THEN newest[l] + 1 ELSE newest[l]
    BY <1>5, <2>1, RotatesTo
  <2>3. \A l \in Logins \ used : newest'[l] = 0
    BY <1>1, <2>2
  <2>4. /\ login.token \in Nat /\ newest[login.of] \in Nat /\ login.token <= newest[login.of]
        /\ login.of \in Logins
    BY <1>1, TokensAre
  <2> QED BY <2>1, <2>2, <2>3, <2>4
<1>6. CASE Rotated(p)
  <2>1. cred[p].token = newest[cred[p].of]
    BY <1>6 DEF Rotated, Rotates
  <2>2. cred'[p].token = newest'[cred[p].of]
    BY <1>5, <1>6, <2>1 DEF Rotated
  <2> QED BY <1>0, <1>1, <1>4, <1>5, <1>6, <2>2 DEF Rotated
<1>7. CASE Lost(p)
  <2>1. \A q \in Procs : pc'[q] # "save"
    BY <1>0, <1>4, <1>7 DEF Lost
  <2>2. /\ \A l \in Logins \ used : newest'[l] = 0
        /\ login.token <= newest'[login.of]
    <3>1. CASE pc[p] = "refresh" /\ Rotates(p)
      BY <1>5, <3>1
    <3>2. CASE newest' = newest
      BY <1>1, <3>2
    <3> QED BY <1>7, <3>1, <3>2 DEF Lost
  <2> QED BY <1>1, <1>7, <2>1, <2>2 DEF Lost
<1>8. CASE Saved(p)
  <2>1. \A q \in Procs : pc'[q] # "save"
    BY <1>0, <1>4, <1>8 DEF Saved
  <2>2. /\ cred[p].token = newest[cred[p].of] /\ newest' = newest
        /\ cred[p].of \in used /\ newest[cred[p].of] \in Nat
    BY <1>1, <1>8, SpenderIs, TokensAre DEF Saved
  <2>3. CASE login' = [of |-> cred[p].of, token |-> cred[p].token, due |-> FALSE]
             /\ UNCHANGED pair
    <3>1. login'.of = cred[p].of /\ login'.token = newest[login'.of]
      BY <2>2, <2>3
    <3>2. \A n \in Nat : n <= n
      OBVIOUS
    <3> QED BY <1>1, <1>8, <2>1, <2>2, <2>3, <3>1, <3>2 DEF Saved
  <2>4. CASE pair' = Kept(cred[p]) /\ UNCHANGED login
    <3>1. pair'.of = cred[p].of
      BY <2>4 DEF Kept
    <3> QED BY <1>1, <1>8, <2>1, <2>2, <2>4, <3>1 DEF Saved
  <2> QED BY <1>8, <2>3, <2>4 DEF Saved
<1> QED BY <1>3, <1>6, <1>7, <1>8, ProcessSpends

LEMMA IssuedStep ==
  ASSUME TypeInv, Places, Issued, [Next]_vars
  PROVE  Issued'
<1>1. CASE \E p \in Procs : Start(p) \/ Step(p) \/ Die(p)
  <2>1. PICK p \in Procs : Start(p) \/ Step(p) \/ Die(p)
    BY <1>1
  <2>2. CASE Spends
    BY <2>1, <2>2, ProcessIssues
  <2>3. CASE ~Spends
    <3>1. vendor' = vendor
      BY <2>1, ProcessKeeps DEF Keeps
    <3> QED BY <2>1, <2>3, <3>1, NeverIssues DEF Issued, Spends
  <2> QED BY <2>2, <2>3
<1>2. CASE World
  <2>0. UNCHANGED <<vendor, pc, cred, lost>>
    BY <1>2, WorldLeaves
  <2>1. IsVendor(vendor) /\ login.of \in Logins
    BY VendorsAre, TypeParts DEF TypeInv, LoginType
  <2>2. CASE \E l \in Logins : SignIn(l)
    <3>1. PICK l \in Logins : SignIn(l)
      BY <2>2
    <3>2. /\ login' = [of |-> l, token |-> 0, due |-> FALSE] /\ used' = used \cup {l}
          /\ UNCHANGED <<pair, newest>>
      BY <3>1 DEF SignIn, tokens
    <3>3. login'.of = l /\ login'.token = 0
      BY <3>2
    <3>4. CASE ~Spends
      BY <2>0, <3>2, <3>3, <3>4 DEF Issued, Spends
    <3>5. CASE Spends
      <4>1. l \notin used
        BY <2>1, <3>1, <3>5 DEF SignIn, IsVendor, Spends
      <4>2. newest[l] = 0 /\ \A p \in Procs : cred[p].of # l
        BY <3>5, <4>1 DEF Issued
      <4>3. 0 <= 0
        OBVIOUS
      <4> QED BY <2>0, <3>2, <3>3, <3>5, <4>2, <4>3 DEF Issued, Spends
    <3> QED BY <3>4, <3>5
  <2>3. CASE AppRenews
    <3>1. CASE login' = [login EXCEPT !.due = FALSE] /\ UNCHANGED newest
      <4>1. login'.of = login.of /\ login'.token = login.token
        BY <3>1, TypeParts DEF TypeInv, LoginType
      <4> QED BY <2>0, <2>3, <3>1, <4>1 DEF AppRenews, Issued, Spends
    <3>2. CASE /\ vendor.spends = "due" /\ login.token = newest[login.of]
               /\ newest' = [newest EXCEPT ![login.of] = @ + 1]
               /\ login' = [login EXCEPT !.token = @ + 1, !.due = FALSE]
      <4>1. login'.of = login.of /\ login'.token = login.token + 1
        BY <3>2, TypeParts DEF TypeInv, LoginType
      <4>2. \A l \in Logins : newest'[l] = IF l = login.of THEN newest[l] + 1 ELSE newest[l]
        BY <3>2, TypeParts DEF TypeInv, LoginType
      <4>3. login.token \in Nat /\ \A n \in Nat : ~(n < n) /\ n + 1 <= n + 1
        BY TokensAre
      <4>4. \A p \in Procs : pc[p] = "save" => cred[p].of # login.of /\ cred[p].of \in Logins
        BY <3>2, <4>3, SpenderIs DEF Issued, Spends
      <4>5. login'.token <= newest'[login'.of]
        BY <2>1, <3>2, <4>1, <4>2, <4>3
      <4>6. \A l \in Logins \ used : newest'[l] = 0
        BY <3>2, <4>2 DEF Issued, Spends
      <4>7. UNCHANGED <<pair, used>>
        BY <2>3 DEF AppRenews
      <4> QED BY <2>0, <3>2, <4>1, <4>2, <4>4, <4>5, <4>6, <4>7 DEF Issued, Spends
    <3> QED BY <2>3, <3>1, <3>2 DEF AppRenews
  <2>4. CASE Lapse \/ PeriodEnds \/ Tick
    <3>1. /\ login'.of = login.of /\ login'.token = login.token /\ pair'.of = pair.of
          /\ UNCHANGED <<newest, used>>
      BY <2>4, TypeParts
      DEF TypeInv, LoginType, Lapse, PeriodEnds, Tick, logins, tokens
    <3> QED BY <2>0, <3>1 DEF Issued, Spends
  <2> QED BY <1>2, <2>2, <2>3, <2>4 DEF World
<1>3. CASE UNCHANGED vars
  BY <1>3 DEF vars, Issued, Spends
<1> QED BY <1>1, <1>2, <1>3, NextIs

LEMMA IssuedInit == Init => Issued
<1> SUFFICES ASSUME Init PROVE Issued
  OBVIOUS
<1>1. /\ login.of = First /\ login.token = 0 /\ pair.of = First
      /\ newest = [l \in Logins |-> 0] /\ used = {First}
      /\ pc = [p \in Procs |-> "idle"] /\ \A p \in Procs : cred[p].of = First
  BY NoCredIs DEF Init, NoPair
<1>2. 0 <= 0
  OBVIOUS
<1> QED BY <1>1, <1>2, Strangers DEF Issued

Watched == Spends /\ Counted => Away /\ RotatedIsKept

LEMMA ProcessWatches ==
  ASSUME TypeInv, Places, Issued, Issued', Watched, Spends, Counted, NEW p \in Procs,
         Start(p) \/ Step(p) \/ Die(p)
  PROVE  Away' /\ RotatedIsKept'
<1>0. /\ \A q \in Procs \ {p} : pc'[q] = pc[q] /\ cred'[q] = cred[q]
      /\ login.of \in Logins /\ vendor' = vendor /\ used' = used
      /\ Away /\ RotatedIsKept
  BY ProcessKeeps, ProcessLogin, TokensAre DEF Keeps, Frame, Watched
<1>1. vendor.reads = "before" => login.of = First /\ cred'[p].of = First
  <2>1. vendor.reads = "before" => used = {First}
    BY VendorsAre, TypeParts DEF TypeInv, IsVendor, Fields, Counted
  <2>2. login.of \in used /\ cred'[p].of \in used
    BY <1>0 DEF Issued, Spends
  <2> QED BY <2>1, <2>2
<1>2. ASSUME Inside(p), NEW q \in Procs, pc[q] \in {"look", "refresh", "save"} PROVE p = q
  BY <1>2, OneInside DEF Inside
<1>3. CASE NoSpending(p)
  <2>1. RotatedIsKept'
    <3>1. ASSUME NEW q \in Procs, pc[q] = "save", cred[q].of = login.of,
                 cred[q].token = newest[login.of]
          PROVE  RotatedIsKept'
      BY <1>0, <1>3, <3>1 DEF NoSpending, RotatedIsKept
    <3> QED BY <1>0, <1>3, <3>1 DEF NoSpending, RotatedIsKept
  <2>2. ASSUME NEW q \in Procs, pc'[q] \in {"look", "refresh", "save"}, cred'[q].of # login.of
        PROVE  lost \/ newest[login.of] = login.token
    <3>1. CASE q # p
      BY <1>0, <2>2, <3>1 DEF Away
    <3>2. CASE q = p /\ pc[p] = "look" /\ cred'[p].of = cred[p].of
      BY <1>0, <2>2, <3>2 DEF Away
    <3>3. CASE q = p /\ pc[p] = "look" /\ cred'[p].of = pair.of
      <4>1. \A r \in Procs : pc[r] # "save"
        BY <1>2, <3>3 DEF Inside
      <4> QED BY <1>0, <2>2, <3>3, <4>1 DEF RotatedIsKept
    <3>4. CASE q = p /\ (vendor.reads = "before" \/ cred'[p].of = login.of)
      BY <1>1, <2>2, <3>4
    <3> QED BY <1>3, <2>2, <3>1, <3>2, <3>3, <3>4 DEF NoSpending
  <2> QED BY <1>3, <2>1, <2>2 DEF NoSpending, Away
<1>4. CASE Rotated(p)
  <2>1. /\ cred[p].of \in Logins /\ Inside(p)
        /\ \A l \in Logins : newest'[l] = IF l = cred[p].of THEN newest[l] + 1 ELSE newest[l]
        /\ cred[p].token = newest[cred[p].of]
    BY <1>4, SpenderIs, RotatesTo DEF Rotated, Inside
  <2>2. CASE cred[p].of = login.of
    <3>1. pc'[p] = "save" /\ cred'[p].of = login'.of /\ cred'[p].token = newest'[login'.of]
      BY <1>4, <2>1, <2>2 DEF Rotated
    <3>2. RotatedIsKept'
      BY <3>1 DEF RotatedIsKept
    <3>3. Away'
      BY <1>0, <1>2, <1>4, <2>1, <3>1 DEF Rotated, Away
    <3> QED BY <3>2, <3>3
  <2>3. CASE cred[p].of # login.of
    <3>1. lost \/ newest[login.of] = login.token
      BY <1>0, <1>4, <2>3 DEF Rotated, Away
    <3>2. lost' \/ newest'[login'.of] = login'.token
      BY <1>0, <1>4, <2>1, <2>3, <3>1 DEF Rotated
    <3> QED BY <3>2 DEF RotatedIsKept, Away
  <2> QED BY <2>2, <2>3
<1>5. CASE Lost(p)
  BY <1>5 DEF Lost, Away, RotatedIsKept
<1>6. CASE Saved(p)
  <2>1. Inside(p) /\ cred[p].token = newest[cred[p].of]
    BY <1>6 DEF Saved, Inside, Issued
  <2>2. Away'
    BY <1>0, <1>2, <1>6, <2>1 DEF Saved, Away
  <2>3. RotatedIsKept'
    <3>1. CASE login' = [of |-> cred[p].of, token |-> cred[p].token, due |-> FALSE]
      BY <1>6, <2>1, <3>1 DEF Saved, RotatedIsKept
    <3>2. CASE UNCHANGED login /\ pair' = Kept(cred[p]) /\ cred[p].of = login.of
      <4>1. pair'.there /\ pair'.of = login'.of /\ pair'.token = newest'[login'.of]
        BY <1>6, <2>1, <3>2 DEF Saved, Kept
      <4> QED BY <4>1 DEF RotatedIsKept
    <3>3. CASE UNCHANGED login /\ cred[p].of # login.of
      BY <1>0, <1>6, <3>3 DEF Saved, Away, RotatedIsKept
    <3> QED BY <1>6, <3>1, <3>2, <3>3 DEF Saved
  <2> QED BY <2>2, <2>3
<1> QED BY <1>3, <1>4, <1>5, <1>6, ProcessSpends

LEMMA WatchedStep ==
  ASSUME TypeInv, Places, Issued, Watched, [Next]_vars
  PROVE  Watched'
<1>1. CASE \E p \in Procs : Start(p) \/ Step(p) \/ Die(p)
  <2>1. PICK p \in Procs : Start(p) \/ Step(p) \/ Die(p)
    BY <1>1
  <2>2. vendor' = vendor /\ used' = used /\ Issued'
    BY <2>1, ProcessKeeps, ProcessLogin, IssuedStep DEF Keeps
  <2> QED BY <2>1, <2>2, ProcessWatches DEF Watched, Spends, Counted
<1>2. CASE World
  <2>0. UNCHANGED <<vendor, pc, cred, lost>>
    BY <1>2, WorldLeaves
  <2>1. SUFFICES ASSUME Spends, Counted' PROVE Away' /\ RotatedIsKept'
    BY <2>0 DEF Watched, Spends
  <2>2. ASSUME newest'[login'.of] = login'.token PROVE Away' /\ RotatedIsKept'
    BY <2>2 DEF Away, RotatedIsKept
  <2>3. CASE \E l \in Logins : SignIn(l)
    <3>1. PICK l \in Logins : SignIn(l)
      BY <2>3
    <3>2. l \notin used /\ newest' = newest /\ login' = [of |-> l, token |-> 0, due |-> FALSE]
      BY VendorsAre, TypeParts, <2>1, <3>1 DEF TypeInv, IsVendor, SignIn, Spends, tokens
    <3> QED BY <2>1, <2>2, <3>2 DEF Issued
  <2>4. CASE AppRenews /\ newest' # newest
    <3>1. /\ login.token = newest[login.of]
          /\ newest' = [newest EXCEPT ![login.of] = @ + 1]
          /\ login' = [login EXCEPT !.token = @ + 1, !.due = FALSE]
      BY <2>4 DEF AppRenews
    <3>2. login'.of = login.of /\ login'.token = login.token + 1
      BY <3>1, TypeParts DEF TypeInv, LoginType
    <3>3. newest'[login.of] = newest[login.of] + 1
      BY <3>1, TypeParts DEF TypeInv, LoginType
    <3> QED BY <2>2, <3>1, <3>2, <3>3
  <2>5. CASE (AppRenews /\ newest' = newest) \/ Lapse \/ PeriodEnds \/ Tick
    <3>1. login'.of = login.of /\ login'.token = login.token
      <4>1. CASE login' = [login EXCEPT !.due = FALSE] \/ login' = [login EXCEPT !.due = TRUE]
        BY <4>1, TypeParts DEF TypeInv, LoginType
      <4>2. CASE AppRenews /\ newest' = [newest EXCEPT ![login.of] = @ + 1] /\ newest' = newest
        <5>1. newest'[login.of] = newest[login.of] + 1 /\ newest[login.of] \in Nat
          BY <4>2, TypeParts, TokensAre DEF TypeInv, LoginType
        <5> QED BY <4>2, <5>1
      <4> QED BY <2>5, <4>1, <4>2 DEF AppRenews, Lapse, PeriodEnds, Tick, logins
    <3>2. /\ pair'.of = pair.of /\ pair'.token = pair.token /\ pair'.there = pair.there
      BY <2>5, TypeParts
      DEF TypeInv, LoginType, AppRenews, Lapse, PeriodEnds, Tick, tokens
    <3>3. UNCHANGED <<newest, used>>
      BY <2>5 DEF AppRenews, Lapse, PeriodEnds, Tick, logins, tokens
    <3>4. Away /\ RotatedIsKept
      BY <2>0, <2>1, <3>3 DEF Watched, Counted
    <3> QED BY <2>0, <3>1, <3>2, <3>3, <3>4 DEF Away, RotatedIsKept
  <2> QED BY <1>2, <2>3, <2>4, <2>5 DEF World
<1>3. CASE UNCHANGED vars
  BY <1>3 DEF vars, Watched, Spends, Counted, Away, RotatedIsKept
<1> QED BY <1>1, <1>2, <1>3, NextIs

LEMMA WatchedInit == Init => Watched
BY Strangers DEF Init, Watched, Away, RotatedIsKept

(***************************************************************************)
(* The refresh token the server accepts is in the login's file, in the     *)
(* pair this program keeps or in the hands of the fetch about to write it, *)
(* unless an answer or a write was lost.                                   *)
(***************************************************************************)
THEOREM RotatedTokenIsKept == Spec => []TokenIsKept
<1> DEFINE Inv == TypeInv /\ Places /\ Issued /\ Watched
<1>1. Init => Inv
  BY TypeInit, PlacesInit, IssuedInit, WatchedInit
<1>2. Inv /\ [Next]_vars => Inv'
  BY TypeStep, PlacesStep, IssuedStep, WatchedStep
<1>3. Inv => TokenIsKept
  BY TokensAre DEF TokenIsKept, Watched, Counted, Spends, Issued, RotatedIsKept
<1> QED BY <1>1, <1>2, <1>3, PTL DEF Spec
=============================================================================
