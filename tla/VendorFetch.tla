----------------------------- MODULE VendorFetch -----------------------------
(***************************************************************************)
(* One vendor's fetch_snapshot, run by several processes (the bar, the     *)
(* terminal dashboard, the tray) over one cache directory.  Every vendor   *)
(* follows one plan: take the directory's lock, say whose figure a cached  *)
(* payload must be, serve it, or hold back, or renew the login and ask,    *)
(* then write the payload or fall back on the one that is there.  The      *)
(* vendors differ in a few respects, the fields of a record: the state     *)
(* machine is the plan, its constant variable "vendor" the record of one   *)
(* of them.  AnthropicFetch, KimiRefresh and CodexSwitch model the three   *)
(* vendors that do more.                                                   *)
(*                                                                         *)
(* A login is one credential, an API key or a sign-in; AccountOf names an  *)
(* account by one of its logins.  What a payload reads as is not modelled. *)
(* The sidecars are written in one step here: AnthropicFetch takes those   *)
(* writes apart.  The _Bug forms are plausible mistakes; no specification  *)
(* uses them.                                                              *)
(***************************************************************************)
EXTENDS UsageCache, SequencesExt

CONSTANTS Procs,       \* ai-usagebar processes
          NoOne,       \* no process
          AccountOf,   \* the login that names the account of each login
          First,       \* the login of the start
          MaxTokens,   \* bound: refresh tokens issued to one login
          MaxDeaths    \* bound: processes that die

ASSUME VendorAssumption == /\ NoOne \notin Procs \cup Payloads \cup {Limited}
                           /\ AccountOf \in [Logins -> Logins]
                           /\ First \in Logins
                           /\ {MaxTokens, MaxDeaths} \subseteq Nat

-----------------------------------------------------------------------------
(***************************************************************************)
(* The respects in which the vendors differ:                               *)
(*   binds   what names a payload: nothing, the "key" that was sent, the   *)
(*           "account", or the "session" (a login no one returns to)       *)
(*   reads   the login is read "before" the lock is taken or "within" it   *)
(*   ends    a payload is refused once the period it reports has ended     *)
(*   gate    after a payload was refused the backoff is looked at again    *)
(*   spends  this program spends the refresh token: when the login falls   *)
(*           "due", when it is "refused", never                            *)
(*   expiry  a login known to have expired is not sent                     *)
(*   own     what only this vendor does                                    *)
(***************************************************************************)
Unbound == [binds |-> "nothing", reads |-> "before", ends |-> FALSE, gate |-> FALSE,
            spends |-> "never", expiry |-> FALSE, own |-> "nothing"]
Keyed == [Unbound EXCEPT !.binds = "key"]
Session == [Unbound EXCEPT !.binds = "session"]

(* Vendors whose payload names no login. *)
OpenRouter == Unbound
DeepSeek == Unbound
DeepInfra == Unbound
Novita == Unbound
Lyceum == Unbound
Custom == Unbound
Ollama == Unbound
Zai == Unbound
Kilo == Unbound      \* its target is the organisation the configuration names
Moonshot == Unbound  \* its target is the region and currency of the configuration
DeepRelay == [Unbound EXCEPT !.gate = TRUE]
Synthetic == [Unbound EXCEPT !.gate = TRUE]

(* Vendors whose payload names the key it was asked with. *)
Minimax == Keyed
OrcaRouter == Keyed
CommandCode == Keyed
OpencodeGo == Keyed
Copilot == Keyed
Grok == Keyed
AnthropicApi == [Keyed EXCEPT !.ends = TRUE, !.gate = TRUE]

(* Vendors that read the sign-in of another program. *)
ModelStudio == Session
Grokbot == [Session EXCEPT !.spends = "refused"]
Devin == [Keyed EXCEPT !.own = "binds the sidecars"]
Muse == [Session EXCEPT !.ends = TRUE, !.own = "keeps a ledger"]
Droid == [Unbound EXCEPT !.binds = "account", !.expiry = TRUE, !.own = "runs the CLI"]
Cline == [Unbound EXCEPT !.binds = "account", !.expiry = TRUE]
ClineKey == [Unbound EXCEPT !.binds = "account", !.own = "asks who"]
Kiro == [Unbound EXCEPT !.binds = "account", !.reads = "within", !.ends = TRUE,
                        !.gate = TRUE, !.spends = "due"]
Cursor == [Unbound EXCEPT !.binds = "account", !.reads = "within", !.ends = TRUE,
                          !.gate = TRUE, !.own = "has an agent"]
SuperGrok == [Session EXCEPT !.reads = "within", !.ends = TRUE, !.gate = TRUE,
                             !.own = "reads twice"]
NousResearch == [Session EXCEPT !.reads = "within", !.spends = "due",
                                !.own = "has no cache"]

Vendors == {OpenRouter, DeepSeek, DeepInfra, Novita, Lyceum, Custom, Ollama, Zai, Kilo,
            Moonshot, DeepRelay, Synthetic, Minimax, OrcaRouter, CommandCode, OpencodeGo,
            Copilot, Grok, AnthropicApi, ModelStudio, Grokbot, Devin, Muse, Droid, Cline,
            ClineKey, Kiro, Cursor, SuperGrok, NousResearch}

-----------------------------------------------------------------------------
VARIABLES
  vendor,  \* the vendor of this behaviour
  dir,     \* its cache directory
  whose,   \* the login the payload was asked with
  ended,   \* the period the payload reports has ended
  bound,   \* the login the sidecars were bound to (Devin)
  ledger,  \* each login's last attempt: the time left to the next, and its end
  login,   \* the login other programs hold, its refresh token, whether it is due
  pair,    \* the renewed pair this program keeps: whose it is
  newest,  \* the refresh token of each login that the server accepts
  used,    \* the logins there have been
  lock,    \* the process that holds the directory's lock
  pc,      \* where each process is
  cred,    \* the credential each process goes by
  retried, \* the processes that ask a second time
  out,     \* what the last fetch returned
  quiet,   \* history: the time during which nobody should ask for a login
  markOf,  \* history: the login whose failure the sidecars tell
  lost,    \* history: a rotated token was never written
  deaths   \* how many processes have died

vars == <<vendor, dir, whose, ended, bound, ledger, login, pair, newest, used, lock,
          pc, cred, retried, out, quiet, markOf, lost, deaths>>

cache == <<dir, whose, ended, bound, markOf>>
logins == <<login, used>>
tokens == <<pair, newest, lost>>
mine == <<retried, out>>

NoCred == [of |-> First, token |-> 0, due |-> FALSE, asks |-> First]
NoPair == [of |-> First, token |-> 0, due |-> FALSE, there |-> FALSE]

(***************************************************************************)
(* The two vendors that space their attempts by a note of their own.       *)
(***************************************************************************)
Paces == vendor.own \in {"keeps a ledger", "runs the CLI"}

Init ==
  /\ vendor \in Vendors
  /\ dir \in {EmptyDir, [PlainDir(Corrupt, 0) EXCEPT !.retry = Backoff]}
  /\ whose = First
  /\ ended = FALSE
  /\ bound = NoOne
  /\ ledger = [l \in Logins |-> [left |-> 0, ok |-> FALSE]]
  /\ login = [of |-> First, token |-> 0, due |-> FALSE]
  /\ pair = NoPair
  /\ newest = [l \in Logins |-> 0]
  /\ used = {First}
  /\ lock = NoOne
  /\ pc = [p \in Procs |-> "idle"]
  /\ cred = [p \in Procs |-> NoCred]
  /\ retried = {}
  /\ out = NoOutcome
  /\ quiet = [l \in Logins |-> IF Paces THEN 0 ELSE dir.retry]
  /\ markOf = First
  /\ lost = FALSE
  /\ deaths = 0

(***************************************************************************)
(* Every vendor is silent after a 429 until the backoff has run down or a  *)
(* payload was written; Muse after any attempt of the login, Droid after   *)
(* a run of its CLI.                                                       *)
(***************************************************************************)
Hushed == [l \in Logins |-> Backoff]
Unhushed == [l \in Logins |-> 0]

Goto(p, label) == pc' = [pc EXCEPT ![p] = label]

Finish(p, outcome) ==
  /\ Goto(p, "idle")
  /\ out' = outcome
  /\ cred' = [cred EXCEPT ![p] = NoCred]
  /\ retried' = retried \ {p}
  /\ lock' = IF lock = p THEN NoOne ELSE lock

-----------------------------------------------------------------------------
(* What a payload is checked against. *)

Named(l) == CASE vendor.binds = "nothing" -> First
              [] vendor.binds = "account" -> AccountOf[l]
              [] OTHER -> l

(***************************************************************************)
(* The vendor's parse_cache: the payload names this login, and its period  *)
(* is not over.  What it refuses counts as a payload that does not parse.  *)
(***************************************************************************)
Accepts(payload, l) ==
  /\ payload = Named(l)
  /\ vendor.ends => ~ended

Seen(d, l) == IF Accepts(d.payload, l) THEN d
              ELSE IF d.payload = NoPayload THEN d ELSE [d EXCEPT !.payload = Corrupt]

(***************************************************************************)
(* A sequence of file operations done in one step.  It works on each file  *)
(* once, so what is left of each depends on its own operation only.        *)
(***************************************************************************)
Apply(d, ops, code) ==
  LET did(op) == op \in ToSet(ops) IN
  [payload |-> IF did("rmPayload") THEN NoPayload ELSE d.payload,
   age     |-> IF did("rmPayload") THEN 0 ELSE d.age,
   stale   |-> did("setStale") \/ (d.stale /\ ~did("rmStale")),
   err     |-> IF did("setErr") THEN code ELSE IF did("rmErr") THEN NoError ELSE d.err,
   retry   |-> IF did("arm") THEN Backoff ELSE IF did("rmRetry") THEN 0 ELSE d.retry]

Recorded(d, code) == Apply(d, MarkStale \o WriteLastError(code), code)

-----------------------------------------------------------------------------
(* The end of a fetch that failed. *)

(***************************************************************************)
(* SuperGrok arms the backoff whatever there is to show, and records the   *)
(* failure only beside a figure that is shown.                             *)
(***************************************************************************)
FailBeside(p, code) ==
  LET armed == IF code = "limited" THEN Apply(dir, <<"arm">>, code) ELSE dir
      kept == IF code = "transport" THEN "local" ELSE code
      shown == Fallback(Seen(armed, cred[p].of), kept)
  IN  /\ dir' = IF shown.kind = "cached" THEN Recorded(armed, kept) ELSE armed
      /\ Finish(p, shown)

(***************************************************************************)
(* Everyone else: a failure of the transport leaves no trace, except that  *)
(* Muse records it too, any other is recorded first; then the last good    *)
(* payload, flagged, or the error.                                         *)
(***************************************************************************)
FailRecorded(p, code) ==
  LET kept == IF code # "transport" THEN code
              ELSE IF vendor.own = "keeps a ledger" THEN "local" ELSE NoError
      left == IF kept = NoError THEN dir ELSE Recorded(dir, kept)
  IN  /\ dir' = left
      /\ Finish(p, Fallback(Seen(left, cred[p].of), kept))

Fail(p, code) ==
  /\ CASE vendor.own = "reads twice" -> FailBeside(p, code)
       [] vendor.own = "has no cache" -> UNCHANGED dir /\ Finish(p, Failed)
       [] OTHER -> FailRecorded(p, code)
  /\ markOf' = IF vendor.own # "binds the sidecars" THEN First
               ELSE IF dir'.err # dir.err \/ dir'.stale # dir.stale \/ dir'.retry # dir.retry
               THEN cred[p].asks ELSE markOf
  /\ UNCHANGED <<whose, ended, bound>>

(***************************************************************************)
(* write_payload, which clears the sidecars; an answer that echoes the key *)
(* it was asked with is not written at all.                                *)
(***************************************************************************)
NotWritten == vendor.own = "nothing" /\ vendor.binds \in {"nothing", "key"} /\ UNCHANGED cache

Write(p, l) ==
  /\ dir' = Apply(Persist(dir, Named(l)), ClearMarkers, NoError)
  /\ whose' = IF vendor.binds = "nothing" THEN First ELSE cred[p].asks
  /\ ended' = FALSE
  /\ UNCHANGED <<bound, markOf>>

-----------------------------------------------------------------------------
(* The steps of a fetch. *)

Held == [of |-> login.of, token |-> login.token, due |-> login.due, asks |-> login.of]

Start(p) ==
  /\ pc[p] = "idle"
  /\ Goto(p, IF vendor.own = "runs the CLI" /\ login.due THEN "renew" ELSE "lock")
  /\ cred' = [cred EXCEPT ![p] = IF vendor.reads = "before" THEN Held ELSE NoCred]
  /\ out' = NoOutcome
  /\ UNCHANGED <<vendor, cache, ledger, logins, tokens, lock, retried, quiet, deaths>>

(***************************************************************************)
(* Droid: under the lock the login is read again; if it is still due and   *)
(* the last attempt is long enough ago, the time is noted and the CLI run. *)
(***************************************************************************)
Renew(p) ==
  /\ pc[p] = "renew"
  /\ lock = NoOne
  /\ IF login.due /\ ledger[First].left = 0
     THEN /\ ledger' = [ledger EXCEPT ![First].left = Backoff]
          /\ quiet' = Hushed
          /\ lock' = p
          /\ Goto(p, "cli")
          /\ UNCHANGED cred
     ELSE /\ cred' = [cred EXCEPT ![p] = Held]
          /\ Goto(p, "lock")
          /\ UNCHANGED <<ledger, lock, quiet>>
  /\ UNCHANGED <<vendor, cache, logins, tokens, mine, deaths>>

RenewTimesOut(p) ==
  /\ pc[p] \in {"renew", "lock"}
  /\ lock # NoOne
  /\ vendor.own # "has no cache"
  /\ Finish(p, Failed)
  /\ UNCHANGED <<vendor, cache, ledger, logins, tokens, quiet, deaths>>

(***************************************************************************)
(* The CLI renews its own login or does not; it is read again either way.  *)
(***************************************************************************)
CliRan(p) ==
  /\ pc[p] = "cli"
  /\ \E due \in {login.due, FALSE} : login' = [login EXCEPT !.due = due]
  /\ cred' = [cred EXCEPT ![p] = [Held EXCEPT !.due = login'.due]]
  /\ lock' = NoOne
  /\ Goto(p, "lock")
  /\ UNCHANGED <<vendor, cache, ledger, used, tokens, mine, quiet, deaths>>

(***************************************************************************)
(* Devin: the sidecars of another login go, and its payload; then the file *)
(* names this one.  A removal that fails ends the fetch there, or the read *)
(* of that file does, or its write when all else has gone.                 *)
(***************************************************************************)
Stays(l) == IF bound = NoOne THEN dir.payload = l ELSE bound = l

Sweep_PayloadOnly_Bug(l) == IF dir.payload \in {l, NoPayload} THEN <<>> ELSE <<"rmPayload">>

Sweep(l) ==
  IF Stays(l) /\ dir.payload \in {l, NoPayload, Corrupt} THEN <<>>
  ELSE IF dir.payload = l THEN ClearMarkers ELSE Forget

Bind(l) ==
  /\ dir' = Apply(dir, Sweep(l), NoError)
  /\ bound' = l
  /\ UNCHANGED <<whose, ended, markOf>>

TakeLock(p) ==
  /\ pc[p] = "lock"
  /\ lock = NoOne
  /\ lock' = p
  /\ IF vendor.reads = "before" THEN UNCHANGED cred
     ELSE \E of \in {login.of} \cup (IF vendor.own = "reads twice" THEN {NoOne} ELSE {}) :
            cred' = [cred EXCEPT ![p] = [Held EXCEPT !.of = of]]
  /\ IF vendor.own = "binds the sidecars" THEN Bind(cred[p].of) ELSE UNCHANGED cache
  /\ Goto(p, "look")
  /\ UNCHANGED <<vendor, ledger, logins, tokens, mine, quiet, deaths>>

BindFails(p) ==
  /\ pc[p] = "lock"
  /\ lock = NoOne
  /\ vendor.own = "binds the sidecars"
  /\ \E n \in 0 .. Len(Sweep(cred[p].of)) :
       dir' = Apply(dir, SubSeq(Sweep(cred[p].of), 1, n), NoError)
  /\ Finish(p, Failed)
  /\ UNCHANGED <<vendor, whose, ended, bound, markOf, ledger, logins, tokens, quiet,
                 deaths>>

-----------------------------------------------------------------------------
(* What is decided from the cache alone. *)

(***************************************************************************)
(* Cline with an API key: the payload tells whose the key is only if the   *)
(* payload was asked with it.                                              *)
(***************************************************************************)
KnowsWho(p) ==
  vendor.own = "asks who" => dir.payload \in Logins /\ whose = cred[p].of

Offered == FreshPayload(dir, Ttl)
Answers(p) == KnowsWho(p) /\ Accepts(Offered, cred[p].of)
Expired(p) == vendor.expiry /\ cred[p].due
MaySend(p) == Expired(p) => vendor.own = "runs the CLI"  \* due, perhaps not expired yet

Barred(p) ==
  Offered = Limited \/ (BackedOff(dir) /\ (vendor.gate \/ ~KnowsWho(p)))

Looks(p) == pc[p] = "look" /\ vendor.own # "keeps a ledger"

Serve(p) ==
  /\ Looks(p) /\ MaySend(p)
  /\ Answers(p)
  /\ Finish(p, CachedOutcome(dir, Offered, dir.age, FALSE))
  /\ UNCHANGED <<vendor, cache, ledger, logins, tokens, quiet, deaths>>

(***************************************************************************)
(* A login that has expired is not sent.                                   *)
(***************************************************************************)
NotSent(p) ==
  /\ Looks(p) /\ Expired(p)
  /\ Fail(p, IF vendor.own = "runs the CLI" THEN "local" ELSE "status")
  /\ UNCHANGED <<vendor, ledger, logins, tokens, quiet, deaths>>

HoldBack(p) ==
  /\ Looks(p) /\ MaySend(p)
  /\ ~Answers(p) /\ Barred(p)
  /\ Finish(p, Failed)
  /\ UNCHANGED <<vendor, cache, ledger, logins, tokens, quiet, deaths>>

(***************************************************************************)
(* The login to go by: the renewed pair this program kept for the account, *)
(* if it expires later.  Of one login's tokens the newer does; of two      *)
(* sign-ins, either.                                                       *)
(***************************************************************************)
PairOf(p) == [of |-> pair.of, token |-> pair.token, due |-> pair.due, asks |-> pair.of]

KeepsFor(p) == pair.there /\ Named(pair.of) = Named(cred[p].of)

Chosen(p) ==
  IF ~KeepsFor(p) THEN {cred[p]}
  ELSE IF pair.of # cred[p].of THEN {cred[p], PairOf(p)}
  ELSE IF pair.token > cred[p].token THEN {PairOf(p)} ELSE {cred[p]}

GoOn_NoGate_Bug(p) ==
  /\ Looks(p) /\ MaySend(p)
  /\ ~Answers(p) /\ Offered # Limited
  /\ \E c \in Chosen(p) :
       /\ cred' = [cred EXCEPT ![p] = c]
       /\ Goto(p, IF ~KnowsWho(p) THEN "who"
                  ELSE IF vendor.spends = "due" /\ c.due THEN "refresh" ELSE "ask")
       /\ lock' = IF vendor.own = "has no cache" /\ ~c.due THEN NoOne ELSE lock
  /\ UNCHANGED <<vendor, cache, ledger, logins, tokens, mine, quiet, deaths>>

GoOn(p) ==
  /\ Looks(p) /\ MaySend(p)
  /\ ~Answers(p) /\ ~Barred(p)
  /\ \E c \in Chosen(p) :
       /\ cred' = [cred EXCEPT ![p] = c]
       /\ Goto(p, IF ~KnowsWho(p) THEN "who"
                  ELSE IF vendor.spends = "due" /\ c.due THEN "refresh" ELSE "ask")
       /\ lock' = IF vendor.own = "has no cache" /\ ~c.due THEN NoOne ELSE lock
  /\ UNCHANGED <<vendor, cache, ledger, logins, tokens, mine, quiet, deaths>>

(***************************************************************************)
(* Muse: while the last attempt is recent its result is all there is; the  *)
(* next attempt is written down, as one that failed, before it is made.    *)
(***************************************************************************)
LookInLedger(p) ==
  /\ pc[p] = "look" /\ vendor.own = "keeps a ledger"
  /\ LET last == ledger[cred[p].of]
         seen == Seen(dir, cred[p].of)
     IN  IF last.left = 0
         THEN /\ ledger' = [ledger EXCEPT ![cred[p].of] = [left |-> Backoff, ok |-> FALSE]]
              /\ Goto(p, "ask")
              /\ UNCHANGED <<cred, mine, lock>>
         ELSE /\ IF last.ok /\ Accepts(dir.payload, cred[p].of)
                 THEN Finish(p, CachedOutcome(dir, dir.payload, dir.age, FALSE))
                 ELSE Finish(p, Fallback(seen, "local"))
              /\ UNCHANGED ledger
  /\ UNCHANGED <<vendor, cache, logins, tokens, quiet, deaths>>

-----------------------------------------------------------------------------
(* The requests. *)

(***************************************************************************)
(* Cline, a key whose account is not known: ask, and look again.           *)
(***************************************************************************)
AskWho(p) ==
  /\ pc[p] = "who"
  /\ \/ /\ IF Accepts(Offered, cred[p].of)
           THEN Finish(p, CachedOutcome(dir, Offered, dir.age, FALSE))
           ELSE Goto(p, "ask") /\ UNCHANGED <<cred, mine, lock>>
        /\ UNCHANGED <<cache, quiet>>
     \/ Finish(p, Failed) /\ UNCHANGED <<cache, quiet>>
     \/ \E code \in {"limited", "status"} :
          /\ dir' = Recorded(dir, code)
          /\ quiet' = IF code = "limited" THEN Hushed ELSE quiet
          /\ Finish(p, Failed)
          /\ UNCHANGED <<whose, ended, bound, markOf>>
  /\ UNCHANGED <<vendor, ledger, logins, tokens, deaths>>

(***************************************************************************)
(* The request goes out.  SuperGrok reads the login for it once more.      *)
(***************************************************************************)
Ask(p) ==
  /\ pc[p] = "ask"
  /\ cred' = IF vendor.own = "reads twice" THEN [cred EXCEPT ![p].asks = login.of] ELSE cred
  /\ quiet' = IF vendor.own = "keeps a ledger" THEN [quiet EXCEPT ![cred[p].of] = Backoff]
              ELSE quiet
  /\ Goto(p, "reply")
  /\ UNCHANGED <<vendor, cache, ledger, logins, tokens, lock, mine, deaths>>

ReplyOk(p) ==
  /\ pc[p] = "reply"
  /\ vendor.own # "reads twice"
  /\ IF vendor.own = "has no cache" THEN UNCHANGED cache
     ELSE Write(p, cred[p].of) \/ NotWritten
  /\ ledger' = IF vendor.own = "keeps a ledger"
               THEN [ledger EXCEPT ![cred[p].of].ok = TRUE] ELSE ledger
  /\ quiet' = IF Paces THEN quiet ELSE Unhushed
  /\ Finish(p, Fresh(Named(cred[p].of)))
  /\ UNCHANGED <<vendor, logins, tokens, deaths>>

ReplyUnchecked_Bug(p) ==
  /\ pc[p] = "reply"
  /\ vendor.own = "reads twice"
  /\ IF cred[p].of = NoOne THEN UNCHANGED <<cache, quiet>>
     ELSE Write(p, cred[p].of) /\ quiet' = Unhushed
  /\ Finish(p, Fresh(cred[p].asks))
  /\ UNCHANGED <<vendor, ledger, logins, tokens, deaths>>

(***************************************************************************)
(* SuperGrok: the payload is bound to the login only if the login is still *)
(* the one it was before the request; the answer is shown either way.      *)
(***************************************************************************)
ReplyChecked(p) ==
  /\ pc[p] = "reply"
  /\ vendor.own = "reads twice"
  /\ IF cred[p].of # login.of THEN UNCHANGED <<cache, quiet>>
     ELSE Write(p, cred[p].of) /\ quiet' = Unhushed
  /\ Finish(p, Fresh(cred[p].asks))
  /\ UNCHANGED <<vendor, ledger, logins, tokens, deaths>>

ReplyFails(p) ==
  /\ pc[p] = "reply"
  /\ \E code \in {"transport", "limited", "status", "local"} :
       /\ Fail(p, code)
       /\ quiet' = IF code = "limited" /\ ~Paces THEN Hushed ELSE quiet
  /\ UNCHANGED <<vendor, ledger, logins, tokens, deaths>>

(***************************************************************************)
(* Cursor: a token refused that says nothing of itself is tried once more  *)
(* as the login of its command line agent, and the figure is that login's. *)
(***************************************************************************)
AsAgent(p) ==
  /\ pc[p] = "reply"
  /\ vendor.own = "has an agent"
  /\ p \notin retried
  /\ \E l \in Logins : cred' = [cred EXCEPT ![p].of = l, ![p].asks = l]
  /\ retried' = retried \cup {p}
  /\ Goto(p, "ask")
  /\ UNCHANGED <<vendor, cache, ledger, logins, tokens, lock, out, quiet, deaths>>

(***************************************************************************)
(* Grok Bot: nothing says when its token dies; refused, it is renewed and  *)
(* the request made once more.                                             *)
(***************************************************************************)
RenewRefused(p) ==
  /\ pc[p] = "reply"
  /\ vendor.spends = "refused"
  /\ p \notin retried
  /\ retried' = retried \cup {p}
  /\ Goto(p, "refresh")
  /\ UNCHANGED <<vendor, cache, ledger, logins, tokens, cred, lock, out, quiet, deaths>>

-----------------------------------------------------------------------------
(* Renewing the login. *)

(***************************************************************************)
(* The server rotates the token, or its answer is lost, or it refuses.     *)
(***************************************************************************)
Refresh(p) ==
  /\ pc[p] = "refresh"
  /\ \/ /\ cred[p].token = newest[cred[p].of]
        /\ newest[cred[p].of] < MaxTokens
        /\ newest' = [newest EXCEPT ![cred[p].of] = @ + 1]
        /\ \/ /\ cred' = [cred EXCEPT ![p].token = @ + 1, ![p].due = FALSE]
              /\ Goto(p, "save")
              /\ UNCHANGED <<cache, mine, lock, lost>>
           \/ /\ lost' = TRUE
              /\ Fail(p, "transport")
     \/ /\ \E code \in {"transport", "local"} : Fail(p, code)
        /\ UNCHANGED <<newest, lost>>
  /\ UNCHANGED <<vendor, ledger, logins, pair, quiet, deaths>>

Kept_OldToken_Bug(c) == [of |-> c.of, token |-> c.token - 1, due |-> FALSE, there |-> TRUE]
Kept(c) == [of |-> c.of, token |-> c.token, due |-> FALSE, there |-> TRUE]

(***************************************************************************)
(* The new pair is on the disk before it is used: beside the cache, or for *)
(* Nous Research, whose login this program keeps, in the login's file.     *)
(***************************************************************************)
Save(p) ==
  /\ pc[p] = "save"
  /\ \/ /\ IF vendor.own = "has no cache"
           THEN login' = [of |-> cred[p].of, token |-> cred[p].token, due |-> FALSE]
                /\ lock' = NoOne /\ UNCHANGED pair
           ELSE pair' = Kept(cred[p]) /\ UNCHANGED <<login, lock>>
        /\ Goto(p, "ask")
        /\ UNCHANGED <<cache, cred, mine, lost>>
     \/ /\ lost' = TRUE
        /\ Fail(p, "local")
        /\ UNCHANGED <<pair, login>>
  /\ UNCHANGED <<vendor, ledger, used, newest, quiet, deaths>>

-----------------------------------------------------------------------------
(* The rest of the world. *)

(***************************************************************************)
(* The user signs in, or pastes another key, or one that was there before. *)
(* The sign-in of Nous Research takes the lock of the login's file.        *)
(***************************************************************************)
SignIn(l) ==
  /\ l # login.of
  /\ l \in used => vendor.binds \in {"nothing", "key"}
  /\ vendor.own = "has no cache" => lock = NoOne
  /\ login' = [of |-> l, token |-> 0, due |-> FALSE]
  /\ used' = used \cup {l}
  /\ UNCHANGED <<vendor, cache, ledger, tokens, lock, pc, cred, mine, quiet, deaths>>

(***************************************************************************)
(* The program that owns the login renews it, with the token it has.       *)
(***************************************************************************)
AppRenews ==
  /\ login.due
  /\ \/ vendor.expiry /\ login' = [login EXCEPT !.due = FALSE] /\ UNCHANGED newest
     \/ /\ vendor.spends = "due" /\ vendor.own # "has no cache"
        /\ login.token = newest[login.of]
        /\ login.token < MaxTokens
        /\ newest' = [newest EXCEPT ![login.of] = @ + 1]
        /\ login' = [login EXCEPT !.token = @ + 1, !.due = FALSE]
  /\ UNCHANGED <<vendor, cache, ledger, used, pair, lost, lock, pc, cred, mine, quiet, deaths>>

Lapse ==
  /\ \/ /\ ~login.due /\ (vendor.expiry \/ vendor.spends = "due")
        /\ login' = [login EXCEPT !.due = TRUE]
        /\ UNCHANGED pair
     \/ /\ pair.there /\ ~pair.due /\ vendor.spends = "due"
        /\ newest[pair.of] < MaxTokens  \* a due token that cannot rotate changes nothing
        /\ pair' = [pair EXCEPT !.due = TRUE]
        /\ UNCHANGED login
  /\ UNCHANGED <<vendor, cache, ledger, used, newest, lost, lock, pc, cred, mine, quiet, deaths>>

PeriodEnds ==
  /\ vendor.ends /\ ~ended
  /\ dir.payload \in Logins
  /\ ended' = TRUE
  /\ UNCHANGED <<vendor, dir, whose, bound, markOf, ledger, logins, tokens, lock, pc, cred,
                 mine, quiet, deaths>>

Less(n) == IF n = 0 THEN 0 ELSE n - 1

(***************************************************************************)
(* Sending takes no time.                                                  *)
(***************************************************************************)
Tick ==
  /\ \A p \in Procs : pc[p] # "ask"
  /\ dir' = Aged(dir)
  /\ ledger' = [l \in Logins |-> [ledger[l] EXCEPT !.left = Less(@)]]
  /\ quiet' = [l \in Logins |-> Less(quiet[l])]
  /\ UNCHANGED <<vendor, whose, ended, bound, markOf, logins, tokens, lock, pc, cred, mine,
                 deaths>>

(***************************************************************************)
(* A process that dies without the lock leaves nothing behind.             *)
(***************************************************************************)
Die(p) ==
  /\ lock = p
  /\ deaths < MaxDeaths
  /\ deaths' = deaths + 1
  /\ lost' = (lost \/ pc[p] = "save")
  /\ Finish(p, NoOutcome)
  /\ UNCHANGED <<vendor, cache, ledger, logins, pair, newest, quiet>>

Step(p) ==
  \/ Renew(p) \/ RenewTimesOut(p) \/ CliRan(p) \/ TakeLock(p) \/ BindFails(p)
  \/ Serve(p) \/ NotSent(p) \/ HoldBack(p) \/ GoOn(p) \/ LookInLedger(p)
  \/ AskWho(p) \/ Ask(p) \/ ReplyOk(p) \/ ReplyChecked(p) \/ ReplyFails(p)
  \/ AsAgent(p) \/ RenewRefused(p) \/ Refresh(p) \/ Save(p)

Next ==
  \/ \E p \in Procs : Start(p) \/ Step(p) \/ Die(p)
  \/ \E l \in Logins : SignIn(l)
  \/ AppRenews \/ Lapse \/ PeriodEnds \/ Tick

Spec == Init /\ [][Next]_vars

-----------------------------------------------------------------------------
(* Properties. *)

(***************************************************************************)
(* The shape of the directory, the login and each fetch.                   *)
(***************************************************************************)
Creds == [of : Logins \cup {NoOne}, token : 0 .. MaxTokens, due : BOOLEAN, asks : Logins]

TypeOK ==
  /\ vendor \in Vendors
  /\ dir \in Dirs
  /\ whose \in Logins /\ markOf \in Logins
  /\ bound \in Logins \cup {NoOne}
  /\ ledger \in [Logins -> [left : 0 .. Backoff, ok : BOOLEAN]]
  /\ login \in [of : Logins, token : 0 .. MaxTokens, due : BOOLEAN]
  /\ pair \in [of : Logins, token : 0 .. MaxTokens, due : BOOLEAN, there : BOOLEAN]
  /\ newest \in [Logins -> 0 .. MaxTokens]
  /\ used \subseteq Logins
  /\ lock \in Procs \cup {NoOne}
  /\ pc \in [Procs -> {"idle", "renew", "cli", "lock", "look", "who", "ask", "reply",
                       "refresh", "save"}]
  /\ cred \in [Procs -> Creds]
  /\ retried \subseteq Procs
  /\ out \in Outcomes
  /\ quiet \in [Logins -> 0 .. Backoff]
  /\ ended \in BOOLEAN /\ lost \in BOOLEAN
  /\ deaths \in 0 .. MaxDeaths

(***************************************************************************)
(* A payload that names a login or an account holds that one's figures,    *)
(* and a fetch shows the figures of the login it went by: whatever was     *)
(* signed in while it waited or its request was out, whichever login the   *)
(* request was finally made with, and on the way back from a failure too.  *)
(***************************************************************************)
Ends(p) == pc[p] # "idle" /\ pc'[p] = "idle"

FiguresAreItsOwn ==
  [][/\ dir'.payload \in Logins => dir'.payload = Named(whose')
     /\ \A p \in Procs : Ends(p) /\ out'.shows \in Logins =>
          out'.shows \in {Named(l) : l \in {cred[p].of, cred[p].asks} \cap Logins}]_vars

(***************************************************************************)
(* A vendor that looks at the backoff after refusing a payload sends no    *)
(* request while one is armed; and no two attempts that are to be spaced   *)
(* (a request of Muse, a run of the Droid CLI) follow each other closely,  *)
(* whoever makes them and whatever dies in between.                        *)
(***************************************************************************)
Asks(p) ==
  IF vendor.own = "runs the CLI" THEN pc[p] = "renew" /\ pc'[p] = "cli"
  ELSE \/ pc[p] = "ask" /\ pc'[p] = "reply"
       \/ pc[p] = "who" /\ pc'[p] # "who" /\ deaths' = deaths

AskedFor(p) == IF pc[p] = "ask" THEN cred'[p].asks ELSE cred[p].of

AsksInPeace == \A p \in Procs : Asks(p) => quiet[AskedFor(p)] = 0

NobodyAsksEarly ==
  [][vendor.gate \/ Paces \/ vendor.own = "asks who" => AsksInPeace]_vars

(***************************************************************************)
(* The refresh token the server accepts is in the login's file, in the     *)
(* pair this program keeps or in the hands of a fetch about to write it,   *)
(* unless an answer or a write was lost.                                   *)
(***************************************************************************)
RotatedIsKept ==
  \/ lost
  \/ newest[login.of] = login.token
  \/ pair.there /\ pair.of = login.of /\ pair.token = newest[login.of]
  \/ \E p \in Procs : /\ pc[p] = "save"
                      /\ cred[p].of = login.of /\ cred[p].token = newest[login.of]

(***************************************************************************)
(* Grok Bot reads the sign-in before it waits for the lock: the pair of a  *)
(* sign-in that is gone by then takes the place of a newer one's.          *)
(***************************************************************************)
TokenIsKept == vendor.reads = "within" \/ used = {First} => RotatedIsKept

(***************************************************************************)
(* Devin: once a fetch has bound the directory to its login, no marker,    *)
(* error or backoff there tells of another login's failure.                *)
(***************************************************************************)
MarkersAreOfTheLogin ==
  vendor.own = "binds the sidecars" =>
    \A p \in Procs : pc[p] \in {"look", "ask", "reply"} =>
      (dir.stale \/ dir.err # NoError \/ BackedOff(dir) => markOf = cred[p].of)
=============================================================================
