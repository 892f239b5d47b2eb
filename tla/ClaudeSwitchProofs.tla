--------------------------- MODULE ClaudeSwitchProofs ---------------------------
(***************************************************************************)
(* The safety of the switch of the `claude` login, for any number of       *)
(* accounts, processes, failing writes and crashes.  The refreshes of      *)
(* `claude` and of the fetches are kept from overlapping a switch          *)
(* (Rivals = {}): with an overlap the properties do not hold.              *)
(***************************************************************************)
EXTENDS ClaudeSwitch, SequenceTheorems, TLAPS

-----------------------------------------------------------------------------
(* The inductive invariant. *)

(***************************************************************************)
(* Only the holder of the lock is at work, and no fetch refreshes          *)
(* meanwhile.                                                              *)
(***************************************************************************)
LockInv ==
  /\ \A p \in Procs : pc[p] # "idle" <=> lock = p
  /\ lock = None \/ ref.pc = "idle"

(***************************************************************************)
(* No two accounts claim one identity.                                     *)
(***************************************************************************)
OwnersDiffer == \A a, b \in Accounts : own[a] = own[b] /\ own[a] # None => a = b

(***************************************************************************)
(* The slot holds the token the server accepts, or a fetch has it and is   *)
(* about to write it there.                                                *)
(***************************************************************************)
Current(slots, s) == Live(slots[s]) \/ (ref.pc = "granted" /\ ref.slot = s)

(***************************************************************************)
(* What one operation leaves and the next one finds: the slots, and the    *)
(* identity in the marker.                                                 *)
(*   - the marker is the default slot's, or the history says that a move   *)
(*     which was cut short put the two at odds;                            *)
(*   - a login is in two slots only after a move was cut short, in the     *)
(*     default slot and in that of the account which claims it;            *)
(*   - a named slot holds no other login than the one its account claims;  *)
(*   - a login that is owed has its latest token in a slot, unless a       *)
(*     rollback failed to put it back, and in the default slot if the      *)
(*     marker says that it is there.                                       *)
(***************************************************************************)
BlobsSound(slots) ==
  \A s \in Slots :
    /\ slots[s].id = None => slots[s] = Absent
    /\ slots[s].id # None => slots[s].rt <= issued[slots[s].id]

OneCopy(slots) ==
  \A s, t \in Slots :
    s # t /\ slots[s].id # None /\ slots[s].id = slots[t].id =>
      /\ cut
      /\ \/ s = "default" /\ own[t] = slots[t].id
         \/ t = "default" /\ own[s] = slots[s].id

Claimed(slots) ==
  \A a \in Accounts : slots[a].id # None /\ own[a] # None => slots[a].id = own[a]

KeptSomewhere(slots) ==
  \A i \in owed \ unrestored : \E s \in Slots : slots[s].id = i /\ Current(slots, s)

FreshDefault(slots) ==
  \A i \in owed :
    slots["default"].id = i /\ (\E s \in Slots : slots[s].id = i /\ Current(slots, s))
    => Current(slots, "default")

Good(slots, mark) ==
  /\ BlobsSound(slots)
  /\ slots["default"].id # None => mark = slots["default"].id \/ torn
  /\ OneCopy(slots)
  /\ Claimed(slots)
  /\ KeptSomewhere(slots)
  /\ slots["default"].id = mark => FreshDefault(slots)

(***************************************************************************)
(* A refresh is of a login which only the slot it was read from holds, or  *)
(* the default slot and its second copy, when it was read from there or    *)
(* the marker is at odds with the default slot.                            *)
(***************************************************************************)
RefInv ==
  ref.pc # "idle" =>
    /\ ref.cred.id # None /\ slot[ref.slot].id = ref.cred.id
    /\ ref.slot # "default" => slot["default"].id # ref.cred.id \/ marker # ref.cred.id
    /\ ref.pc = "granted" =>
         Live(ref.cred) /\ \A s \in Slots : slot[s].id = ref.cred.id => slot[s].rt < ref.cred.rt

(***************************************************************************)
(* What the rollback list puts back, and what it covers.                   *)
(***************************************************************************)
PutsBack(undo, before) ==
  \A k \in DOMAIN undo :
    IF undo[k].at = "marker" THEN undo[k].put.id = before.marker
    ELSE undo[k].put = before.slot[undo[k].at]

Covers(undo, at) == \E k \in DOMAIN undo : undo[k].at = at

Restorable(undo, before) ==
  /\ PutsBack(undo, before)
  /\ \A s \in Slots : slot[s] = before.slot[s] \/ Covers(undo, s)
  /\ marker = before.marker \/ Covers(undo, "marker")

(***************************************************************************)
(* The stages of the move: nothing written, the outgoing login captured,   *)
(* the target installed, the marker written.                               *)
(***************************************************************************)
Captured(j) ==
  IF j.active # None /\ j.before.slot["default"] # Absent
  THEN [j.before.slot EXCEPT ![j.active] = j.before.slot["default"]]
  ELSE j.before.slot

Installed(j) == [Captured(j) EXCEPT !["default"] = j.before.slot[j.label]]

LastPut(j) == Put(j.label, Absent)
MarkerPut(j) == Put("marker", [id |-> own[j.label], rt |-> 0])
DefaultPut(j) == Put("default", j.before.slot[j.label])
CapturePut(j) == Put(j.active, j.before.slot["default"])

Stage(j) ==
  \/ /\ j.plan = <<CapturePut(j), DefaultPut(j), MarkerPut(j), LastPut(j)>>
     /\ j.active # None /\ j.before.slot["default"] # Absent
     /\ slot = j.before.slot /\ marker = j.before.marker
  \/ /\ j.plan = <<DefaultPut(j), MarkerPut(j), LastPut(j)>>
     /\ slot = Captured(j) /\ marker = j.before.marker
  \/ /\ j.plan = <<MarkerPut(j), LastPut(j)>>
     /\ slot = Installed(j) /\ marker = j.before.marker
     /\ j.active = None => j.before.slot["default"].id \notin owed
  \/ /\ j.plan = <<LastPut(j)>>
     /\ slot = Installed(j) /\ marker = own[j.label]
     /\ j.active = None => j.before.slot["default"].id \notin owed

(***************************************************************************)
(* What the refusals of ReadSlots leave: the target is signed in and       *)
(* claimed, and it is not the live login; a live login is claimed by the   *)
(* active account or the move was forced.                                  *)
(***************************************************************************)
ActiveIs(a, mark) ==
  /\ a # None => own[a] = mark /\ mark # None
  /\ a = None => mark = None \/ \A b \in Accounts : own[b] # mark

MoveReady(j) ==
  /\ ActiveIs(j.active, j.before.marker)
  /\ own[j.label] # None /\ j.before.slot[j.label].id # None
  /\ j.before.slot["default"].id # None =>
       /\ j.active # j.label
       /\ j.active = None => j.force

UndoReady(j) ==
  /\ PutsBack(j.undo, j.before)
  /\ \A at \in {"default", "marker", j.label} \cup ({j.active} \ {None}) : Covers(j.undo, at)

MoveOk(j) == MoveReady(j) /\ UndoReady(j) /\ Stage(j)

DropOk(j) ==
  /\ j.active = j.label
  /\ ActiveIs(j.active, j.before.marker)
  /\ j.before.slot["default"].id # None
  /\ j.plan = <<LastPut(j)>> /\ j.undo = <<>>
  /\ slot = j.before.slot /\ marker = j.before.marker

(***************************************************************************)
(* The rollback: each slot holds what it held at the start or what the     *)
(* move put there, and one that is passed over holds the former or its     *)
(* login is among those not put back.                                      *)
(***************************************************************************)
Captures(j) == j.active # None /\ j.before.slot["default"].id # None

Mixed(j, slots) ==
  /\ slots["default"] \in {j.before.slot["default"], j.before.slot[j.label]}
  /\ \A a \in Accounts :
       \/ slots[a] = j.before.slot[a]
       \/ a = j.label /\ slots[a] = Absent
       \/ a = j.active /\ Captures(j) /\ slots[a] = j.before.slot["default"]

PutBack(undo, before, slots, missing) ==
  \A s \in Slots :
    slots[s] = before.slot[s] \/ Covers(undo, s) \/ before.slot[s].id \in missing \cup {None}

RollBackOk(j) ==
  /\ MoveReady(j) /\ PutsBack(j.undo, j.before) /\ Mixed(j, slot)
  /\ PutBack(j.undo, j.before, slot, unrestored)
  /\ j.active = None => j.before.slot["default"].id \notin owed
  /\ faults > j.before.faults
  /\ faults = j.before.faults + 1 => Restorable(j.undo, j.before)
  /\ faults # j.before.faults + 1 => cut

WorkOk(p) ==
  /\ pc[p] \in {"switch", "read", "adopt"} =>
       slot = job[p].before.slot /\ marker = job[p].before.marker
  /\ pc[p] \in {"switch", "read", "write"} => faults = job[p].before.faults
  /\ pc[p] = "read" => ActiveIs(job[p].active, marker)
  /\ pc[p] = "write" => MoveOk(job[p]) \/ DropOk(job[p])
  /\ pc[p] = "undo" => RollBackOk(job[p])

WorkInv == \A p \in Procs : WorkOk(p)

(***************************************************************************)
(* The marker which told the active account was right.                     *)
(***************************************************************************)
Trusted(j) == Captures(j) => j.before.marker = j.before.slot["default"].id

FoundGood(p) ==
  /\ pc[p] # "idle" => Good(job[p].before.slot, job[p].before.marker)
  /\ pc[p] \in {"write", "undo"} => Trusted(job[p])

(***************************************************************************)
(* The types, and lists that are not empty while they are gone through.    *)
(***************************************************************************)
TypeInv ==
  /\ TypeOK
  /\ \A p \in Procs :
       /\ pc[p] # "idle" => job[p] \in Switches
       /\ pc[p] = "write" => job[p].plan # <<>>
       /\ pc[p] = "undo" => job[p].undo # <<>>

Whole ==
  /\ lock = None => Good(slot, marker)
  /\ RefInv
  /\ \A p \in Procs : FoundGood(p)

(***************************************************************************)
(* How an operation works does not depend on what it found; what it leaves *)
(* is good as long as no switch was misled.                                *)
(***************************************************************************)
Inv ==
  /\ TypeInv
  /\ LockInv
  /\ OwnersDiffer
  /\ WorkInv
  /\ ~misled => Whole

-----------------------------------------------------------------------------
(* Types. *)

LEMMA Names ==
  /\ None \notin Ids /\ None \notin Slots
  /\ "default" \in Slots /\ "marker" \notin Slots /\ "default" \notin Accounts
  /\ Accounts \subseteq Ids /\ Accounts \subseteq Slots /\ None \notin Procs
  /\ MaxTokens \in Nat /\ MaxTokens >= 1
BY SwitchAssumption DEF Ids, Slots

LEMMA BlobFields ==
  /\ Absent \in Blobs /\ Absent.id = None /\ Absent.rt = 0
  /\ \A b \in Blobs : b.id \in Ids \cup {None} /\ b.rt \in 0 .. MaxTokens
  /\ \A b, c \in Blobs : b.id = c.id /\ b.rt = c.rt => b = c
  /\ \A b \in Blobs : b.id = None <=> b = Absent
  /\ \A i \in Ids, r \in 1 .. MaxTokens : [id |-> i, rt |-> r] \in Blobs
BY Names DEF Blobs, Absent

LEMMA RotatedFields ==
  ASSUME TypeOK, NEW b \in Blobs, CanRotate(b)
  PROVE  /\ b.id \in Ids /\ b.rt = issued[b.id] /\ issued[b.id] + 1 \in 1 .. MaxTokens
         /\ Rotated(b) \in Blobs /\ Rotated(b).id = b.id /\ Rotated(b).rt = issued[b.id] + 1
BY Names, BlobFields DEF TypeOK, CanRotate, Live, Rotated, Blobs

LEMMA PutFields ==
  /\ \A at \in Slots, blob \in Blobs : Put(at, blob) \in Writes
  /\ \A i \in Ids \cup {None} : Put("marker", [id |-> i, rt |-> 0]) \in Writes
BY DEF Put, Writes

LEMMA WriteFields ==
  ASSUME NEW w \in Writes
  PROVE  /\ w.at \in Slots \cup {"marker"} /\ w.put.id \in Ids \cup {None}
         /\ w.at # "marker" => w.at \in Slots /\ w.put \in Blobs
BY Names, BlobFields DEF Writes

LEMMA JobFields ==
  ASSUME NEW j \in Switches
  PROVE  /\ j.kind \in {"switch", "adopt"} /\ j.label \in Accounts
         /\ j.active \in Accounts \cup {None} /\ j.force \in BOOLEAN
         /\ j.plan \in Seq(Writes) /\ j.undo \in Seq(Writes)
         /\ j.before.slot \in [Slots -> Blobs] /\ j.before.marker \in Ids \cup {None}
         /\ j.before.faults \in 0 .. MaxFaults
BY DEF Switches

(***************************************************************************)
(* The updates of a job: its plan, its rollback list, its active account.  *)
(***************************************************************************)
LEMMA JobUpdates ==
  ASSUME NEW j \in Switches
  PROVE  /\ \A s \in Seq(Writes) :
              /\ [j EXCEPT !.plan = s] \in Switches
              /\ [j EXCEPT !.plan = s].plan = s
              /\ [j EXCEPT !.plan = s].undo = j.undo
              /\ [j EXCEPT !.plan = s].label = j.label
              /\ [j EXCEPT !.plan = s].active = j.active
              /\ [j EXCEPT !.plan = s].force = j.force
              /\ [j EXCEPT !.plan = s].before = j.before
         /\ \A s \in Seq(Writes) :
              /\ [j EXCEPT !.undo = s] \in Switches
              /\ [j EXCEPT !.undo = s].undo = s
              /\ [j EXCEPT !.undo = s].label = j.label
              /\ [j EXCEPT !.undo = s].active = j.active
              /\ [j EXCEPT !.undo = s].force = j.force
              /\ [j EXCEPT !.undo = s].before = j.before
         /\ \A a \in Accounts \cup {None} :
              /\ [j EXCEPT !.active = a] \in Switches
              /\ [j EXCEPT !.active = a].active = a
              /\ [j EXCEPT !.active = a].before = j.before
         /\ \A s, t \in Seq(Writes) : Planned(j, s, t) \in Switches
BY DEF Switches, Planned

LEMMA PlannedFields ==
  ASSUME NEW j, NEW s, NEW t
  PROVE  /\ Planned(j, s, t).plan = s /\ Planned(j, s, t).undo = t
         /\ Planned(j, s, t).label = j.label /\ Planned(j, s, t).active = j.active
         /\ Planned(j, s, t).force = j.force /\ Planned(j, s, t).before = j.before
BY DEF Planned

LEMMA ActiveLabelType == ActiveLabel \in Accounts \cup {None}
BY DEF ActiveLabel

LEMMA ApplyType ==
  ASSUME slot \in [Slots -> Blobs], marker \in Ids \cup {None}, NEW w \in Writes, Apply(w)
  PROVE  slot' \in [Slots -> Blobs] /\ marker' \in Ids \cup {None}
BY WriteFields, BlobFields DEF Apply

LEMMA FaultDoes ==
  ASSUME slot \in [Slots -> Blobs], marker \in Ids \cup {None}, faults \in 0 .. MaxFaults,
         NEW w \in Writes, Fault(w)
  PROVE  /\ slot' \in [Slots -> Blobs] /\ marker' \in Ids \cup {None}
         /\ faults' \in 0 .. MaxFaults
         /\ (w.at # "marker" /\ Apply(w)) \/ UNCHANGED <<slot, marker>>
BY ApplyType, SwitchAssumption DEF Fault

LEMMA MissingType ==
  /\ \A slots : \A puts \in Seq(Writes) : Missing(puts, slots) \subseteq Ids
  /\ \A slots : \A w \in Writes : Missing(<<w>>, slots) =
       IF w.at # "marker" /\ w.put.id # None /\ slots[w.at] # w.put THEN {w.put.id} ELSE {}
  /\ \A ids, slots : Lost(ids, slots) \subseteq ids
<1>1. ASSUME NEW puts \in Seq(Writes), NEW slots PROVE Missing(puts, slots) \subseteq Ids
  <2>1. \A k \in DOMAIN puts : puts[k] \in Writes
    OBVIOUS
  <2> QED BY <2>1, WriteFields DEF Missing
<1>2. ASSUME NEW w \in Writes, NEW slots
      PROVE  Missing(<<w>>, slots) =
               IF w.at # "marker" /\ w.put.id # None /\ slots[w.at] # w.put
               THEN {w.put.id} ELSE {}
  <2>1. DOMAIN <<w>> = {1} /\ <<w>>[1] = w
    OBVIOUS
  <2> QED BY <2>1 DEF Missing
<1> QED BY <1>1, <1>2 DEF Lost

LEMMA ListStep ==
  ASSUME NEW s \in Seq(Writes), s # <<>>
  PROVE  /\ Head(s) \in Writes /\ Tail(s) \in Seq(Writes)
         /\ Len(s) # 1 => Tail(s) # <<>>
         /\ DOMAIN s = 1 .. Len(s) /\ Len(s) >= 1
         /\ DOMAIN Tail(s) = 1 .. Len(s) - 1
         /\ \A k \in DOMAIN Tail(s) : k + 1 \in DOMAIN s /\ Tail(s)[k] = s[k + 1]
         /\ \A k \in DOMAIN s : k = 1 \/ k - 1 \in DOMAIN Tail(s)
         /\ s[1] = Head(s) /\ 1 \in DOMAIN s
<1>1. Len(s) \in Nat /\ Len(s) >= 1 /\ DOMAIN s = 1 .. Len(s)
  OBVIOUS
<1>2. Head(s) \in Writes /\ Head(s) = s[1]
  BY <1>1
<1>3. Tail(s) \in Seq(Writes) /\ Len(Tail(s)) = Len(s) - 1
  BY <1>1
<1>4. DOMAIN Tail(s) = 1 .. Len(s) - 1
  BY <1>1, <1>3
<1>5. \A k \in 1 .. Len(s) - 1 : Tail(s)[k] = s[k + 1]
  BY <1>1
<1>6. Len(s) # 1 => Tail(s) # <<>>
  <2>1. \A t \in Seq(Writes) : t = <<>> => Len(t) = 0
    OBVIOUS
  <2> QED BY <1>1, <1>3, <2>1
<1> QED BY <1>1, <1>2, <1>3, <1>4, <1>5, <1>6

LEMMA TypeInit == Init => TypeInv
<1> SUFFICES ASSUME Init PROVE TypeInv
  OBVIOUS
<1> USE Names, BlobFields
<1>1. slot \in [Slots -> Blobs]
  <2>1. [id |-> None, rt |-> 0] = Absent
    BY DEF Absent
  <2>2. \A i \in Ids : [id |-> i, rt |-> 1] \in Blobs
    OBVIOUS
  <2> QED BY <2>1, <2>2 DEF Init
<1>2. marker \in Ids \cup {None}
  BY DEF Init
<1>3. own \in [Accounts -> Ids \cup {None}]
  BY DEF Init
<1>4. ref \in [pc : {"idle", "read", "granted"}, slot : Slots, cred : Blobs]
  BY DEF Init, NoRefresh
<1>5. /\ issued \in [Ids -> 1 .. MaxTokens] /\ lock \in Procs \cup {None}
      /\ faults \in 0 .. MaxFaults /\ owed \subseteq Ids /\ unrestored \subseteq Ids
      /\ cut \in BOOLEAN /\ torn \in BOOLEAN /\ misled \in BOOLEAN
  <2>1. issued = [i \in Ids |-> 1] /\ lock = None /\ faults = 0 /\ unrestored = {}
        /\ cut = FALSE /\ torn = FALSE /\ misled = FALSE
    BY DEF Init
  <2>2. owed \subseteq Ids
    BY DEF Init
  <2>3. 1 \in 1 .. MaxTokens /\ 0 \in 0 .. MaxFaults
    BY SwitchAssumption
  <2> HIDE Names, BlobFields
  <2> QED BY <2>1, <2>2, <2>3
<1>6. /\ pc \in [Procs -> {"idle", "switch", "read", "write", "undo", "adopt"}]
      /\ job \in [Procs -> Switches \cup {NoJob}] /\ \A p \in Procs : pc[p] = "idle"
  BY DEF Init
<1> QED BY <1>1, <1>2, <1>3, <1>4, <1>5, <1>6 DEF TypeInv, TypeOK

(***************************************************************************)
(* What a step does to the process that takes it, and to nobody else.      *)
(***************************************************************************)
LEMMA ReturnDoes ==
  ASSUME TypeOK, NEW p \in Procs, Return(p)
  PROVE  /\ pc' \in [Procs -> {"idle", "switch", "read", "write", "undo", "adopt"}]
         /\ job' \in [Procs -> Switches \cup {NoJob}]
         /\ lock' \in Procs \cup {None}
         /\ pc'[p] = "idle"
         /\ \A q \in Procs \ {p} : pc'[q] = pc[q] /\ job'[q] = job[q]
         /\ lock = p => lock' = None
         /\ lock # p => lock' = lock
BY DEF TypeOK, Return, Goto

LEMMA GotoDoes ==
  ASSUME TypeOK, NEW p \in Procs, NEW label \in {"switch", "read", "write", "undo", "adopt"},
         Goto(p, label)
  PROVE  /\ pc' \in [Procs -> {"idle", "switch", "read", "write", "undo", "adopt"}]
         /\ pc'[p] = label
         /\ \A q \in Procs \ {p} : pc'[q] = pc[q]
BY DEF TypeOK, Goto

LEMMA JobDoes ==
  ASSUME TypeOK, NEW p \in Procs, NEW j \in Switches, job' = [job EXCEPT ![p] = j]
  PROVE  /\ job' \in [Procs -> Switches \cup {NoJob}]
         /\ job'[p] = j
         /\ \A q \in Procs \ {p} : job'[q] = job[q]
BY DEF TypeOK

(***************************************************************************)
(* Every step leaves the store, the refresh and the jobs what they are.    *)
(***************************************************************************)
LEMMA PlanTypes ==
  ASSUME TypeOK, NEW j \in Switches
  PROVE  /\ <<Put(j.label, Absent)>> \in Seq(Writes) /\ <<>> \in Seq(Writes)
         /\ Plan(j) \in Seq(Writes) /\ Undo(j) \in Seq(Writes)
         /\ Plan(j) # <<>> /\ <<Put(j.label, Absent)>> # <<>>
<1> USE Names, BlobFields, JobFields
<1>1. /\ j.label \in Slots /\ slot[j.label] \in Blobs
      /\ "default" \in Slots /\ slot["default"] \in Blobs
      /\ j.active # None => j.active \in Slots /\ slot[j.active] \in Blobs
  BY DEF TypeOK
<1>2. own[j.label] \in Ids \cup {None} /\ marker \in Ids \cup {None}
  BY DEF TypeOK
<1>3. \A at \in Slots, b \in Blobs : Put(at, b) \in Writes
  BY PutFields
<1>4. \A i \in Ids \cup {None} : Put("marker", [id |-> i, rt |-> 0]) \in Writes
  BY PutFields
<1> HIDE Names, BlobFields, JobFields
<1>5. Put(j.label, Absent) \in Writes
  BY <1>1, <1>3, BlobFields
<1> DEFINE capture == IF j.active # None /\ slot["default"] # Absent
                      THEN <<Put(j.active, slot["default"])>> ELSE <<>>
           rest == <<Put("default", slot[j.label]),
                     Put("marker", [id |-> own[j.label], rt |-> 0]), Put(j.label, Absent)>>
           both == <<Put("default", slot["default"]), Put(j.label, slot[j.label])>>
           third == IF j.active # None THEN <<Put(j.active, slot[j.active])>> ELSE <<>>
           last == <<Put("marker", [id |-> marker, rt |-> 0])>>
<1>6. capture \in Seq(Writes) /\ rest \in Seq(Writes) /\ Len(rest) = 3
  BY <1>1, <1>2, <1>3, <1>4, <1>5
<1>7. both \in Seq(Writes) /\ third \in Seq(Writes) /\ last \in Seq(Writes)
  BY <1>1, <1>2, <1>3, <1>4, <1>5
<1>8. Plan(j) = capture \o rest /\ Undo(j) = (both \o third) \o last
  BY DEF Plan, Undo
<1> HIDE DEF capture, rest, both, third, last
<1>9. Plan(j) \in Seq(Writes) /\ Len(Plan(j)) = Len(capture) + Len(rest) /\ Len(capture) \in Nat
  <2>1. \A s, t \in Seq(Writes) :
          s \o t \in Seq(Writes) /\ Len(s \o t) = Len(s) + Len(t) /\ Len(s) \in Nat
    OBVIOUS
  <2> QED BY <1>6, <1>8, <2>1
<1>10. Undo(j) \in Seq(Writes)
  BY <1>7, <1>8
<1>11. \A t \in Seq(Writes) : t = <<>> => Len(t) = 0
  OBVIOUS
<1>12. <<Put(j.label, Absent)>> \in Seq(Writes) /\ <<>> \in Seq(Writes)
  BY <1>5
<1> QED BY <1>6, <1>9, <1>10, <1>11, <1>12

LEMMA SwitchStepsType ==
  ASSUME TypeInv, NEW p \in Procs,
         Begin(p) \/ Identify(p) \/ ReadSlots(p) \/ AdoptCurrent(p) \/ Crash(p)
  PROVE  TypeInv'
<1> USE DEF TypeInv
<1>1. ASSUME Return(p), slot' = slot, marker' = marker, own' \in [Accounts -> Ids \cup {None}],
             issued' = issued, ref' = ref, faults' \in 0 .. MaxFaults, owed' = owed,
             unrestored' \subseteq Ids,
             cut' \in BOOLEAN, torn' \in BOOLEAN, misled' \in BOOLEAN
      PROVE  TypeInv'
  <2>1. TypeOK'
    BY <1>1, ReturnDoes DEF TypeOK
  <2> QED BY <1>1, <2>1, ReturnDoes
<1>2. ASSUME NEW label \in {"switch", "read", "write", "undo", "adopt"}, NEW j \in Switches,
             Goto(p, label), job' = [job EXCEPT ![p] = j],
             lock' \in Procs \cup {None}, misled' \in BOOLEAN,
             UNCHANGED <<disk, issued, ref, faults, owed, cut, torn, unrestored>>,
             label = "write" => j.plan # <<>>, label # "undo"
      PROVE  TypeInv'
  <2>1. pc' \in [Procs -> {"idle", "switch", "read", "write", "undo", "adopt"}] /\ pc'[p] = label
        /\ \A q \in Procs \ {p} : pc'[q] = pc[q]
    BY <1>2, GotoDoes
  <2>2. job' \in [Procs -> Switches \cup {NoJob}] /\ job'[p] = j
        /\ \A q \in Procs \ {p} : job'[q] = job[q]
    BY <1>2, JobDoes
  <2>3. TypeOK'
    BY <1>2, <2>1, <2>2 DEF TypeOK, disk
  <2> QED BY <1>2, <2>1, <2>2, <2>3
<1>3. CASE Begin(p)
  <2>1. PICK kind \in {"switch", "adopt"}, label \in Accounts, force \in BOOLEAN, dry \in BOOLEAN :
          /\ job' = [job EXCEPT ![p] =
               [kind |-> kind, label |-> label, force |-> force, dry |-> dry,
                active |-> None, plan |-> <<>>, undo |-> <<>>,
                before |-> [slot |-> slot, marker |-> marker, faults |-> faults]]]
          /\ Goto(p, kind)
    BY <1>3 DEF Begin
  <2> DEFINE j == [kind |-> kind, label |-> label, force |-> force, dry |-> dry,
                   active |-> None, plan |-> <<>>, undo |-> <<>>,
                   before |-> [slot |-> slot, marker |-> marker, faults |-> faults]]
  <2>2. j \in Switches
    BY DEF Switches, TypeOK
  <2> HIDE DEF j
  <2>3. job' = [job EXCEPT ![p] = j]
    BY <2>1 DEF j
  <2>4. /\ lock' = p /\ misled' \in BOOLEAN
        /\ UNCHANGED <<disk, issued, ref, faults, owed, cut, torn, unrestored>>
    BY <1>3 DEF Begin, history, TypeOK
  <2> QED BY <1>2, <2>1, <2>2, <2>3, <2>4
<1>4. CASE Identify(p)
  <2>1. job[p] \in Switches
    BY <1>4 DEF Identify
  <2>2. [job[p] EXCEPT !.active = ActiveLabel] \in Switches
    BY <2>1, JobUpdates, ActiveLabelType
  <2>3. job' = [job EXCEPT ![p] = [job[p] EXCEPT !.active = ActiveLabel]]
    BY <1>4 DEF Identify, TypeOK
  <2>4. /\ lock' \in Procs \cup {None} /\ misled' \in BOOLEAN
        /\ UNCHANGED <<disk, issued, ref, faults, owed, cut, torn, unrestored>>
    BY <1>4 DEF Identify, history, TypeOK
  <2> QED BY <1>2, <1>4, <2>2, <2>3, <2>4 DEF Identify
<1>5. CASE ReadSlots(p)
  <2>1. job[p] \in Switches
    BY <1>5 DEF ReadSlots
  <2>2. CASE Return(p)
    <3>1. misled' \in BOOLEAN
      BY <1>5 DEF ReadSlots, TypeOK
    <3> QED BY <1>1, <1>5, <2>2, <3>1 DEF ReadSlots, disk, TypeOK
  <2>3. CASE ~Return(p)
    <3>1. PICK j \in {Planned(job[p], <<Put(job[p].label, Absent)>>, <<>>),
                      Planned(job[p], Plan(job[p]), Undo(job[p]))} :
            job' = [job EXCEPT ![p] = j]
      BY <1>5, <2>3 DEF ReadSlots
    <3>2. j \in Switches /\ j.plan # <<>>
      <4>1. \A t, u \in Seq(Writes) :
              t # <<>> => Planned(job[p], t, u) \in Switches /\ Planned(job[p], t, u).plan # <<>>
        BY <2>1, JobUpdates, PlannedFields
      <4>2. /\ <<Put(job[p].label, Absent)>> \in Seq(Writes) /\ <<>> \in Seq(Writes)
            /\ Plan(job[p]) \in Seq(Writes) /\ Undo(job[p]) \in Seq(Writes)
            /\ Plan(job[p]) # <<>> /\ <<Put(job[p].label, Absent)>> # <<>>
        BY <2>1, PlanTypes
      <4> QED BY <3>1, <4>1, <4>2
    <3>3. Goto(p, "write") /\ lock' \in Procs \cup {None} /\ misled' \in BOOLEAN
      BY <1>5, <2>3 DEF ReadSlots, TypeOK
    <3> QED BY <1>2, <1>5, <3>1, <3>2, <3>3 DEF ReadSlots
  <2> QED BY <2>2, <2>3
<1>6. CASE AdoptCurrent(p)
  <2>1. own' \in [Accounts -> Ids \cup {None}]
    BY <1>6 DEF AdoptCurrent, TypeOK
  <2> QED BY <1>1, <1>6, <2>1 DEF AdoptCurrent, history, TypeOK
<1>7. CASE Crash(p)
  <2>1. job[p].undo \in Seq(Writes)
    <3>1. job[p] \in Switches
      BY <1>7 DEF Crash
    <3> QED BY <3>1, JobFields
  <2>2. unrestored' \subseteq Ids
    BY <1>7, <2>1, MissingType DEF Crash, TypeOK
  <2>3. faults' \in 0 .. MaxFaults
    BY <1>7, SwitchAssumption DEF Crash, TypeOK
  <2>4. cut' \in BOOLEAN /\ torn' \in BOOLEAN
    BY <1>7 DEF Crash, TypeOK
  <2> QED BY <1>1, <1>7, <2>2, <2>3, <2>4 DEF Crash, disk, TypeOK
<1> QED BY <1>3, <1>4, <1>5, <1>6, <1>7

LEMMA WriteStepsType ==
  ASSUME TypeInv, NEW p \in Procs, Write(p) \/ RollBack(p)
  PROVE  TypeInv'
<1> USE DEF TypeInv
<1> DEFINE Moved == /\ slot' \in [Slots -> Blobs] /\ marker' \in Ids \cup {None}
                    /\ own' = own /\ issued' = issued /\ ref' = ref
                    /\ faults' \in 0 .. MaxFaults /\ owed' \subseteq Ids
                    /\ unrestored' \subseteq Ids
                    /\ cut' \in BOOLEAN /\ torn' \in BOOLEAN /\ misled' \in BOOLEAN
<1>1. ASSUME Moved, Return(p) PROVE TypeInv'
  <2>1. TypeOK'
    BY <1>1, ReturnDoes DEF TypeOK
  <2> QED BY <1>1, <2>1, ReturnDoes
<1>2. ASSUME Moved, UNCHANGED <<lock, pc>>, NEW j \in Switches, job' = [job EXCEPT ![p] = j],
             pc[p] = "write" => j.plan # <<>>, pc[p] = "undo" => j.undo # <<>>
      PROVE  TypeInv'
  <2>1. job' \in [Procs -> Switches \cup {NoJob}] /\ job'[p] = j
        /\ \A q \in Procs \ {p} : job'[q] = job[q]
    BY <1>2, JobDoes
  <2>2. TypeOK'
    BY <1>2, <2>1 DEF TypeOK
  <2> QED BY <1>2, <2>1, <2>2
<1>3. CASE Write(p)
  <2>1. pc[p] = "write" /\ job[p] \in Switches /\ job[p].plan \in Seq(Writes)
        /\ job[p].plan # <<>>
    BY <1>3, JobFields DEF Write
  <2>2. PICK w \in Writes : w = Head(job[p].plan)
    BY <2>1, ListStep
  <2>3. Moved
    <3>1. (Apply(w) /\ UNCHANGED faults) \/ Fault(w)
      BY <1>3, <2>2 DEF Write
    <3>2. /\ slot' \in [Slots -> Blobs] /\ marker' \in Ids \cup {None}
          /\ faults' \in 0 .. MaxFaults
      BY <3>1, ApplyType, FaultDoes DEF TypeOK
    <3>3. torn' \in BOOLEAN
      BY <1>3 DEF Write, TypeOK
    <3> QED BY <1>3, <3>2, <3>3 DEF Write, TypeOK
  <2> HIDE DEF Moved
  <2>4. CASE Return(p)
    BY <1>1, <2>3, <2>4
  <2>5. CASE Len(job[p].plan) # 1 /\ job' = [job EXCEPT ![p].plan = Tail(@)]
             /\ UNCHANGED <<lock, pc>>
    <3>1. PICK t \in Seq(Writes) : t = Tail(job[p].plan) /\ t # <<>>
      BY <2>1, <2>5, ListStep
    <3>2. [job[p] EXCEPT !.plan = t] \in Switches /\ [job[p] EXCEPT !.plan = t].plan = t
      BY <2>1, JobUpdates
    <3>3. PICK j : j \in Switches /\ j = [job[p] EXCEPT !.plan = t] /\ j.plan = t
      BY <3>2, Zenon
    <3>4. j \in Switches /\ j.plan # <<>>
      BY <3>1, <3>3
    <3>5. job' = [job EXCEPT ![p] = j]
      BY <2>5, <3>1, <3>3 DEF TypeOK
    <3> QED BY <1>2, <2>1, <2>3, <2>5, <3>4, <3>5
  <2>6. CASE job[p].undo # <<>> /\ Goto(p, "undo") /\ UNCHANGED <<lock, job>>
    <3>1. pc' \in [Procs -> {"idle", "switch", "read", "write", "undo", "adopt"}] /\ pc'[p] = "undo"
          /\ \A q \in Procs \ {p} : pc'[q] = pc[q]
      BY <2>6, GotoDoes
    <3>2. TypeOK'
      BY <2>3, <2>6, <3>1 DEF TypeOK, Moved
    <3> QED BY <2>1, <2>6, <3>1, <3>2
  <2> QED BY <1>3, <2>4, <2>5, <2>6 DEF Write
<1>4. CASE RollBack(p)
  <2>1. pc[p] = "undo" /\ job[p] \in Switches /\ job[p].undo \in Seq(Writes)
        /\ job[p].undo # <<>>
    BY <1>4, JobFields DEF RollBack
  <2>2. PICK w \in Writes : w = Head(job[p].undo)
    BY <2>1, ListStep
  <2>3. Moved
    <3>1. (Apply(w) /\ UNCHANGED <<faults, cut>>) \/ (Fault(w) /\ cut' = TRUE)
      BY <1>4, <2>2 DEF RollBack
    <3>2. /\ slot' \in [Slots -> Blobs] /\ marker' \in Ids \cup {None}
          /\ faults' \in 0 .. MaxFaults /\ cut' \in BOOLEAN
      BY <3>1, ApplyType, FaultDoes DEF TypeOK
    <3>3. torn' \in BOOLEAN
      BY <1>4 DEF RollBack, TypeOK
    <3>4. Missing(<<w>>, slot') \subseteq Ids
      BY MissingType, WriteFields
    <3>5. unrestored' \subseteq Ids
      BY <1>4, <2>2, <3>4, MissingType DEF RollBack, TypeOK
    <3> QED BY <1>4, <3>2, <3>3, <3>5 DEF RollBack, TypeOK
  <2> HIDE DEF Moved
  <2>4. CASE Return(p)
    BY <1>1, <2>3, <2>4
  <2>5. CASE Len(job[p].undo) # 1 /\ job' = [job EXCEPT ![p].undo = Tail(@)]
             /\ UNCHANGED <<lock, pc>>
    <3>1. PICK t \in Seq(Writes) : t = Tail(job[p].undo) /\ t # <<>>
      BY <2>1, <2>5, ListStep
    <3>2. [job[p] EXCEPT !.undo = t] \in Switches /\ [job[p] EXCEPT !.undo = t].undo = t
      BY <2>1, JobUpdates
    <3>3. PICK j : j \in Switches /\ j = [job[p] EXCEPT !.undo = t] /\ j.undo = t
      BY <3>2, Zenon
    <3>4. j \in Switches /\ j.undo # <<>>
      BY <3>1, <3>3
    <3>5. job' = [job EXCEPT ![p] = j]
      BY <2>5, <3>1, <3>3 DEF TypeOK
    <3> QED BY <1>2, <2>1, <2>3, <2>5, <3>4, <3>5
  <2> QED BY <1>4, <2>4, <2>5 DEF RollBack
<1> QED BY <1>3, <1>4

LEMMA RivalStepsType ==
  ASSUME TypeInv,
         \/ FetchReads \/ FetchRefreshes \/ FetchWritesBack \/ ClaudeRefreshes \/ ClaudeSignsOut
         \/ \E i \in Ids : ClaudeSignsIn(i)
  PROVE  TypeInv'
<1> USE DEF TypeInv
<1> DEFINE Refs == [pc : {"idle", "read", "granted"}, slot : Slots, cred : Blobs]
<1>1. /\ UNCHANGED <<lock, pc, job, faults, cut, misled>>
      /\ unrestored' \subseteq unrestored /\ torn' \in BOOLEAN
  BY DEF FetchReads, FetchRefreshes, FetchWritesBack, ClaudeRefreshes, ClaudeSignsOut,
         ClaudeSignsIn, history, disk, TypeOK
<1>2. ASSUME slot' \in [Slots -> Blobs], marker' \in Ids \cup {None}, own' = own,
             issued' \in [Ids -> 1 .. MaxTokens], ref' \in Refs, owed' \subseteq Ids
      PROVE  TypeInv'
  BY <1>1, <1>2 DEF TypeOK
<1>3. CASE FetchReads
  <2>1. ref' \in Refs
    BY <1>3, Names DEF FetchReads, RouteFetch, TypeOK, ActiveLabel
  <2> QED BY <1>2, <1>3, <2>1 DEF FetchReads, disk, history, TypeOK
<1>4. NoRefresh \in Refs
  BY Names, BlobFields DEF NoRefresh
<1>5. CASE FetchRefreshes
  <2>1. CASE CanRotate(ref.cred)
    <3>1. ref.cred \in Blobs /\ ref.slot \in Slots
      BY DEF TypeOK
    <3>2. [pc |-> "granted", slot |-> ref.slot, cred |-> Rotated(ref.cred)] \in Refs
      BY <2>1, <3>1, RotatedFields
    <3>3. issued' \in [Ids -> 1 .. MaxTokens]
      BY <1>5, <2>1, <3>1, RotatedFields DEF FetchRefreshes, TypeOK
    <3> QED BY <1>2, <1>5, <2>1, <3>2, <3>3 DEF FetchRefreshes, disk, history, TypeOK
  <2>2. CASE ~CanRotate(ref.cred)
    BY <1>2, <1>4, <1>5, <2>2 DEF FetchRefreshes, disk, history, TypeOK
  <2> QED BY <2>1, <2>2
<1>6. CASE FetchWritesBack
  BY <1>2, <1>4, <1>6 DEF FetchWritesBack, history, TypeOK
<1>7. CASE ClaudeRefreshes
  <2>1. slot["default"] \in Blobs
    BY Names DEF TypeOK
  <2>2. slot' \in [Slots -> Blobs] /\ issued' \in [Ids -> 1 .. MaxTokens]
    BY <1>7, <2>1, RotatedFields DEF ClaudeRefreshes, TypeOK
  <2> QED BY <1>2, <1>7, <2>2 DEF ClaudeRefreshes, history, TypeOK
<1>8. CASE ClaudeSignsOut
  BY <1>2, <1>8, BlobFields DEF ClaudeSignsOut, TypeOK
<1>9. ASSUME NEW i \in Ids, ClaudeSignsIn(i) PROVE TypeInv'
  <2>1. issued[i] + 1 \in 1 .. MaxTokens
    BY <1>9, Names DEF ClaudeSignsIn, TypeOK
  <2>2. [id |-> i, rt |-> issued[i] + 1] \in Blobs
    BY <2>1, BlobFields
  <2>3. slot' \in [Slots -> Blobs] /\ issued' \in [Ids -> 1 .. MaxTokens]
    BY <1>9, <2>1, <2>2 DEF ClaudeSignsIn, TypeOK
  <2> QED BY <1>2, <1>9, <2>3 DEF ClaudeSignsIn, TypeOK
<1> QED BY <1>3, <1>5, <1>6, <1>7, <1>8, <1>9

LEMMA TypeStep == TypeInv /\ [Next]_vars => TypeInv'
<1> SUFFICES ASSUME TypeInv, [Next]_vars PROVE TypeInv'
  OBVIOUS
<1>1. CASE UNCHANGED vars
  BY <1>1 DEF TypeInv, TypeOK, vars
<1> QED BY <1>1, SwitchStepsType, WriteStepsType, RivalStepsType DEF Next, Step

(***************************************************************************)
(* The store and the jobs stay well formed (cli_account.rs).               *)
(***************************************************************************)
THEOREM StoreIsWellFormed == Spec => []TypeOK
BY TypeInit, TypeStep, PTL DEF Spec, TypeInv

-----------------------------------------------------------------------------
(* The lock, and the accounts' claims. *)

LEMMA LockInit == Init => LockInv /\ OwnersDiffer
<1> SUFFICES ASSUME Init PROVE LockInv /\ OwnersDiffer
  OBVIOUS
<1>1. lock = None /\ \A p \in Procs : pc[p] = "idle"
  BY DEF Init
<1>2. \E signed \in SUBSET Accounts : own = [a \in Accounts |-> IF a \in signed THEN a ELSE None]
  BY DEF Init
<1> QED BY <1>1, <1>2, Names DEF LockInv, OwnersDiffer

LEMMA LockStep ==
  ASSUME Rivals = {}
  PROVE  TypeInv /\ LockInv /\ OwnersDiffer /\ [Next]_vars => LockInv' /\ OwnersDiffer'
<1> SUFFICES ASSUME TypeInv, LockInv, OwnersDiffer, [Next]_vars PROVE LockInv' /\ OwnersDiffer'
  OBVIOUS
<1> USE DEF TypeInv
<1>1. ASSUME NEW p \in Procs, Return(p), pc[p] # "idle", ref' = ref PROVE LockInv'
  BY <1>1, ReturnDoes, Names DEF LockInv
<1>2. ASSUME NEW p \in Procs, NEW label \in {"switch", "read", "write", "undo", "adopt"},
             Goto(p, label), pc[p] # "idle", UNCHANGED <<lock, ref>>
      PROVE  LockInv'
  BY <1>2, GotoDoes DEF LockInv
<1>3. ASSUME UNCHANGED <<lock, pc, ref>> PROVE LockInv'
  BY <1>3 DEF LockInv
<1>4. ASSUME UNCHANGED own PROVE OwnersDiffer'
  BY <1>4 DEF OwnersDiffer
<1>5. ASSUME NEW p \in Procs, Begin(p) PROVE LockInv' /\ OwnersDiffer'
  <2>1. PICK kind \in {"switch", "adopt"} : Goto(p, kind)
    BY <1>5 DEF Begin
  <2>2. lock = None /\ ref.pc = "idle" /\ lock' = p /\ ref' = ref /\ own' = own
    BY <1>5 DEF Begin, disk
  <2>3. pc'[p] # "idle" /\ \A q \in Procs \ {p} : pc'[q] = pc[q]
    BY <2>1, GotoDoes
  <2> QED BY <1>4, <2>2, <2>3, Names DEF LockInv
<1>6. ASSUME NEW p \in Procs, Identify(p) \/ ReadSlots(p) PROVE LockInv' /\ OwnersDiffer'
  BY <1>1, <1>2, <1>4, <1>6 DEF Identify, ReadSlots, disk
<1>7. ASSUME NEW p \in Procs, Write(p) \/ RollBack(p) PROVE LockInv' /\ OwnersDiffer'
  BY <1>1, <1>2, <1>3, <1>4, <1>7 DEF Write, RollBack
<1>8. ASSUME NEW p \in Procs, AdoptCurrent(p) PROVE LockInv' /\ OwnersDiffer'
  <2>1. job[p].label \in Accounts
    BY <1>8, JobFields DEF AdoptCurrent
  <2>2. OwnersDiffer'
    BY <1>8, <2>1 DEF AdoptCurrent, Adoptable, OwnersDiffer, TypeOK
  <2> QED BY <1>1, <1>8, <2>2 DEF AdoptCurrent
<1>9. ASSUME NEW p \in Procs, Crash(p) PROVE LockInv' /\ OwnersDiffer'
  BY <1>1, <1>4, <1>9 DEF Crash, disk
<1>10. CASE \/ FetchReads \/ FetchRefreshes \/ FetchWritesBack \/ ClaudeRefreshes \/ ClaudeSignsOut
            \/ \E i \in Ids : ClaudeSignsIn(i)
  <2>1. UNCHANGED <<lock, pc, own>>
    BY <1>10 DEF FetchReads, FetchRefreshes, FetchWritesBack, ClaudeRefreshes, ClaudeSignsOut,
                 ClaudeSignsIn, disk
  <2>2. lock = None
    BY <1>10 DEF FetchReads, FetchRefreshes, FetchWritesBack, ClaudeRefreshes, ClaudeSignsOut,
                 ClaudeSignsIn, Calm, LockInv
  <2> QED BY <1>4, <2>1, <2>2 DEF LockInv
<1>11. CASE UNCHANGED vars
  BY <1>3, <1>4, <1>11 DEF vars
<1> QED BY <1>5, <1>6, <1>7, <1>8, <1>9, <1>10, <1>11 DEF Next, Step

(***************************************************************************)
(* The holder of the lock is the only process at work.                     *)
(***************************************************************************)
LEMMA Alone ==
  ASSUME LockInv, NEW p \in Procs, pc[p] # "idle"
  PROVE  lock = p /\ lock # None /\ ref.pc = "idle" /\ \A q \in Procs \ {p} : pc[q] = "idle"
BY Names DEF LockInv

(***************************************************************************)
(* The claims determine which account the marker names.                    *)
(***************************************************************************)
LEMMA ActiveLabelIs ==
  ASSUME OwnersDiffer
  PROVE  /\ ActiveIs(ActiveLabel, marker)
         /\ \A a \in Accounts : own[a] = marker /\ marker # None => ActiveLabel = a
BY Names DEF ActiveLabel, ActiveIs, OwnersDiffer

-----------------------------------------------------------------------------
(* Between operations. *)

LEMMA GoodInit == Init => WorkInv /\ Whole
<1> SUFFICES ASSUME Init PROVE WorkInv /\ Whole
  OBVIOUS
<1> USE Names, BlobFields
<1>1. /\ ref.pc = "idle" /\ \A p \in Procs : pc[p] = "idle"
      /\ issued = [i \in Ids |-> 1]
      /\ owed = {i \in Ids : \E s \in Slots : slot[s].id = i}
  BY DEF Init, NoRefresh
<1>2. RefInv /\ WorkInv /\ \A p \in Procs : FoundGood(p)
  BY <1>1 DEF RefInv, WorkInv, WorkOk, FoundGood
<1>3. PICK live \in Ids \cup {None}, asleep \in SUBSET Accounts :
        /\ live \notin asleep
        /\ slot = [s \in Slots |->
             IF s = "default" /\ live # None THEN [id |-> live, rt |-> 1]
             ELSE IF s \in asleep THEN [id |-> s, rt |-> 1]
             ELSE Absent]
        /\ marker \in (IF live = None THEN Ids \cup {None} ELSE {live})
        /\ \E signed \in SUBSET Accounts :
             own = [a \in Accounts |-> IF a \in signed THEN a ELSE None]
  BY DEF Init
<1>4. slot["default"] = IF live # None THEN [id |-> live, rt |-> 1] ELSE Absent
  BY <1>3
<1>5. \A a \in Accounts : slot[a] = IF a \in asleep THEN [id |-> a, rt |-> 1] ELSE Absent
  BY <1>3
<1>6. \A s \in Slots : s = "default" \/ s \in Accounts
  BY DEF Slots
<1>6a. \A s \in Slots : slot[s] = Absent \/ (slot[s].id \in Ids /\ slot[s].rt = 1)
  <2>1. slot["default"] = Absent \/ (slot["default"].id \in Ids /\ slot["default"].rt = 1)
    BY <1>4
  <2>2. ASSUME NEW a \in Accounts
        PROVE  slot[a] = Absent \/ (slot[a].id \in Ids /\ slot[a].rt = 1)
    <3>1. CASE a \in asleep
      <4>1. slot[a] = [id |-> a, rt |-> 1]
        BY <1>5, <3>1
      <4> QED BY <4>1
    <3>2. CASE a \notin asleep
      BY <1>5, <3>2
    <3> QED BY <3>1, <3>2
  <2> QED BY <1>6, <2>1, <2>2
<1>7. BlobsSound(slot)
  BY <1>1, <1>6a DEF BlobsSound
<1>8. slot["default"].id # None => marker = slot["default"].id
  BY <1>3, <1>4
<1>9. OneCopy(slot)
  BY <1>3, <1>4, <1>5, <1>6 DEF OneCopy
<1>10. Claimed(slot)
  BY <1>3, <1>5 DEF Claimed
<1>11. \A s \in Slots : slot[s].id # None => Live(slot[s])
  BY <1>1, <1>6a DEF Live
<1>12. KeptSomewhere(slot) /\ FreshDefault(slot)
  BY <1>1, <1>11 DEF KeptSomewhere, FreshDefault, Current
<1> QED BY <1>2, <1>7, <1>8, <1>9, <1>10, <1>12 DEF Good, Whole

LEMMA RivalStepsGood ==
  ASSUME Rivals = {}, TypeInv, LockInv, OwnersDiffer,
         lock = None => Good(slot, marker), RefInv,
         \/ FetchReads \/ FetchRefreshes \/ FetchWritesBack \/ ClaudeRefreshes \/ ClaudeSignsOut
         \/ \E i \in Ids : ClaudeSignsIn(i)
  PROVE  lock = None /\ Good(slot, marker)' /\ RefInv'
<1>1. lock = None /\ own' = own /\ cut' = cut
  BY DEF FetchReads, FetchRefreshes, FetchWritesBack, ClaudeRefreshes, ClaudeSignsOut,
         ClaudeSignsIn, Calm, LockInv, disk, history
<1>2. Good(slot, marker)
  BY <1>1
<1>3. /\ BlobsSound(slot) /\ OneCopy(slot) /\ Claimed(slot) /\ KeptSomewhere(slot)
      /\ slot["default"].id # None => marker = slot["default"].id \/ torn
      /\ slot["default"].id = marker => FreshDefault(slot)
  BY <1>2 DEF Good
<1>4. /\ \A s \in Slots : slot[s] \in Blobs /\ slot[s].id \in Ids \cup {None}
      /\ \A i \in Ids : issued[i] \in Nat
      /\ ref.slot \in Slots /\ ref.cred \in Blobs /\ ref.cred.id \in Ids \cup {None}
      /\ slot \in [Slots -> Blobs] /\ issued \in [Ids -> 1 .. MaxTokens]
  BY BlobFields DEF TypeInv, TypeOK
<1>5. CASE FetchReads
  <2>1. ref.pc = "idle" /\ UNCHANGED <<slot, marker, own, issued, owed, cut, torn, unrestored>>
    BY <1>5 DEF FetchReads, disk, history
  <2>2. PICK entry \in Slots : LET at == RouteFetch(entry)
                              IN  /\ CanRotate(slot[at])
                                  /\ ref' = [pc |-> "read", slot |-> at, cred |-> slot[at]]
    BY <1>5 DEF FetchReads
  <2>3. PICK at : at = RouteFetch(entry)
    OBVIOUS
  <2>4. at \in Slots /\ (at # "default" => at \in Accounts /\ at # ActiveLabel)
    BY <2>3, Names DEF RouteFetch, Slots
  <2>5. slot[at].id # None /\ Live(slot[at])
    BY <2>2, <2>3 DEF CanRotate, Live
  <2>6. ASSUME at # "default"
        PROVE  slot["default"].id # slot[at].id \/ marker # slot[at].id
    <3>1. SUFFICES ASSUME slot["default"].id = slot[at].id, marker = slot[at].id PROVE FALSE
      OBVIOUS
    <3>2. own[at] = slot[at].id
      BY <1>3, <2>4, <2>5, <2>6, <3>1, Names DEF OneCopy
    <3> QED BY <2>4, <2>5, <2>6, <3>1, <3>2, ActiveLabelIs
  <2>7. RefInv'
    BY <2>1, <2>2, <2>3, <2>5, <2>6 DEF RefInv
  <2>8. ref'.pc = "read"
    BY <2>2
  <2>9. Good(slot, marker)'
    BY <1>3, <2>1, <2>8
       DEF Good, BlobsSound, OneCopy, Claimed, KeptSomewhere, FreshDefault, Current, Live
  <2> QED BY <1>1, <2>7, <2>9
<1>6. CASE FetchRefreshes
  <2>1. ref.pc = "read" /\ UNCHANGED <<slot, marker, own, owed, cut, torn, unrestored>>
    BY <1>6 DEF FetchRefreshes, disk, history
  <2>2. CASE ~CanRotate(ref.cred)
    <3>1. ref' = NoRefresh /\ issued' = issued
      BY <1>6, <2>2 DEF FetchRefreshes
    <3> QED BY <1>1, <1>3, <2>1, <3>1
        DEF Good, BlobsSound, OneCopy, Claimed, KeptSomewhere, FreshDefault, Current, Live,
            RefInv, NoRefresh
  <2>3. CASE CanRotate(ref.cred)
    <3> DEFINE i == ref.cred.id
    <3>1. /\ ref' = [pc |-> "granted", slot |-> ref.slot, cred |-> Rotated(ref.cred)]
          /\ issued' = [issued EXCEPT ![i] = @ + 1]
      BY <1>6, <2>3 DEF FetchRefreshes
    <3>2. /\ i \in Ids /\ ref.cred.rt = issued[i]
          /\ Rotated(ref.cred).id = i /\ Rotated(ref.cred).rt = issued[i] + 1
      BY <1>4, <2>3, RotatedFields DEF TypeInv
    <3>3. /\ ref'.pc = "granted" /\ ref'.slot = ref.slot
          /\ ref'.cred.id = i /\ ref'.cred.rt = issued[i] + 1
      BY <3>1, <3>2
    <3>4. issued'[i] = issued[i] + 1 /\ \A k \in Ids \ {i} : issued'[k] = issued[k]
      BY <1>4, <3>1, <3>2
    <3>5. /\ slot[ref.slot].id = i
          /\ ref.slot # "default" => slot["default"].id # i \/ marker # i
      BY <2>1 DEF RefInv
    <3> HIDE DEF i
    <3>6. \A s \in Slots :
            slot[s].id # None => slot[s].rt \in Nat /\ slot[s].rt <= issued'[slot[s].id]
      BY <1>3, <1>4, <3>2, <3>4, BlobFields DEF BlobsSound
    <3>7. RefInv'
      <4>1. \A s \in Slots : slot[s].id = i => slot[s].rt < issued[i] + 1
        BY <1>3, <1>4, <3>2, Names, BlobFields DEF BlobsSound
      <4> QED BY <2>1, <3>2, <3>3, <3>4, <3>5, <4>1, Names DEF RefInv, Live
    <3>8. BlobsSound(slot)'
      BY <1>3, <2>1, <3>6 DEF BlobsSound
    <3>9. \A s \in Slots : slot[s].id # i => (Current(slot, s) <=> Current(slot, s)')
      BY <1>4, <2>1, <3>3, <3>4, <3>5 DEF Current, Live
    <3>10. Current(slot, ref.slot)'
      BY <3>3 DEF Current
    <3>11. KeptSomewhere(slot)'
      <4> SUFFICES ASSUME NEW k \in owed' \ unrestored'
                   PROVE  \E s \in Slots : slot'[s].id = k /\ Current(slot, s)'
        BY DEF KeptSomewhere
      <4>1. CASE k = i
        BY <1>4, <2>1, <3>3, <3>5, <3>10, <4>1
      <4>2. CASE k # i
        <5>1. PICK s \in Slots : slot[s].id = k /\ Current(slot, s)
          BY <1>3, <2>1 DEF KeptSomewhere
        <5> QED BY <2>1, <3>9, <4>2, <5>1
      <4> QED BY <4>1, <4>2
    <3>12. ASSUME slot'["default"].id = marker' PROVE FreshDefault(slot)'
      <4>1. CASE marker = i
        <5>1. ref.slot = "default"
          BY <2>1, <3>5, <3>12, <4>1
        <5> QED BY <3>3, <3>10, <5>1 DEF FreshDefault
      <4>2. CASE marker # i
        BY <1>3, <2>1, <3>9, <3>12, <4>2, Names DEF FreshDefault
      <4> QED BY <4>1, <4>2
    <3> QED BY <1>1, <1>3, <2>1, <3>7, <3>8, <3>11, <3>12 DEF Good, OneCopy, Claimed
  <2> QED BY <2>2, <2>3
<1>7. CASE FetchWritesBack
  <2>1. /\ ref.pc = "granted" /\ slot' = [slot EXCEPT ![ref.slot] = ref.cred]
        /\ ref'.pc = "idle" /\ UNCHANGED <<marker, own, issued, owed, cut, torn, unrestored>>
    BY <1>7 DEF FetchWritesBack, NoRefresh, history
  <2>2. /\ Live(ref.cred) /\ ref.cred.id # None /\ slot[ref.slot].id = ref.cred.id
    BY <2>1 DEF RefInv
  <2>3. slot'[ref.slot] = ref.cred /\ \A s \in Slots \ {ref.slot} : slot'[s] = slot[s]
    BY <1>4, <2>1
  <2>4. \A s \in Slots : slot'[s].id = slot[s].id
    BY <2>2, <2>3
  <2>5. BlobsSound(slot)'
    BY <1>3, <1>4, <2>1, <2>2, <2>3 DEF BlobsSound, Live
  <2>6. OneCopy(slot)' /\ Claimed(slot)'
    BY <1>3, <2>1, <2>4, Names DEF OneCopy, Claimed
  <2>7. \A s \in Slots : Current(slot, s) <=> Current(slot, s)'
    BY <2>1, <2>2, <2>3 DEF Current, Live
  <2>8. KeptSomewhere(slot)' /\ (slot'["default"].id = marker' => FreshDefault(slot)')
    BY <1>3, <2>1, <2>4, <2>7, Names DEF KeptSomewhere, FreshDefault
  <2>9. RefInv'
    BY <2>1 DEF RefInv
  <2> QED BY <1>1, <1>3, <2>1, <2>4, <2>5, <2>6, <2>8, <2>9, Names DEF Good
<1>8. CASE ClaudeRefreshes
  <2> DEFINE i == slot["default"].id
  <2>1. /\ CanRotate(slot["default"]) /\ issued' = [issued EXCEPT ![i] = @ + 1]
        /\ slot' = [slot EXCEPT !["default"] = Rotated(slot["default"])]
        /\ UNCHANGED <<marker, own, ref, owed, cut, torn, unrestored>>
    BY <1>4, <1>8 DEF ClaudeRefreshes, history
  <2>2. /\ i \in Ids /\ slot["default"].rt = issued[i]
        /\ Rotated(slot["default"]).id = i /\ Rotated(slot["default"]).rt = issued[i] + 1
    BY <1>4, <2>1, RotatedFields, Names DEF TypeInv
  <2>3. /\ slot'["default"].id = i /\ slot'["default"].rt = issued[i] + 1
        /\ \A s \in Slots \ {"default"} : slot'[s] = slot[s]
    BY <1>4, <2>1, <2>2, Names
  <2>4. issued'[i] = issued[i] + 1 /\ \A k \in Ids \ {i} : issued'[k] = issued[k]
    BY <1>4, <2>1, <2>2
  <2> HIDE DEF i
  <2>5. i = slot["default"].id /\ \A s \in Slots : slot'[s].id = slot[s].id
    BY <2>3 DEF i
  <2>6. BlobsSound(slot)'
    BY <1>3, <1>4, <2>2, <2>3, <2>4, <2>5, BlobFields, Names DEF BlobsSound
  <2>7. OneCopy(slot)' /\ Claimed(slot)'
    BY <1>3, <2>1, <2>5, Names DEF OneCopy, Claimed
  <2>8. Current(slot, "default")'
    BY <2>2, <2>3, <2>4, Names DEF Current, Live
  <2>9. \A s \in Slots : slot[s].id # i => (Current(slot, s) <=> Current(slot, s)')
    BY <1>4, <2>1, <2>3, <2>4, <2>5 DEF Current, Live
  <2>10. KeptSomewhere(slot)' /\ FreshDefault(slot)'
    <3>1. KeptSomewhere(slot)'
      <4> SUFFICES ASSUME NEW k \in owed' \ unrestored'
                   PROVE  \E s \in Slots : slot'[s].id = k /\ Current(slot, s)'
        BY DEF KeptSomewhere
      <4>1. CASE k = i
        BY <2>5, <2>8, <4>1, Names
      <4>2. CASE k # i
        BY <1>3, <2>1, <2>5, <2>9, <4>2 DEF KeptSomewhere
      <4> QED BY <4>1, <4>2
    <3>2. FreshDefault(slot)'
      BY <2>8 DEF FreshDefault
    <3> QED BY <3>1, <3>2
  <2>11. RefInv'
    <3>1. CASE ref.pc = "granted"
      <4>1. ref.cred.id # i
        <5>1. SUFFICES ASSUME ref.cred.id = i PROVE FALSE
          OBVIOUS
        <5>2. ref.cred.rt = issued[i] /\ slot["default"].rt < ref.cred.rt
          BY <2>5, <3>1, <5>1, Names DEF RefInv, Live
        <5> QED BY <1>4, <2>2, <5>2
      <4>3. \A s \in Slots : slot'[s].id = ref.cred.id => slot'[s] = slot[s]
        BY <2>3, <2>5, <4>1
      <4>4. Live(ref.cred)'
        BY <1>4, <2>1, <2>4, <3>1, <4>1 DEF RefInv, Live
      <4> QED BY <1>4, <2>1, <2>5, <3>1, <4>3, <4>4, Names DEF RefInv
    <3>2. CASE ref.pc # "granted"
      BY <1>4, <2>1, <2>5, <3>2, Names DEF RefInv
    <3> QED BY <3>1, <3>2
  <2> QED BY <1>1, <1>3, <2>1, <2>5, <2>6, <2>7, <2>10, <2>11, Names DEF Good
<1>9. CASE ClaudeSignsOut
  <2>1. /\ ref.pc = "idle" /\ slot' = [slot EXCEPT !["default"] = Absent]
        /\ owed' = owed \ {slot["default"].id}
        /\ UNCHANGED <<own, issued, ref, cut, unrestored>>
    BY <1>9 DEF ClaudeSignsOut
  <2>2. slot'["default"] = Absent /\ \A s \in Slots \ {"default"} : slot'[s] = slot[s]
    BY <1>4, <2>1, Names
  <2>3. Absent.id = None /\ None \notin owed
    BY BlobFields, Names DEF TypeInv, TypeOK
  <2>4. BlobsSound(slot)' /\ OneCopy(slot)' /\ Claimed(slot)'
    BY <1>3, <2>1, <2>2, <2>3, Names DEF BlobsSound, OneCopy, Claimed
  <2>5. KeptSomewhere(slot)' /\ FreshDefault(slot)'
    BY <1>3, <2>1, <2>2, <2>3 DEF KeptSomewhere, FreshDefault, Current, Live
  <2>6. RefInv'
    BY <2>1 DEF RefInv
  <2> QED BY <1>1, <2>2, <2>3, <2>4, <2>5, <2>6 DEF Good
<1>10. ASSUME NEW i \in Ids, ClaudeSignsIn(i) PROVE Good(slot, marker)' /\ RefInv'
  <2>1. /\ ref.pc = "idle" /\ marker' = i
        /\ issued' = [issued EXCEPT ![i] = @ + 1]
        /\ slot' = [slot EXCEPT !["default"] = [id |-> i, rt |-> issued[i] + 1]]
        /\ owed' = (owed \ {slot["default"].id}) \cup {i} /\ UNCHANGED <<own, ref, cut>>
        /\ unrestored' = unrestored \ {i}
        /\ \A s \in Slots : slot[s].id # i
    BY <1>10 DEF ClaudeSignsIn
  <2>2. /\ slot'["default"].id = i /\ slot'["default"].rt = issued[i] + 1
        /\ \A s \in Slots \ {"default"} : slot'[s] = slot[s]
    BY <1>4, <2>1, Names
  <2>3. issued'[i] = issued[i] + 1 /\ \A k \in Ids \ {i} : issued'[k] = issued[k]
    BY <1>4, <2>1
  <2>4. BlobsSound(slot)'
    BY <1>3, <1>4, <2>1, <2>2, <2>3, Names DEF BlobsSound
  <2>5. OneCopy(slot)' /\ Claimed(slot)'
    BY <1>3, <2>1, <2>2, Names DEF OneCopy, Claimed
  <2>6. Current(slot, "default")'
    BY <2>2, <2>3, Names DEF Current, Live
  <2>7. \A s \in Slots \ {"default"} : Current(slot, s) => Current(slot, s)'
    BY <1>4, <2>1, <2>2, <2>3 DEF Current, Live
  <2>8. KeptSomewhere(slot)' /\ FreshDefault(slot)'
    BY <1>3, <2>1, <2>2, <2>6, <2>7, Names DEF KeptSomewhere, FreshDefault
  <2>9. RefInv'
    BY <2>1 DEF RefInv
  <2> QED BY <2>1, <2>2, <2>4, <2>5, <2>8, <2>9 DEF Good
<1> QED BY <1>1, <1>5, <1>6, <1>7, <1>8, <1>9, <1>10

-----------------------------------------------------------------------------
(* The stages of a move. *)

(***************************************************************************)
(* While the lock is held a state that was good stays good: logins may be  *)
(* given up, and a move be cut short.                                      *)
(***************************************************************************)
LEMMA GoodFrame ==
  ASSUME UNCHANGED <<own, issued>>, owed' \subseteq owed, unrestored \subseteq unrestored',
         cut => cut', torn => torn', ref.pc = "idle", ref'.pc = "idle"
  PROVE  \A slots, mark : Good(slots, mark) => Good(slots, mark)'
BY DEF Good, BlobsSound, OneCopy, Claimed, KeptSomewhere, FreshDefault, Current, Live

(***************************************************************************)
(* A login in two slots, when a move is cut short: in the default slot and *)
(* in the slot of the account that claims it.                              *)
(***************************************************************************)
Twins(slots) ==
  \A s, t \in Slots :
    s # t /\ slots[s].id # None /\ slots[s].id = slots[t].id =>
      \/ s = "default" /\ own[t] = slots[t].id
      \/ t = "default" /\ own[s] = slots[s].id

(***************************************************************************)
(* What the start of a move tells of its accounts: the target's login is   *)
(* another one than the outgoing login that is captured, and the outgoing  *)
(* account has at most an older copy of that.                              *)
(***************************************************************************)
LEMMA MoveTypes ==
  ASSUME NEW j \in Switches
  PROVE  /\ j.label \in Accounts /\ j.label \in Slots /\ j.label # "default"
         /\ j.active \in Accounts \cup {None} /\ j.active # "default"
         /\ j.active # None => j.active \in Slots
         /\ "default" \in Slots
         /\ \A s \in Slots : s = "default" \/ s \in Accounts
         /\ j.before.slot \in [Slots -> Blobs]
         /\ \A s \in Slots : /\ j.before.slot[s] \in Blobs
                             /\ j.before.slot[s].id \in Ids \cup {None}
                             /\ j.before.slot[s] = Absent <=> j.before.slot[s].id = None
BY JobFields, Names, BlobFields DEF Slots

LEMMA MoveFacts ==
  ASSUME TypeOK, OwnersDiffer, NEW j \in Switches,
         Good(j.before.slot, j.before.marker), MoveReady(j), Trusted(j)
  PROVE  /\ j.before.slot[j.label].id = own[j.label] /\ own[j.label] # None
         /\ Captures(j) =>
              /\ j.active \in Accounts /\ j.active # j.label
              /\ j.before.marker = j.before.slot["default"].id
              /\ own[j.active] = j.before.slot["default"].id
              /\ j.before.slot[j.label].id # j.before.slot["default"].id
              /\ j.before.slot[j.active].id \in {None, j.before.slot["default"].id}
<1> DEFINE B == j.before.slot
           a == j.active
           L == j.label
           mk == j.before.marker
<1>1. /\ L \in Accounts /\ L \in Slots /\ a \in Accounts \cup {None} /\ Accounts \subseteq Slots
  BY MoveTypes, Names
<1>2. Claimed(B)
  BY DEF Good
<1>3. /\ own[L] # None /\ B[L].id # None
      /\ B["default"].id # None => a # L
      /\ a # None => own[a] = mk /\ mk # None
  BY DEF MoveReady, ActiveIs
<1> HIDE DEF B, a, L, mk
<1>4. B[L].id = own[L]
  BY <1>1, <1>2, <1>3 DEF Claimed
<1>5. ASSUME a # None, B["default"].id # None, mk = B["default"].id
      PROVE  /\ a \in Accounts /\ a # L /\ own[a] = B["default"].id
             /\ B[L].id # B["default"].id /\ B[a].id \in {None, B["default"].id}
  <2>1. a \in Accounts /\ a # L /\ own[a] = B["default"].id /\ own[a] # None
    BY <1>1, <1>3, <1>5
  <2>2. B[L].id # B["default"].id
    BY <1>1, <1>4, <2>1 DEF OwnersDiffer
  <2>3. B[a].id \in {None, B["default"].id}
    BY <1>2, <2>1 DEF Claimed
  <2> QED BY <2>1, <2>2, <2>3
<1> QED BY <1>3, <1>4, <1>5 DEF B, a, L, mk, Trusted, Captures

(***************************************************************************)
(* The slots at each stage, one by one.                                    *)
(***************************************************************************)
LEMMA CapturedSlots ==
  ASSUME NEW j \in Switches
  PROVE  /\ Captured(j) \in [Slots -> Blobs]
         /\ Captured(j)["default"] = j.before.slot["default"]
         /\ Captures(j) => Captured(j)[j.active] = j.before.slot["default"]
         /\ \A s \in Slots : ~(Captures(j) /\ s = j.active) => Captured(j)[s] = j.before.slot[s]
         /\ ~Captures(j) => Captured(j) = j.before.slot
BY MoveTypes DEF Captured, Captures

LEMMA InstalledSlots ==
  ASSUME NEW j \in Switches
  PROVE  /\ Installed(j) \in [Slots -> Blobs]
         /\ Installed(j)["default"] = j.before.slot[j.label]
         /\ \A s \in Slots \ {"default"} : Installed(j)[s] = Captured(j)[s]
BY MoveTypes, CapturedSlots DEF Installed

Finished(j) == [Installed(j) EXCEPT ![j.label] = Absent]

LEMMA FinishedSlots ==
  ASSUME NEW j \in Switches
  PROVE  /\ Finished(j) \in [Slots -> Blobs]
         /\ Finished(j)["default"] = j.before.slot[j.label]
         /\ Finished(j)[j.label] = Absent
         /\ \A s \in Slots \ {j.label} : Finished(j)[s] = Installed(j)[s]
BY MoveTypes, InstalledSlots, BlobFields DEF Finished

LEMMA StagesMixed ==
  ASSUME NEW j \in Switches
  PROVE  /\ Mixed(j, j.before.slot) /\ Mixed(j, Captured(j))
         /\ Mixed(j, Installed(j)) /\ Mixed(j, Finished(j))
<1>1. \A a \in Accounts : a \in Slots /\ a # "default"
  BY Names
<1>2. Mixed(j, j.before.slot)
  BY DEF Mixed
<1>3. Mixed(j, Captured(j))
  BY <1>1, CapturedSlots DEF Mixed
<1>4. Mixed(j, Installed(j))
  BY <1>1, CapturedSlots, InstalledSlots DEF Mixed
<1>5. Mixed(j, Finished(j))
  BY <1>1, CapturedSlots, InstalledSlots, FinishedSlots DEF Mixed
<1> QED BY <1>2, <1>3, <1>4, <1>5

(***************************************************************************)
(* Any mixture of what the slots held and of what the move wrote: a login  *)
(* is still where it can be told to belong, and the default slot's copy    *)
(* of it is the latest one.                                                *)
(***************************************************************************)
LEMMA MixedSound ==
  ASSUME TypeOK, OwnersDiffer, ref.pc = "idle", NEW j \in Switches,
         Good(j.before.slot, j.before.marker), MoveReady(j), Trusted(j),
         NEW slots, Mixed(j, slots)
  PROVE  /\ BlobsSound(slots) /\ Twins(slots) /\ Claimed(slots)
         /\ (j.active = None => j.before.slot["default"].id \notin owed) => FreshDefault(slots)
         /\ slots["default"] = j.before.slot["default"]
            /\ j.before.slot["default"].id = j.before.marker => FreshDefault(slots)
<1> DEFINE B == j.before.slot
           a == j.active
           L == j.label
           mk == j.before.marker
           captures == Captures(j)
<1>1. /\ L \in Accounts /\ L \in Slots /\ L # "default" /\ "default" \in Slots
      /\ \A s \in Slots : s = "default" \/ s \in Accounts
      /\ Accounts \subseteq Slots /\ "default" \notin Accounts /\ Absent.id = None
  BY MoveTypes, Names, BlobFields
<1>2. /\ BlobsSound(B) /\ OneCopy(B) /\ Claimed(B)
      /\ B["default"].id = mk => FreshDefault(B)
  BY DEF Good
<1>3. /\ B[L].id = own[L] /\ own[L] # None
      /\ captures => /\ a \in Accounts /\ a # L /\ own[a] = B["default"].id
                     /\ mk = B["default"].id
                     /\ B[L].id # B["default"].id
  BY MoveFacts
<1>4. ~captures => a = None \/ B["default"].id = None
  BY DEF Captures
<1>5. captures => B["default"].id # None
  BY DEF Captures
<1>6. /\ slots["default"] \in {B["default"], B[L]}
      /\ \A s \in Accounts : \/ slots[s] = B[s]
                             \/ s = L /\ slots[s] = Absent
                             \/ s = a /\ captures /\ slots[s] = B["default"]
  BY DEF Mixed
<1>7. None \notin owed
  BY Names DEF TypeOK
<1> HIDE DEF B, a, L, mk, captures
<1>8. \A s \in Slots : slots[s] = Absent \/ \E t \in Slots : slots[s] = B[t]
  BY <1>1, <1>6
<1>9. BlobsSound(slots)
  BY <1>1, <1>2, <1>8 DEF BlobsSound
<1>10. Claimed(slots)
  BY <1>1, <1>2, <1>3, <1>6 DEF Claimed
<1>11. ASSUME NEW s \in Accounts, NEW t \in Accounts, B[s].id = B[t].id, B[s].id # None
       PROVE  s = t
  BY <1>1, <1>2, <1>11 DEF OneCopy
<1>12. ASSUME NEW s \in Accounts, B[s].id = B["default"].id, B[s].id # None
       PROVE  own[s] = B["default"].id
  BY <1>1, <1>2, <1>12 DEF OneCopy
<1>13. ASSUME NEW s \in Accounts, NEW t \in Accounts, slots[s].id = slots[t].id, slots[s].id # None
       PROVE  s = t
  <2>1. CASE slots[s] = B[s] /\ slots[t] = B[t]
    BY <1>11, <1>13, <2>1
  <2>2. CASE captures /\ s = a /\ slots[s] = B["default"] /\ slots[t] = B[t]
    <3>1. own[t] = B["default"].id /\ own[s] = B["default"].id
      BY <1>3, <1>12, <1>13, <2>2
    <3> QED BY <1>5, <2>2, <3>1 DEF OwnersDiffer
  <2>3. CASE captures /\ t = a /\ slots[t] = B["default"] /\ slots[s] = B[s]
    <3>1. own[s] = B["default"].id /\ own[t] = B["default"].id
      BY <1>3, <1>12, <1>13, <2>3
    <3> QED BY <1>5, <2>3, <3>1 DEF OwnersDiffer
  <2> QED BY <1>1, <1>6, <1>13, <2>1, <2>2, <2>3
<1>14. ASSUME NEW t \in Accounts, slots["default"].id = slots[t].id, slots[t].id # None
       PROVE  own[t] = slots[t].id
  <2>1. CASE slots[t] = B[t]
    <3>1. CASE slots["default"] = B["default"]
      BY <1>12, <1>14, <2>1, <3>1
    <3>2. CASE slots["default"] = B[L]
      <4>1. t = L
        BY <1>1, <1>11, <1>14, <2>1, <3>2
      <4> QED BY <1>3, <2>1, <4>1
    <3> QED BY <1>6, <3>1, <3>2
  <2>2. CASE t = a /\ captures /\ slots[t] = B["default"]
    BY <1>3, <2>2
  <2> QED BY <1>1, <1>6, <1>14, <2>1, <2>2
<1>15. Twins(slots)
  BY <1>1, <1>13, <1>14 DEF Twins
<1>16. ASSUME NEW i \in owed, \E s \in Slots : slots[s].id = i /\ Live(slots[s])
       PROVE  \E s \in Slots : B[s].id = i /\ Live(B[s])
  BY <1>1, <1>7, <1>8, <1>16
<1>17. ASSUME slots["default"] = B["default"], B["default"].id = mk PROVE FreshDefault(slots)
  BY <1>2, <1>16, <1>17 DEF FreshDefault, Current
<1>18. ASSUME a = None => B["default"].id \notin owed PROVE FreshDefault(slots)
  <2> SUFFICES ASSUME NEW i \in owed, slots["default"].id = i,
                      \E s \in Slots : slots[s].id = i /\ Live(slots[s])
               PROVE  Live(slots["default"])
    BY DEF FreshDefault, Current
  <2>1. PICK s \in Slots : B[s].id = i /\ Live(B[s])
    BY <1>16
  <2>2. B["default"].id = i => captures
    BY <1>4, <1>7, <1>18
  <2>3. CASE slots["default"] = B["default"]
    BY <1>3, <1>17, <2>2, <2>3 DEF FreshDefault, Current
  <2>4. CASE slots["default"] = B[L]
    <3>1. s # "default"
      BY <1>3, <2>1, <2>2, <2>4
    <3>2. s = L
      BY <1>1, <1>7, <1>11, <2>1, <2>4, <3>1
    <3> QED BY <2>1, <2>4, <3>2
  <2> QED BY <1>6, <2>3, <2>4
<1> QED BY <1>9, <1>10, <1>15, <1>17, <1>18 DEF B, a, mk

(***************************************************************************)
(* Each stage keeps every login, and the last one is good again.           *)
(***************************************************************************)
LEMMA MoveStages ==
  ASSUME TypeOK, OwnersDiffer, ref.pc = "idle", NEW j \in Switches,
         Good(j.before.slot, j.before.marker), MoveReady(j), Trusted(j)
  PROVE  /\ KeptSomewhere(Captured(j))
         /\ (j.active = None => j.before.slot["default"].id \notin owed) =>
              /\ KeptSomewhere(Installed(j))
              /\ Good(Finished(j), own[j.label])
<1> DEFINE B == j.before.slot
           a == j.active
           L == j.label
           mk == j.before.marker
           C == Captured(j)
           N == Installed(j)
           F == Finished(j)
           captures == Captures(j)
<1>1. /\ L \in Accounts /\ L \in Slots /\ L # "default" /\ "default" \in Slots
      /\ \A s \in Slots : s = "default" \/ s \in Accounts
      /\ Accounts \subseteq Slots /\ "default" \notin Accounts /\ Absent.id = None
  BY MoveTypes, Names, BlobFields
<1>2. /\ OneCopy(B) /\ KeptSomewhere(B) /\ (B["default"].id = mk => FreshDefault(B))
  BY DEF Good
<1>3. /\ B[L].id = own[L] /\ own[L] # None
      /\ captures => /\ a \in Accounts /\ a # L /\ own[a] = B["default"].id
                     /\ mk = B["default"].id /\ B[L].id # B["default"].id
                     /\ B[a].id \in {None, B["default"].id}
  BY MoveFacts
<1>4. ~captures => a = None \/ B["default"].id = None
  BY DEF Captures
<1>5. /\ C["default"] = B["default"] /\ (captures => C[a] = B["default"])
      /\ \A s \in Slots : ~(captures /\ s = a) => C[s] = B[s]
  BY CapturedSlots
<1>6. /\ N["default"] = B[L] /\ \A s \in Slots \ {"default"} : N[s] = C[s]
  BY InstalledSlots
<1>7. /\ F["default"] = B[L] /\ F[L] = Absent /\ \A s \in Slots \ {L} : F[s] = N[s]
  BY FinishedSlots
<1>8. owed \subseteq Ids /\ None \notin owed
  BY Names DEF TypeOK
<1>9. Mixed(j, F)
  BY StagesMixed
<1>10. ASSUME NEW i \in owed \ unrestored
       PROVE  \E s \in Slots : B[s].id = i /\ Live(B[s])
  BY <1>2 DEF KeptSomewhere, Current
<1>11. ASSUME NEW i \in owed \ unrestored, captures, B["default"].id = i PROVE Live(B["default"])
  BY <1>2, <1>3, <1>10, <1>11 DEF FreshDefault, Current
<1> HIDE DEF B, a, L, mk, C, N, F, captures
<1>12. KeptSomewhere(C)
  <2> SUFFICES ASSUME NEW i \in owed \ unrestored
               PROVE  \E s \in Slots : C[s].id = i /\ Live(C[s])
    BY DEF KeptSomewhere, Current
  <2>1. CASE captures /\ B["default"].id = i
    BY <1>1, <1>5, <1>11, <2>1
  <2>2. CASE ~(captures /\ B["default"].id = i)
    <3>1. PICK s \in Slots : B[s].id = i /\ Live(B[s])
      BY <1>10
    <3>2. ~(captures /\ s = a)
      BY <1>3, <1>8, <2>2, <3>1
    <3> QED BY <1>5, <3>1, <3>2
  <2> QED BY <2>1, <2>2
<1>13. ASSUME a = None => B["default"].id \notin owed
       PROVE  KeptSomewhere(N) /\ Good(F, own[L])
  <2>1. ASSUME NEW i \in owed \ unrestored
        PROVE  \E s \in Slots : N[s].id = i /\ Live(N[s]) /\ (s = L => i = B[L].id /\ Live(B[L]))
    <3>1. CASE B["default"].id = i
      <4>1. captures
        BY <1>4, <1>8, <1>13, <3>1
      <4>2. N[a] = B["default"] /\ a \in Slots /\ a # L
        BY <1>1, <1>3, <1>5, <1>6, <4>1
      <4> QED BY <1>11, <3>1, <4>1, <4>2
    <3>2. CASE B["default"].id # i
      <4>1. PICK s \in Slots : B[s].id = i /\ Live(B[s])
        BY <1>10
      <4>2. N[s] = B[s]
        BY <1>3, <1>5, <1>6, <1>8, <3>2, <4>1
      <4> QED BY <4>1, <4>2
    <3> QED BY <3>1, <3>2
  <2>2. KeptSomewhere(N)
    BY <2>1 DEF KeptSomewhere, Current
  <2>3. KeptSomewhere(F)
    <3> SUFFICES ASSUME NEW i \in owed \ unrestored
                 PROVE  \E s \in Slots : F[s].id = i /\ Live(F[s])
      BY DEF KeptSomewhere, Current
    <3>1. PICK s \in Slots : N[s].id = i /\ Live(N[s]) /\ (s = L => i = B[L].id /\ Live(B[L]))
      BY <2>1
    <3> QED BY <1>1, <1>7, <3>1
  <2>4. BlobsSound(F) /\ Claimed(F) /\ Twins(F) /\ FreshDefault(F)
    BY <1>9, <1>13, MixedSound DEF B, a, F
  <2>5. ASSUME NEW t \in Accounts, F[t].id = B[L].id PROVE FALSE
    <3>1. t # L
      BY <1>1, <1>3, <1>7, <2>5
    <3>2. ~(captures /\ t = a)
      BY <1>1, <1>3, <1>5, <1>6, <1>7, <2>5, <3>1
    <3>3. B[t].id = B[L].id
      BY <1>1, <1>5, <1>6, <1>7, <2>5, <3>1, <3>2
    <3> QED BY <1>1, <1>2, <1>3, <3>1, <3>3 DEF OneCopy
  <2>6. OneCopy(F)
    BY <1>1, <1>7, <2>4, <2>5 DEF OneCopy, Twins
  <2>7. F["default"].id = own[L]
    BY <1>3, <1>7
  <2>8. Good(F, own[L])
    BY <2>3, <2>4, <2>6, <2>7 DEF Good
  <2> QED BY <2>2, <2>8
<1> QED BY <1>12, <1>13 DEF B, a, L, C, N, F

(***************************************************************************)
(* An account that is active already loses its redundant copy.             *)
(***************************************************************************)
LEMMA DropStage ==
  ASSUME TypeOK, OwnersDiffer, ref.pc = "idle", NEW j \in Switches,
         Good(j.before.slot, j.before.marker), j.active = j.label, Trusted(j),
         ActiveIs(j.active, j.before.marker), j.before.slot["default"].id # None
  PROVE  Good([j.before.slot EXCEPT ![j.label] = Absent], j.before.marker)
<1> DEFINE B == j.before.slot
           L == j.label
           mk == j.before.marker
           F == [B EXCEPT ![L] = Absent]
<1>1. /\ L \in Accounts /\ L \in Slots /\ L # "default" /\ L # None
      /\ "default" \in Slots /\ B \in [Slots -> Blobs] /\ Absent.id = None
  BY MoveTypes, Names, BlobFields
<1>2. mk = B["default"].id
  BY <1>1 DEF Trusted, Captures
<1>3. /\ BlobsSound(B) /\ OneCopy(B) /\ Claimed(B) /\ KeptSomewhere(B) /\ FreshDefault(B)
  BY <1>2 DEF Good
<1>4. own[L] = mk /\ mk # None
  BY <1>1 DEF ActiveIs
<1>5. F[L] = Absent /\ \A s \in Slots \ {L} : F[s] = B[s]
  BY <1>1
<1> HIDE DEF B, L, mk, F
<1>6. B[L].id \in {None, B["default"].id}
  BY <1>1, <1>2, <1>3, <1>4 DEF Claimed
<1>7. BlobsSound(F) /\ Claimed(F) /\ OneCopy(F)
  <2>1. BlobsSound(F)
    BY <1>1, <1>3, <1>5 DEF BlobsSound
  <2>2. Claimed(F)
    BY <1>1, <1>3, <1>5, Names DEF Claimed
  <2>3. OneCopy(F)
    BY <1>1, <1>3, <1>5 DEF OneCopy
  <2> QED BY <2>1, <2>2, <2>3
<1>8. F["default"] = B["default"]
  BY <1>1, <1>5
<1>9. FreshDefault(F)
  <2> SUFFICES ASSUME NEW i \in owed, F["default"].id = i,
                      \E s \in Slots : F[s].id = i /\ Live(F[s])
               PROVE  Live(F["default"])
    BY DEF FreshDefault, Current
  <2>1. i # None
    BY Names DEF TypeOK
  <2>2. \E s \in Slots : B[s].id = i /\ Live(B[s])
    BY <1>1, <1>5, <2>1
  <2> QED BY <1>3, <1>8, <2>2 DEF FreshDefault, Current
<1>10. KeptSomewhere(F)
  <2> SUFFICES ASSUME NEW i \in owed \ unrestored
               PROVE  \E s \in Slots : F[s].id = i /\ Live(F[s])
    BY DEF KeptSomewhere, Current
  <2>1. PICK s \in Slots : B[s].id = i /\ Live(B[s])
    BY <1>3 DEF KeptSomewhere, Current
  <2>2. i # None
    BY Names DEF TypeOK
  <2>3. CASE B["default"].id = i
    BY <1>1, <1>3, <1>8, <2>1, <2>3 DEF FreshDefault, Current
  <2>4. CASE B["default"].id # i
    <3>1. s # L
      BY <1>6, <2>1, <2>2, <2>4
    <3> QED BY <1>5, <2>1, <3>1
  <2> QED BY <2>3, <2>4
<1>11. Good(F, mk)
  BY <1>2, <1>7, <1>8, <1>9, <1>10 DEF Good
<1> QED BY <1>11 DEF B, L, mk, F

-----------------------------------------------------------------------------
(* The steps of an operation. *)

(***************************************************************************)
(* An operation that ends leaves nobody at work, and so what it must leave *)
(* is a good state; one that goes on is the only one at work.              *)
(***************************************************************************)
LEMMA EndsWork ==
  ASSUME TypeInv, LockInv, NEW p \in Procs, pc[p] # "idle", Return(p)
  PROVE  WorkInv'
<1>1. \A q \in Procs : pc'[q] = "idle"
  BY Alone, ReturnDoes DEF TypeInv
<1> QED BY <1>1 DEF WorkInv, WorkOk

LEMMA GoesOnWork ==
  ASSUME LockInv, NEW p \in Procs, pc[p] # "idle",
         \A q \in Procs \ {p} : pc'[q] = pc[q], WorkOk(p)'
  PROVE  WorkInv'
<1>1. \A q \in Procs \ {p} : pc'[q] = "idle"
  BY Alone
<1> QED BY <1>1 DEF WorkInv, WorkOk

LEMMA EndsGood ==
  ASSUME TypeInv, LockInv, NEW p \in Procs, pc[p] # "idle", Return(p), ref' = ref,
         Good(slot, marker)'
  PROVE  Whole'
<1>1. ref'.pc = "idle" /\ \A q \in Procs : pc'[q] = "idle"
  BY Alone, ReturnDoes DEF TypeInv
<1> QED BY <1>1 DEF Whole, RefInv, FoundGood

LEMMA GoesOnGood ==
  ASSUME LockInv, NEW p \in Procs, pc[p] # "idle", UNCHANGED <<lock, ref>>,
         \A q \in Procs \ {p} : pc'[q] = pc[q], FoundGood(p)'
  PROVE  Whole'
<1>1. lock' # None /\ ref'.pc = "idle" /\ \A q \in Procs \ {p} : pc'[q] = "idle"
  BY Alone
<1> QED BY <1>1 DEF Whole, RefInv, FoundGood

(***************************************************************************)
(* An operation begins: it has found what is there.                        *)
(***************************************************************************)
LEMMA BeginKeeps ==
  ASSUME Rivals = {}, TypeInv, LockInv, NEW p \in Procs, Begin(p)
  PROVE  WorkInv' /\ (Whole => Whole')
<1>1. PICK kind \in {"switch", "adopt"}, label \in Accounts, force \in BOOLEAN, dry \in BOOLEAN :
        /\ job' = [job EXCEPT ![p] =
             [kind |-> kind, label |-> label, force |-> force, dry |-> dry,
              active |-> None, plan |-> <<>>, undo |-> <<>>,
              before |-> [slot |-> slot, marker |-> marker, faults |-> faults]]]
        /\ Goto(p, kind)
  BY DEF Begin
<1>2. /\ lock = None /\ ref.pc = "idle" /\ lock' = p
      /\ UNCHANGED <<slot, marker, own, issued, ref, faults, owed, cut, torn, unrestored>>
  BY DEF Begin, disk, history
<1>3. pc'[p] = kind /\ \A q \in Procs \ {p} : pc'[q] = "idle"
  BY <1>1, <1>2, GotoDoes, Names DEF TypeInv, LockInv
<1>4. /\ job'[p].before.slot = slot' /\ job'[p].before.marker = marker'
      /\ job'[p].before.faults = faults'
  BY <1>1, <1>2 DEF TypeInv, TypeOK
<1>5. WorkInv'
  BY <1>3, <1>4 DEF WorkInv, WorkOk
<1>6. ASSUME Whole PROVE Whole'
  <2>1. PICK B : B = [slot |-> slot, marker |-> marker, faults |-> faults]
    OBVIOUS
  <2>2. Good(B.slot, B.marker)'
    <3>1. Good(B.slot, B.marker)
      BY <1>2, <1>6, <2>1 DEF Whole
    <3> QED BY <1>2, <3>1, GoodFrame
  <2>3. job'[p].before = B
    BY <1>1, <2>1 DEF TypeInv, TypeOK
  <2>4. \A q \in Procs : FoundGood(q)'
    BY <1>3, <2>2, <2>3 DEF FoundGood
  <2> QED BY <1>2, <2>4, Names DEF Whole, RefInv
<1> QED BY <1>5, <1>6

(***************************************************************************)
(* Before the first write the files are as the operation found them.       *)
(***************************************************************************)
LEMMA IdentifyKeeps ==
  ASSUME TypeInv, LockInv, OwnersDiffer, WorkInv, NEW p \in Procs, Identify(p)
  PROVE  WorkInv' /\ (Whole => Whole')
<1>1. /\ pc[p] = "switch" /\ job[p] \in Switches /\ Goto(p, "read")
      /\ UNCHANGED <<slot, marker, own, issued, lock, ref, faults, owed, cut, torn, unrestored>>
      /\ job' = [job EXCEPT ![p].active = ActiveLabel]
  BY DEF Identify, TypeInv, disk, history
<1>2. job'[p] = [job[p] EXCEPT !.active = ActiveLabel]
  BY <1>1 DEF TypeInv, TypeOK
<1>3. job'[p].active = ActiveLabel /\ job'[p].before = job[p].before
  <2>1. ActiveLabel \in Accounts \cup {None}
    BY ActiveLabelType
  <2>2. /\ [job[p] EXCEPT !.active = ActiveLabel].active = ActiveLabel
        /\ [job[p] EXCEPT !.active = ActiveLabel].before = job[p].before
    BY <1>1, <2>1, JobUpdates
  <2> QED BY <1>2, <2>2
<1>4. pc'[p] = "read" /\ \A q \in Procs \ {p} : pc'[q] = pc[q]
  BY <1>1, GotoDoes DEF TypeInv
<1>5. ActiveIs(job[p].active, marker)'
  BY <1>1, <1>3, ActiveLabelIs DEF ActiveIs
<1>6. ref.pc = "idle"
  BY <1>1, Alone
<1>7. PICK B : B = job[p].before
  OBVIOUS
<1>8. slot = B.slot /\ marker = B.marker /\ faults = B.faults
  BY <1>1, <1>7 DEF WorkInv, WorkOk
<1>9. WorkOk(p)'
  BY <1>1, <1>3, <1>4, <1>5, <1>7, <1>8 DEF WorkOk
<1>10. ASSUME Whole PROVE FoundGood(p)'
  <2>1. Good(B.slot, B.marker)
    BY <1>1, <1>7, <1>10 DEF Whole, FoundGood
  <2>2. Good(B.slot, B.marker)'
    BY <1>1, <1>6, <2>1, GoodFrame
  <2> QED BY <1>3, <1>4, <1>7, <2>2 DEF FoundGood
<1> QED BY <1>1, <1>4, <1>9, <1>10, GoesOnWork, GoesOnGood

(***************************************************************************)
(* The lists that a switch makes before its first write.                   *)
(***************************************************************************)
LEMMA JoinedThree ==
  ASSUME NEW w1, NEW w2, NEW w3
  PROVE  /\ <<>> \o <<w1, w2, w3>> = <<w1, w2, w3>>
         /\ (<<w1, w2>> \o <<>>) \o <<w3>> = <<w1, w2, w3>>
         /\ <<w1, w2>> \o <<w3>> = <<w1, w2, w3>>
<1> DEFINE S == {w1, w2, w3}
<1>1. /\ <<w1, w2>> \in Seq(S) /\ <<w3>> \in Seq(S) /\ <<w1, w2, w3>> \in Seq(S)
  OBVIOUS
<1>2. \A s \in Seq(S) : <<>> \o s = s /\ s \o <<>> = s
  OBVIOUS
<1>3. <<w1, w2>> \o <<w3>> = <<w1, w2, w3>>
  <2>1. <<w1, w2>> \o <<w3>> \in Seq(S) /\ Len(<<w1, w2>> \o <<w3>>) = 3
    BY <1>1
  <2>2. \A i \in 1 .. 3 : (<<w1, w2>> \o <<w3>>)[i] = <<w1, w2, w3>>[i]
    BY <1>1
  <2> HIDE DEF S
  <2> QED BY <1>1, <2>1, <2>2, SeqEqual
<1> HIDE DEF S
<1> QED BY <1>1, <1>2, <1>3

LEMMA JoinedFour ==
  ASSUME NEW w1, NEW w2, NEW w3, NEW w4
  PROVE  /\ <<w1>> \o <<w2, w3, w4>> = <<w1, w2, w3, w4>>
         /\ (<<w1, w2>> \o <<w3>>) \o <<w4>> = <<w1, w2, w3, w4>>
<1> DEFINE S == {w1, w2, w3, w4}
<1>1. /\ <<w1>> \in Seq(S) /\ <<w4>> \in Seq(S) /\ <<w1, w2, w3>> \in Seq(S)
      /\ <<w2, w3, w4>> \in Seq(S) /\ <<w1, w2, w3, w4>> \in Seq(S)
  OBVIOUS
<1>2. <<w1>> \o <<w2, w3, w4>> = <<w1, w2, w3, w4>>
  <2>1. <<w1>> \o <<w2, w3, w4>> \in Seq(S) /\ Len(<<w1>> \o <<w2, w3, w4>>) = 4
    BY <1>1
  <2>2. \A i \in 1 .. 4 : (<<w1>> \o <<w2, w3, w4>>)[i] = <<w1, w2, w3, w4>>[i]
    BY <1>1
  <2> HIDE DEF S
  <2> QED BY <1>1, <2>1, <2>2, SeqEqual
<1>3. <<w1, w2, w3>> \o <<w4>> = <<w1, w2, w3, w4>>
  <2>1. <<w1, w2, w3>> \o <<w4>> \in Seq(S) /\ Len(<<w1, w2, w3>> \o <<w4>>) = 4
    BY <1>1
  <2>2. \A i \in 1 .. 4 : (<<w1, w2, w3>> \o <<w4>>)[i] = <<w1, w2, w3, w4>>[i]
    BY <1>1
  <2> HIDE DEF S
  <2> QED BY <1>1, <2>1, <2>2, SeqEqual
<1> QED BY <1>2, <1>3, JoinedThree

LEMMA PlanIs ==
  ASSUME NEW j \in Switches, slot = j.before.slot
  PROVE  Plan(j) = IF j.active # None /\ slot["default"] # Absent
                   THEN <<CapturePut(j), DefaultPut(j), MarkerPut(j), LastPut(j)>>
                   ELSE <<DefaultPut(j), MarkerPut(j), LastPut(j)>>
<1> DEFINE rest == <<DefaultPut(j), MarkerPut(j), LastPut(j)>>
<1>1. /\ <<CapturePut(j)>> \o rest = <<CapturePut(j), DefaultPut(j), MarkerPut(j), LastPut(j)>>
      /\ <<>> \o rest = rest
  BY JoinedThree, JoinedFour
<1>2. Plan(j) = IF j.active # None /\ slot["default"] # Absent
                THEN <<CapturePut(j)>> \o rest ELSE <<>> \o rest
  <2> USE DEF Plan, CapturePut, DefaultPut, MarkerPut, LastPut
  <2>1. CASE j.active # None /\ slot["default"] # Absent
    BY <2>1
  <2>2. CASE ~(j.active # None /\ slot["default"] # Absent)
    BY <2>2
  <2> QED BY <2>1, <2>2
<1> QED BY <1>1, <1>2

LEMMA UndoIs ==
  ASSUME TypeOK, NEW j \in Switches, slot = j.before.slot, marker = j.before.marker
  PROVE  /\ PutsBack(Undo(j), j.before)
         /\ \A at \in {"default", "marker", j.label} \cup ({j.active} \ {None}) :
              Covers(Undo(j), at)
<1> DEFINE d == Put("default", slot["default"])
           l == Put(j.label, slot[j.label])
           a == Put(j.active, slot[j.active])
           m == Put("marker", [id |-> marker, rt |-> 0])
<1>3. /\ j.label \in Slots /\ j.label # "marker"
      /\ j.active # None => j.active \in Slots /\ j.active # "marker"
  BY JobFields, Names
<1>4. /\ d.at = "default" /\ d.put = slot["default"] /\ l.at = j.label /\ l.put = slot[j.label]
      /\ a.at = j.active /\ a.put = slot[j.active] /\ m.at = "marker" /\ m.put.id = marker
  BY DEF Put
<1>5. Undo(j) = IF j.active # None THEN <<d, l, a, m>> ELSE <<d, l, m>>
  <2>1. Undo(j) = IF j.active # None THEN (<<d, l>> \o <<a>>) \o <<m>>
                  ELSE (<<d, l>> \o <<>>) \o <<m>>
    <3>1. CASE j.active # None
      BY <3>1 DEF Undo
    <3>2. CASE j.active = None
      BY <3>2 DEF Undo
    <3> QED BY <3>1, <3>2
  <2> HIDE DEF d, l, a, m
  <2>2. (<<d, l>> \o <<a>>) \o <<m>> = <<d, l, a, m>> /\ (<<d, l>> \o <<>>) \o <<m>> = <<d, l, m>>
    BY JoinedThree, JoinedFour
  <2> QED BY <2>1, <2>2
<1> HIDE DEF d, l, a, m
<1>6. CASE j.active # None
  <2> DEFINE u == <<d, l, a, m>>
  <2>1. /\ DOMAIN u = 1 .. 4 /\ u[1] = d /\ u[2] = l /\ u[3] = a /\ u[4] = m
    OBVIOUS
  <2>2. Undo(j) = u
    BY <1>5, <1>6
  <2> HIDE DEF u
  <2>3. \A k \in DOMAIN u : u[k] \in {d, l, a, m}
    BY <2>1
  <2>4. PutsBack(u, j.before)
    BY <1>3, <1>4, <1>6, <2>3 DEF PutsBack
  <2>5. \A w \in {d, l, a, m} : Covers(u, w.at)
    BY <2>1 DEF Covers
  <2> QED BY <1>4, <2>2, <2>4, <2>5
<1>7. CASE j.active = None
  <2> DEFINE u == <<d, l, m>>
  <2>1. /\ DOMAIN u = 1 .. 3 /\ u[1] = d /\ u[2] = l /\ u[3] = m
    OBVIOUS
  <2>2. Undo(j) = u
    BY <1>5, <1>7
  <2> HIDE DEF u
  <2>3. \A k \in DOMAIN u : u[k] \in {d, l, m}
    BY <2>1
  <2>4. PutsBack(u, j.before)
    BY <1>3, <1>4, <1>7, <2>3 DEF PutsBack
  <2>5. \A w \in {d, l, m} : Covers(u, w.at)
    BY <2>1 DEF Covers
  <2> QED BY <1>4, <1>7, <2>2, <2>4, <2>5
<1> QED BY <1>6, <1>7

LEMMA ReadSlotsKeeps ==
  ASSUME TypeInv, LockInv, OwnersDiffer, WorkInv, NEW p \in Procs, ReadSlots(p)
  PROVE  WorkInv' /\ (Whole /\ ~misled' => Whole')
<1>1. /\ pc[p] = "read" /\ job[p] \in Switches
      /\ UNCHANGED <<slot, marker, own, issued, ref, faults, owed, cut, torn, unrestored>>
  BY DEF ReadSlots, TypeInv, disk
<1>2. ref.pc = "idle"
  BY <1>1, Alone
<1>3. PICK j \in Switches : j = job[p]
  BY <1>1
<1>4. /\ ActiveIs(j.active, marker)
      /\ slot = j.before.slot /\ marker = j.before.marker /\ faults = j.before.faults
  BY <1>1, <1>3 DEF WorkInv, WorkOk
<1>5. ASSUME Whole PROVE Good(j.before.slot, j.before.marker)'
  <2>1. Good(j.before.slot, j.before.marker)
    BY <1>1, <1>3, <1>5 DEF Whole, FoundGood
  <2> QED BY <1>1, <1>2, <2>1, GoodFrame
<1>6. CASE Return(p)
  <2>1. WorkInv'
    BY <1>1, <1>6, EndsWork
  <2>2. ASSUME Whole PROVE Whole'
    <3>1. Good(slot, marker)'
      BY <1>1, <1>4, <1>5, <2>2
    <3> QED BY <1>1, <1>6, <3>1, EndsGood
  <2> QED BY <2>1, <2>2
<1>7. CASE ~Return(p)
  <2> DEFINE drops == AlreadyActive(j)
             k == IF drops THEN Planned(j, <<Put(j.label, Absent)>>, <<>>)
                  ELSE Planned(j, Plan(j), Undo(j))
  <2>1. /\ IF drops THEN slot[j.label] # Absent ELSE ~Refused(j)
        /\ job' = [job EXCEPT ![p] = k] /\ Goto(p, "write") /\ lock' = lock
        /\ misled' = (misled \/ (AtOdds /\ j.active # None))
    BY <1>3, <1>7 DEF ReadSlots
  <2>2. job'[p] = k /\ pc'[p] = "write" /\ \A q \in Procs \ {p} : pc'[q] = pc[q]
    BY <2>1, GotoDoes DEF TypeInv, TypeOK
  <2>3. PICK n : n = k
    OBVIOUS
  <2>4. /\ n.label = j.label /\ n.active = j.active /\ n.force = j.force /\ n.before = j.before
        /\ drops => n.plan = <<LastPut(j)>> /\ n.undo = <<>>
        /\ ~drops => n.plan = Plan(j) /\ n.undo = Undo(j)
    BY <2>3, PlannedFields DEF LastPut
  <2> HIDE DEF k
  <2>5. slot["default"].id # None <=> slot["default"] # Absent
    BY <1>4, MoveTypes
  <2>6. ASSUME WorkOk(p)'
        PROVE  WorkInv' /\ (Whole /\ ~misled' => Whole')
    <3>1. WorkInv'
      BY <1>1, <2>2, <2>6, GoesOnWork
    <3>2. ASSUME Whole, ~misled' PROVE Whole'
      <4>1. Good(n.before.slot, n.before.marker)'
        BY <1>5, <2>4, <3>2
      <4>2. Trusted(n)'
        BY <1>4, <2>1, <2>4, <2>5, <3>2 DEF Trusted, Captures, AtOdds
      <4>3. FoundGood(p)'
        BY <2>2, <2>3, <4>1, <4>2 DEF FoundGood
      <4> QED BY <1>1, <2>1, <2>2, <4>3, GoesOnGood
    <3> QED BY <3>1, <3>2
  <2>7. CASE drops
    <3>1. j.active = j.label /\ slot["default"].id # None
      BY <2>5, <2>7 DEF AlreadyActive
    <3>2. DropOk(n)
      BY <1>4, <2>4, <2>7, <3>1 DEF DropOk, LastPut
    <3>3. DropOk(n)'
      BY <1>1, <3>2 DEF DropOk, LastPut, ActiveIs
    <3>4. WorkOk(p)'
      BY <1>1, <1>4, <2>2, <2>3, <2>4, <3>3 DEF WorkOk
    <3> QED BY <2>6, <3>4
  <2>8. CASE ~drops
    <3>1. /\ slot[j.label] # Absent /\ own[j.label] # None
          /\ j.active = None /\ slot["default"] # Absent => j.force
          /\ ~(j.active = j.label /\ slot["default"] # Absent)
      BY <2>1, <2>8 DEF Refused, AlreadyActive
    <3>2. slot[j.label].id # None
      BY <1>4, <3>1, MoveTypes
    <3>3. MoveReady(n)
      BY <1>4, <2>4, <2>5, <3>1, <3>2 DEF MoveReady
    <3>4. UndoReady(n)
      BY <1>4, <2>4, <2>8, UndoIs DEF UndoReady, TypeInv
    <3>5. /\ DefaultPut(n) = DefaultPut(j) /\ MarkerPut(n) = MarkerPut(j)
          /\ LastPut(n) = LastPut(j) /\ CapturePut(n) = CapturePut(j)
      BY <2>4 DEF DefaultPut, MarkerPut, LastPut, CapturePut
    <3>6. Stage(n)
      <4>1. CASE j.active # None /\ slot["default"] # Absent
        BY <1>4, <2>4, <2>8, <3>5, <4>1, PlanIs DEF Stage
      <4>2. CASE ~(j.active # None /\ slot["default"] # Absent)
        <5>1. Captured(n) = slot
          BY <1>4, <2>4, <4>2 DEF Captured
        <5> QED BY <1>4, <2>4, <2>8, <3>5, <4>2, <5>1, PlanIs DEF Stage
      <4> QED BY <4>1, <4>2
    <3>7. MoveReady(n)' /\ UndoReady(n)'
      BY <1>1, <3>3, <3>4 DEF MoveReady, UndoReady, ActiveIs
    <3>8. Stage(n)'
      <4>1. /\ MarkerPut(n)' = MarkerPut(n) /\ own'[n.label] = own[n.label]
        BY <1>1 DEF MarkerPut
      <4> QED BY <1>1, <3>6, <4>1 DEF Stage
    <3>9. MoveOk(n)'
      BY <3>7, <3>8 DEF MoveOk
    <3>10. WorkOk(p)'
      BY <1>1, <1>4, <2>2, <2>3, <2>4, <3>9 DEF WorkOk
    <3> QED BY <2>6, <3>10
  <2> QED BY <2>7, <2>8
<1> QED BY <1>6, <1>7

(***************************************************************************)
(* An adoption records what the marker says in an account whose slot is    *)
(* empty.                                                                  *)
(***************************************************************************)
LEMMA AdoptKeeps ==
  ASSUME TypeInv, LockInv, OwnersDiffer, WorkInv, NEW p \in Procs, AdoptCurrent(p)
  PROVE  WorkInv' /\ (Whole => Whole')
<1>1. /\ pc[p] = "adopt" /\ job[p] \in Switches /\ Return(p)
      /\ UNCHANGED <<slot, marker, issued, ref, owed, cut, torn, unrestored>>
  BY DEF AdoptCurrent, TypeInv, history
<1>2. ref.pc = "idle"
  BY <1>1, Alone
<1>3. WorkInv'
  BY <1>1, EndsWork
<1> SUFFICES ASSUME Whole PROVE Good(slot, marker)'
  BY <1>1, <1>3, EndsGood
<1>4. Good(slot, marker)
  BY <1>1 DEF Whole, FoundGood, WorkInv, WorkOk
<1>5. CASE UNCHANGED own
  <2>1. PICK sl, mk : sl = slot /\ mk = marker
    OBVIOUS
  <2>2. Good(sl, mk)'
    BY <1>1, <1>2, <1>4, <1>5, <2>1, GoodFrame
  <2> QED BY <1>1, <2>1, <2>2
<1>6. CASE Adoptable(job[p]) /\ own' = [own EXCEPT ![job[p].label] = marker]
  <2>1. PICK L \in Accounts : L = job[p].label
    BY <1>1, JobFields
  <2>2. /\ own'[L] = marker /\ \A a \in Accounts \ {L} : own'[a] = own[a]
        /\ slot[L].id = None
    BY <1>6, <2>1, BlobFields DEF Adoptable, TypeInv, TypeOK
  <2>3. BlobsSound(slot)' /\ KeptSomewhere(slot)' /\ (slot["default"].id = marker => FreshDefault(slot)')
    BY <1>1, <1>4 DEF Good, BlobsSound, KeptSomewhere, FreshDefault, Current, Live
  <2>4. Claimed(slot)'
    BY <1>1, <1>4, <2>2 DEF Good, Claimed
  <2>5. OneCopy(slot)'
    <3>1. \A s \in Slots : s # L => (s = "default" \/ own'[s] = own[s])
      BY <2>2 DEF Slots
    <3> SUFFICES ASSUME NEW s \in Slots, NEW t \in Slots, s # t, slot[s].id # None,
                        slot[s].id = slot[t].id
                 PROVE  /\ cut
                        /\ \/ s = "default" /\ own'[t] = slot[t].id
                           \/ t = "default" /\ own'[s] = slot[s].id
      BY <1>1 DEF OneCopy
    <3>2. s # L /\ t # L
      BY <2>2
    <3> QED BY <1>4, <2>2, <3>1, <3>2 DEF Good, OneCopy
  <2> QED BY <1>1, <1>4, <2>3, <2>4, <2>5 DEF Good
<1> QED BY <1>5, <1>6 DEF AdoptCurrent

(***************************************************************************)
(* The writes of a move take it from stage to stage.                       *)
(***************************************************************************)
LEMMA TailsAre ==
  ASSUME NEW w1, NEW w2, NEW w3, NEW w4
  PROVE  /\ Head(<<w1, w2, w3, w4>>) = w1 /\ Len(<<w1, w2, w3, w4>>) = 4
         /\ Tail(<<w1, w2, w3, w4>>) = <<w2, w3, w4>>
         /\ Head(<<w1, w2, w3>>) = w1 /\ Len(<<w1, w2, w3>>) = 3
         /\ Tail(<<w1, w2, w3>>) = <<w2, w3>>
         /\ Head(<<w1, w2>>) = w1 /\ Len(<<w1, w2>>) = 2 /\ Tail(<<w1, w2>>) = <<w2>>
         /\ Head(<<w1>>) = w1 /\ Len(<<w1>>) = 1
<1> DEFINE S == {w1, w2, w3, w4}
<1>1. /\ <<w1>> \in Seq(S) /\ <<w2>> \in Seq(S) /\ <<w1, w2>> \in Seq(S) /\ <<w2, w3>> \in Seq(S)
      /\ <<w1, w2, w3>> \in Seq(S) /\ <<w2, w3, w4>> \in Seq(S) /\ <<w1, w2, w3, w4>> \in Seq(S)
  OBVIOUS
<1>2. /\ Head(<<w1, w2, w3, w4>>) = w1 /\ Len(<<w1, w2, w3, w4>>) = 4
      /\ Head(<<w1, w2, w3>>) = w1 /\ Len(<<w1, w2, w3>>) = 3
      /\ Head(<<w1, w2>>) = w1 /\ Len(<<w1, w2>>) = 2 /\ Head(<<w1>>) = w1 /\ Len(<<w1>>) = 1
  BY <1>1
<1>3. Tail(<<w1, w2, w3, w4>>) = <<w2, w3, w4>>
  BY <1>1
<1>4. Tail(<<w1, w2, w3>>) = <<w2, w3>>
  BY <1>1
<1>5. Tail(<<w1, w2>>) = <<w2>>
  BY <1>1
<1> HIDE DEF S
<1> QED BY <1>2, <1>3, <1>4, <1>5

(***************************************************************************)
(* --force gives up the login it overwrites.                               *)
(***************************************************************************)
LEMMA ForcedOut ==
  ASSUME TypeOK, NEW j \in Switches, MoveReady(j), slot["default"] = j.before.slot["default"],
         j.active = None, NEW w, w.at = "default", owed' = owed \ Discarded(j, w)
  PROVE  j.before.slot["default"].id \notin owed'
<1> SUFFICES ASSUME j.before.slot["default"].id \in owed' PROVE FALSE
  OBVIOUS
<1>1. j.before.slot["default"].id # None
  BY Names DEF TypeOK
<1>2. j.force
  BY <1>1 DEF MoveReady
<1>3. Discarded(j, w) = {j.before.slot["default"].id}
  BY <1>2 DEF Discarded
<1> QED BY <1>3

LEMMA StageStep ==
  ASSUME TypeInv, UNCHANGED own, NEW j \in Switches, MoveOk(j),
         Apply(Head(j.plan)), owed' = owed \ Discarded(j, Head(j.plan)),
         NEW n, n.label = j.label, n.active = j.active, n.before = j.before,
         n.plan = Tail(j.plan)
  PROVE  /\ Len(j.plan) # 1 => Stage(n)'
         /\ Len(j.plan) = 1 =>
              /\ slot' = Finished(j) /\ marker' = own[j.label]
              /\ j.active = None => j.before.slot["default"].id \notin owed
<1> DEFINE B == j.before.slot
<1>1. /\ MoveReady(j) /\ Stage(j)
      /\ slot \in [Slots -> Blobs] /\ TypeOK /\ B \in [Slots -> Blobs]
      /\ j.label \in Slots /\ j.label # "default" /\ j.label # "marker" /\ "default" \in Slots
      /\ j.active # None => j.active \in Slots /\ j.active # "marker"
  BY JobFields, Names DEF MoveOk, TypeInv, TypeOK
<1>2. /\ DefaultPut(n)' = DefaultPut(j) /\ MarkerPut(n)' = MarkerPut(j)
      /\ LastPut(n)' = LastPut(j) /\ CapturePut(n)' = CapturePut(j)
      /\ Captured(n)' = Captured(j) /\ Installed(n)' = Installed(j) /\ own'[n.label] = own[j.label]
  BY DEF DefaultPut, MarkerPut, LastPut, CapturePut, Captured, Installed
<1>3. /\ CapturePut(j).at = j.active /\ CapturePut(j).put = B["default"]
      /\ DefaultPut(j).at = "default" /\ DefaultPut(j).put = B[j.label]
      /\ MarkerPut(j).at = "marker" /\ MarkerPut(j).put.id = own[j.label]
      /\ LastPut(j).at = j.label /\ LastPut(j).put = Absent
  BY DEF CapturePut, DefaultPut, MarkerPut, LastPut, Put
<1>4. Captured(j)["default"] = B["default"]
  BY CapturedSlots
<1>5. PICK c, d, m, l : c = CapturePut(j) /\ d = DefaultPut(j) /\ m = MarkerPut(j) /\ l = LastPut(j)
  OBVIOUS
<1>6. CASE /\ j.plan = <<c, d, m, l>>
           /\ j.active # None /\ B["default"] # Absent
           /\ slot = B /\ marker = j.before.marker
  <2>1. Head(j.plan) = c /\ n.plan = <<d, m, l>> /\ Len(j.plan) # 1
    BY <1>6, TailsAre
  <2>2. slot' = [B EXCEPT ![j.active] = B["default"]] /\ marker' = j.before.marker
    BY <1>1, <1>3, <1>5, <1>6, <2>1 DEF Apply
  <2>3. slot' = Captured(j)
    BY <1>6, <2>2 DEF Captured
  <2>4. Stage(n)'
    BY <1>2, <1>5, <2>1, <2>2, <2>3 DEF Stage
  <2> QED BY <2>1, <2>4
<1>7. CASE /\ j.plan = <<d, m, l>>
           /\ slot = Captured(j) /\ marker = j.before.marker
  <2>1. Head(j.plan) = d /\ n.plan = <<m, l>> /\ Len(j.plan) # 1
    BY <1>7, TailsAre
  <2>2. slot' = [Captured(j) EXCEPT !["default"] = B[j.label]] /\ marker' = j.before.marker
    BY <1>3, <1>5, <1>7, <2>1 DEF Apply
  <2>3. slot' = Installed(j)
    BY <2>2 DEF Installed
  <2>4. j.active = None => B["default"].id \notin owed'
    BY <1>1, <1>3, <1>4, <1>5, <1>7, <2>1, ForcedOut
  <2>5. Stage(n)'
    BY <1>2, <1>5, <2>1, <2>2, <2>3, <2>4 DEF Stage
  <2> QED BY <2>1, <2>5
<1>8. CASE /\ j.plan = <<m, l>>
           /\ slot = Installed(j) /\ marker = j.before.marker
           /\ j.active = None => B["default"].id \notin owed
  <2>1. Head(j.plan) = m /\ n.plan = <<l>> /\ Len(j.plan) # 1
    BY <1>8, TailsAre
  <2>2. slot' = Installed(j) /\ marker' = own[j.label]
    BY <1>3, <1>5, <1>8, <2>1 DEF Apply
  <2>3. Stage(n)'
    BY <1>1, <1>2, <1>5, <1>8, <2>1, <2>2 DEF Stage
  <2> QED BY <2>1, <2>3
<1>9. CASE /\ j.plan = <<l>>
           /\ slot = Installed(j) /\ marker = own[j.label]
           /\ j.active = None => B["default"].id \notin owed
  <2>1. Head(j.plan) = l /\ Len(j.plan) = 1
    BY <1>9, TailsAre
  <2>2. slot' = Finished(j) /\ marker' = own[j.label]
    BY <1>1, <1>3, <1>5, <1>9, <2>1 DEF Apply, Finished
  <2> QED BY <1>9, <2>1, <2>2
<1> QED BY <1>1, <1>5, <1>6, <1>7, <1>8, <1>9 DEF Stage

(***************************************************************************)
(* A write that fails leaves the rollback everything it needs.             *)
(***************************************************************************)
LEMMA StageUndo ==
  ASSUME TypeInv, NEW j \in Switches, MoveOk(j),
         NEW w, w = Head(j.plan), (w.at # "marker" /\ Apply(w)) \/ UNCHANGED <<slot, marker>>,
         owed' = owed \ Discarded(j, w)
  PROVE  /\ Restorable(j.undo, j.before)'
         /\ Mixed(j, slot')
         /\ \A missing : PutBack(j.undo, j.before, slot', missing)
         /\ j.active = None => j.before.slot["default"].id \notin owed'
<1> DEFINE B == j.before.slot
           Touched == {"default", "marker", j.label} \cup ({j.active} \ {None})
<1>1. /\ UndoReady(j) /\ Stage(j) /\ MoveReady(j) /\ TypeOK
      /\ slot \in [Slots -> Blobs] /\ B \in [Slots -> Blobs]
      /\ j.label \in Slots /\ j.label # "marker" /\ "default" \in Slots /\ "marker" \notin Slots
      /\ j.label # "default"
      /\ j.active # None => j.active \in Slots /\ j.active # "marker"
  BY JobFields, Names DEF MoveOk, TypeInv, TypeOK
<1>2. /\ CapturePut(j).at = j.active /\ CapturePut(j).put = B["default"]
      /\ DefaultPut(j).at = "default" /\ DefaultPut(j).put = B[j.label]
      /\ MarkerPut(j).at = "marker" /\ MarkerPut(j).put.id = own[j.label]
      /\ LastPut(j).at = j.label /\ LastPut(j).put = Absent
  BY DEF CapturePut, DefaultPut, MarkerPut, LastPut, Put
<1>3. PICK c, d, m, l : c = CapturePut(j) /\ d = DefaultPut(j) /\ m = MarkerPut(j) /\ l = LastPut(j)
  OBVIOUS
<1>4. owed' \subseteq owed
  OBVIOUS
<1>5. /\ slot' \in {B, Captured(j), Installed(j), Finished(j)}
      /\ marker' = j.before.marker \/ Covers(j.undo, "marker")
      /\ j.active = None => B["default"].id \notin owed'
  <2>1. Covers(j.undo, "marker")
    BY <1>1 DEF UndoReady
  <2>2. CASE j.plan = <<c, d, m, l>> /\ j.active # None /\ B["default"] # Absent /\ slot = B
    <3>1. w = c
      BY <2>2, TailsAre
    <3>2. slot' = B \/ slot' = Captured(j)
      BY <1>1, <1>2, <1>3, <2>2, <3>1 DEF Apply, Captured
    <3> QED BY <2>1, <2>2, <3>2
  <2>3. CASE j.plan = <<d, m, l>> /\ slot = Captured(j)
    <3>1. w = d
      BY <2>3, TailsAre
    <3>2. slot' = Captured(j) \/ slot' = Installed(j)
      BY <1>1, <1>2, <1>3, <2>3, <3>1 DEF Apply, Installed
    <3>3. slot["default"] = B["default"]
      BY <2>3, CapturedSlots
    <3>4. j.active = None => B["default"].id \notin owed'
      BY <1>1, <1>2, <1>3, <3>1, <3>3, ForcedOut
    <3> QED BY <2>1, <3>2, <3>4
  <2>4. CASE /\ j.plan = <<m, l>> /\ slot = Installed(j)
             /\ j.active = None => B["default"].id \notin owed
    <3>1. w = m
      BY <2>4, TailsAre
    <3>2. slot' = Installed(j)
      BY <1>2, <1>3, <2>4, <3>1
    <3> QED BY <1>4, <2>1, <2>4, <3>2
  <2>5. CASE /\ j.plan = <<l>> /\ slot = Installed(j)
             /\ j.active = None => B["default"].id \notin owed
    <3>1. w = l
      BY <2>5, TailsAre
    <3>2. slot' = Installed(j) \/ slot' = Finished(j)
      BY <1>1, <1>2, <1>3, <2>5, <3>1 DEF Apply, Finished
    <3> QED BY <1>4, <2>1, <2>5, <3>2
  <2> QED BY <1>1, <1>3, <2>2, <2>3, <2>4, <2>5 DEF Stage
<1>6. Mixed(j, slot')
  BY <1>5, StagesMixed
<1>7. \A s \in Slots \ Touched : slot'[s] = B[s]
  BY <1>5, CapturedSlots, InstalledSlots, FinishedSlots, Names DEF Captures
<1>8. \A at \in Touched : Covers(j.undo, at)
  BY <1>1 DEF UndoReady
<1>9. PutsBack(j.undo, j.before)
  BY <1>1 DEF UndoReady
<1>10. \A s \in Slots : slot'[s] = B[s] \/ Covers(j.undo, s)
  BY <1>7, <1>8
<1> QED BY <1>5, <1>6, <1>9, <1>10 DEF Restorable, PutBack

(***************************************************************************)
(* A step of the rollback, whether it fails or not.                        *)
(***************************************************************************)
LEMMA UndoStep ==
  ASSUME TypeInv, NEW j \in Switches, j.undo # <<>>, RollBackOk(j),
         NEW w, w = Head(j.undo), Apply(w) \/ UNCHANGED <<slot, marker>>
  PROVE  /\ PutsBack(Tail(j.undo), j.before)
         /\ Mixed(j, slot')
         /\ PutBack(Tail(j.undo), j.before, slot', unrestored \cup Missing(<<w>>, slot'))
         /\ Apply(w) /\ Restorable(j.undo, j.before) =>
              /\ Restorable(Tail(j.undo), j.before)'
              /\ Len(j.undo) = 1 => slot' = j.before.slot /\ marker' = j.before.marker
         /\ Len(j.undo) = 1 => \A at : ~Covers(Tail(j.undo), at)
<1> DEFINE B == j.before.slot
           u == j.undo
           t == Tail(j.undo)
<1>1. /\ u \in Seq(Writes) /\ B \in [Slots -> Blobs] /\ "marker" \notin Slots
      /\ slot \in [Slots -> Blobs]
  BY JobFields, Names DEF TypeInv, TypeOK
<1>2. /\ w = u[1] /\ w \in Writes /\ w.at \in Slots \cup {"marker"} /\ 1 \in DOMAIN u
      /\ DOMAIN t = 1 .. Len(u) - 1
      /\ \A k \in DOMAIN t : k + 1 \in DOMAIN u /\ t[k] = u[k + 1]
      /\ \A k \in DOMAIN u : k = 1 \/ k - 1 \in DOMAIN t
      /\ DOMAIN u = 1 .. Len(u) /\ Len(u) \in Nat
  BY <1>1, ListStep, WriteFields
<1> HIDE DEF u, t
<1>3. /\ PutsBack(u, j.before) /\ Mixed(j, slot) /\ PutBack(u, j.before, slot, unrestored)
  BY DEF RollBackOk, u
<1>4. PutsBack(t, j.before)
  BY <1>2, <1>3 DEF PutsBack
<1>5. \A at : Covers(u, at) /\ at # w.at => Covers(t, at)
  <2> SUFFICES ASSUME NEW at, NEW k \in DOMAIN u, u[k].at = at, at # w.at PROVE Covers(t, at)
    BY DEF Covers
  <2>1. k - 1 \in DOMAIN t /\ t[k - 1] = u[(k - 1) + 1] /\ (k - 1) + 1 = k
    BY <1>2
  <2> QED BY <2>1 DEF Covers
<1>6. IF w.at = "marker" THEN w.put.id = j.before.marker ELSE w.put = B[w.at]
  BY <1>2, <1>3 DEF PutsBack
<1>7. /\ w.at = "marker" => slot' = slot
      /\ w.at # "marker" => \A s \in Slots \ {w.at} : slot'[s] = slot[s]
      /\ w.at # "marker" => slot'[w.at] \in {slot[w.at], B[w.at]}
  BY <1>1, <1>2, <1>6 DEF Apply
<1>8. Mixed(j, slot')
  <2>1. \A s \in Slots : slot'[s] \in {slot[s], B[s]}
    BY <1>2, <1>7
  <2> QED BY <1>3, <2>1, Names DEF Mixed
<1>9. PutBack(t, j.before, slot', unrestored \cup Missing(<<w>>, slot'))
  <2>1. Missing(<<w>>, slot') =
          IF w.at # "marker" /\ w.put.id # None /\ slot'[w.at] # w.put THEN {w.put.id} ELSE {}
    BY <1>2, MissingType
  <2>2. ASSUME NEW s \in Slots, s # w.at
        PROVE  slot'[s] = B[s] \/ Covers(t, s) \/ B[s].id \in unrestored \cup {None}
    BY <1>2, <1>3, <1>5, <1>7, <2>2 DEF PutBack
  <2>3. ASSUME NEW s \in Slots, s = w.at
        PROVE  slot'[s] = B[s] \/ B[s].id \in Missing(<<w>>, slot') \cup {None}
    BY <1>1, <1>6, <2>1, <2>3
  <2> QED BY <2>2, <2>3 DEF PutBack
<1>10. ASSUME Apply(w), Restorable(u, j.before)
       PROVE  /\ \A s \in Slots : slot'[s] = B[s] \/ Covers(t, s)
              /\ marker' = j.before.marker \/ Covers(t, "marker")
  <2>1. CASE w.at = "marker"
    <3>1. marker' = j.before.marker /\ slot' = slot
      BY <1>6, <1>10, <2>1 DEF Apply
    <3> QED BY <1>1, <1>5, <1>10, <2>1, <3>1 DEF Restorable
  <2>2. CASE w.at # "marker"
    <3>1. slot' = [slot EXCEPT ![w.at] = B[w.at]] /\ marker' = marker
      BY <1>6, <1>10, <2>2 DEF Apply
    <3> QED BY <1>1, <1>2, <1>5, <1>10, <2>2, <3>1 DEF Restorable
  <2> QED BY <2>1, <2>2
<1>11. Len(u) = 1 => \A at : ~Covers(t, at)
  BY <1>2 DEF Covers
<1>12. ASSUME Apply(w), Restorable(u, j.before), Len(u) = 1
       PROVE  slot' = B /\ marker' = j.before.marker
  <2>1. \A s \in Slots : slot'[s] = B[s]
    BY <1>10, <1>11, <1>12
  <2>2. slot' \in [Slots -> Blobs]
    BY <1>1, <1>2, <1>12, ApplyType DEF TypeInv, TypeOK
  <2> QED BY <1>1, <1>10, <1>11, <1>12, <2>1, <2>2
<1> QED BY <1>4, <1>8, <1>9, <1>10, <1>11, <1>12 DEF Restorable, u, t

(***************************************************************************)
(* What holds of the slots while an operation is at work still holds after *)
(* a step that gives logins up.                                            *)
(***************************************************************************)
LEMMA SoundFrame ==
  ASSUME UNCHANGED <<own, issued>>, owed' \subseteq owed, ref.pc = "idle", ref'.pc = "idle"
  PROVE  \A slots : /\ BlobsSound(slots) => BlobsSound(slots)'
                    /\ Twins(slots) => Twins(slots)'
                    /\ Claimed(slots) => Claimed(slots)'
                    /\ FreshDefault(slots) => FreshDefault(slots)'
                    /\ unrestored' = unrestored /\ KeptSomewhere(slots) => KeptSomewhere(slots)'
BY DEF BlobsSound, Twins, Claimed, FreshDefault, KeptSomewhere, Current, Live

(***************************************************************************)
(* A move that is cut short leaves a good state.                           *)
(***************************************************************************)
LEMMA CutShort ==
  ASSUME UNCHANGED <<own, issued>>, owed' \subseteq owed, ref.pc = "idle", ref'.pc = "idle", cut',
         NEW slots, NEW mark, BlobsSound(slots), Twins(slots), Claimed(slots),
         slots["default"].id = mark => FreshDefault(slots), KeptSomewhere(slots)',
         slots["default"].id # None => mark = slots["default"].id \/ torn'
  PROVE  Good(slots, mark)'
<1>1. /\ BlobsSound(slots)' /\ Twins(slots)' /\ Claimed(slots)'
      /\ slots["default"].id = mark => FreshDefault(slots)'
  BY SoundFrame
<1>2. OneCopy(slots)'
  BY <1>1 DEF OneCopy, Twins
<1> QED BY <1>1, <1>2 DEF Good

(***************************************************************************)
(* A marker that is right needs no excuse.                                 *)
(***************************************************************************)
LEMMA MarkerRight ==
  ASSUME UNCHANGED <<own, issued, cut, unrestored>>, owed' \subseteq owed,
         ref.pc = "idle", ref'.pc = "idle",
         NEW slots, NEW mark, Good(slots, mark), slots["default"].id = mark
  PROVE  Good(slots, mark)'
<1>1. /\ BlobsSound(slots)' /\ Claimed(slots)' /\ FreshDefault(slots)' /\ KeptSomewhere(slots)'
  BY SoundFrame DEF Good
<1>2. OneCopy(slots)'
  BY DEF Good, OneCopy
<1> QED BY <1>1, <1>2 DEF Good

(***************************************************************************)
(* A rollback that is over: every login is kept but those that it failed   *)
(* to put back and that no slot has.                                       *)
(***************************************************************************)
LEMMA EndKept ==
  ASSUME TypeOK, UNCHANGED issued, owed' \subseteq owed, ref.pc = "idle",
         NEW before, NEW mark, Good(before.slot, mark),
         NEW missing, unrestored \subseteq missing,
         NEW slots, \A s \in Slots : slots[s] = before.slot[s]
                                     \/ before.slot[s].id \in missing \cup {None},
         unrestored' = Lost(missing, slots)
  PROVE  KeptSomewhere(slots)'
<1> SUFFICES ASSUME NEW i \in owed, i \notin Lost(missing, slots)
             PROVE  \E s \in Slots : slots[s].id = i /\ slots[s].rt = issued[slots[s].id] /\ i # None
  BY DEF KeptSomewhere, Current, Live
<1>1. i # None
  BY Names DEF TypeOK
<1>2. CASE i \in missing
  <2>1. PICK s \in Slots : slots[s] = [id |-> i, rt |-> issued[i]]
    BY <1>2 DEF Lost
  <2> QED BY <1>1, <2>1
<1>3. CASE i \notin missing
  <2>1. PICK s \in Slots : before.slot[s].id = i /\ Live(before.slot[s])
    BY <1>3 DEF Good, KeptSomewhere, Current
  <2>2. slots[s] = before.slot[s]
    BY <1>1, <1>3, <2>1
  <2> QED BY <1>1, <2>1, <2>2 DEF Live
<1> QED BY <1>2, <1>3

LEMMA WriteKeeps ==
  ASSUME TypeInv, LockInv, OwnersDiffer, WorkInv, NEW p \in Procs, Write(p)
  PROVE  WorkInv' /\ (Whole => Whole')
<1>1. /\ pc[p] = "write" /\ job[p] \in Switches /\ job[p].plan # <<>>
      /\ UNCHANGED <<own, issued, ref, cut, unrestored, misled>>
  BY DEF Write, TypeInv
<1>2. ref.pc = "idle" /\ TypeOK
  BY <1>1, Alone DEF TypeInv
<1>3. PICK j \in Switches : j = job[p]
  BY <1>1
<1>4. (MoveOk(j) \/ DropOk(j)) /\ j.plan # <<>> /\ faults = j.before.faults
  BY <1>1, <1>3 DEF WorkInv, WorkOk
<1>5. PICK w : w = Head(j.plan)
  OBVIOUS
<1>6. owed' = owed \ Discarded(j, w) /\ owed' \subseteq owed
  BY <1>3, <1>5 DEF Write
<1>7. Whole => Good(j.before.slot, j.before.marker) /\ Trusted(j)
  BY <1>1, <1>3 DEF Whole, FoundGood
<1>8. MoveOk(j) => j.undo # <<>>
  BY DEF MoveOk, UndoReady, Covers
<1>9. CASE /\ Apply(w) /\ UNCHANGED faults /\ Len(j.plan) = 1 /\ Return(p)
           /\ torn' = (torn /\ AtOdds')
  <2>1. WorkInv'
    BY <1>1, <1>9, EndsWork
  <2> SUFFICES ASSUME Whole PROVE Good(slot, marker)'
    BY <1>1, <1>9, <2>1, EndsGood
  <2>2. Good(j.before.slot, j.before.marker) /\ Trusted(j)
    BY <1>7
  <2>3. PICK sl, mk : sl = slot' /\ mk = marker'
    OBVIOUS
  <2>4. CASE MoveOk(j)
    <3>1. PICK n : n = [j EXCEPT !.plan = Tail(j.plan)]
      OBVIOUS
    <3>2. n.label = j.label /\ n.active = j.active /\ n.before = j.before /\ n.plan = Tail(j.plan)
      BY <1>4, <3>1, JobFields, JobUpdates, ListStep
    <3>3. /\ sl = Finished(j) /\ mk = own[j.label]
          /\ j.active = None => j.before.slot["default"].id \notin owed
      BY <1>1, <1>5, <1>6, <1>9, <2>3, <2>4, <3>2, StageStep
    <3>4. Good(sl, mk) /\ sl["default"].id = mk
      BY <1>2, <2>2, <2>4, <3>3, MoveStages, MoveFacts, FinishedSlots DEF MoveOk
    <3> QED BY <1>1, <1>2, <1>6, <2>3, <3>4, MarkerRight
  <2>5. CASE DropOk(j)
    <3>1. /\ w = LastPut(j) /\ slot = j.before.slot /\ marker = j.before.marker
          /\ Good([j.before.slot EXCEPT ![j.label] = Absent], j.before.marker)
          /\ j.before.marker = j.before.slot["default"].id
      BY <1>2, <1>5, <2>2, <2>5, TailsAre, DropStage, MoveTypes, Names DEF DropOk, Trusted, Captures
    <3>2. sl = [j.before.slot EXCEPT ![j.label] = Absent] /\ mk = j.before.marker
      BY <1>9, <2>3, <3>1, JobFields, Names DEF Apply, LastPut, Put
    <3>3. Good(sl, mk) /\ sl["default"].id = mk
      BY <3>1, <3>2, MoveTypes
    <3> QED BY <1>1, <1>2, <1>6, <2>3, <3>3, MarkerRight
  <2> QED BY <1>4, <2>4, <2>5
<1>10. CASE /\ Apply(w) /\ UNCHANGED <<faults, torn>> /\ Len(j.plan) # 1
            /\ job' = [job EXCEPT ![p].plan = Tail(@)] /\ UNCHANGED <<lock, pc>>
  <2>1. PICK n : n = [j EXCEPT !.plan = Tail(j.plan)]
    OBVIOUS
  <2>2. Tail(j.plan) \in Seq(Writes)
    BY <1>4, JobFields, ListStep
  <2>3. /\ n.label = j.label /\ n.active = j.active /\ n.before = j.before
        /\ n.force = j.force /\ n.undo = j.undo /\ n.plan = Tail(j.plan)
    BY <2>1, <2>2, JobUpdates
  <2>4. job'[p] = n
    BY <1>3, <1>10, <2>1 DEF TypeInv, TypeOK
  <2>5. MoveOk(j)
    BY <1>4, <1>10, TailsAre DEF DropOk
  <2>6. Stage(n)'
    BY <1>1, <1>5, <1>6, <1>10, <2>3, <2>5, StageStep
  <2>7. MoveReady(n)' /\ UndoReady(n)'
    BY <1>1, <2>3, <2>5 DEF MoveOk, MoveReady, UndoReady, ActiveIs
  <2>8. MoveOk(n)'
    BY <2>6, <2>7 DEF MoveOk
  <2>9. WorkOk(p)'
    BY <1>1, <1>4, <1>10, <2>3, <2>4, <2>8 DEF WorkOk
  <2>10. ASSUME Whole PROVE FoundGood(p)'
    <3>1. Good(j.before.slot, j.before.marker)'
      BY <1>1, <1>2, <1>6, <1>7, <1>10, <2>10, GoodFrame
    <3>2. Trusted(n)'
      BY <1>7, <2>3, <2>10 DEF Trusted, Captures
    <3> QED BY <2>3, <2>4, <3>1, <3>2 DEF FoundGood
  <2> QED BY <1>1, <1>10, <2>9, <2>10, GoesOnWork, GoesOnGood
<1>11. CASE Fault(w) /\ j.undo = <<>> /\ Return(p) /\ UNCHANGED torn
  <2>1. WorkInv' /\ DropOk(j)
    BY <1>1, <1>4, <1>8, <1>11, EndsWork
  <2> SUFFICES ASSUME Whole PROVE Good(slot, marker)'
    BY <1>1, <1>11, <2>1, EndsGood
  <2>2. /\ w = LastPut(j) /\ slot = j.before.slot /\ marker = j.before.marker
        /\ Good([j.before.slot EXCEPT ![j.label] = Absent], j.before.marker)
        /\ Good(j.before.slot, j.before.marker)
    BY <1>2, <1>5, <1>7, <2>1, TailsAre, DropStage DEF DropOk
  <2>3. /\ marker' = j.before.marker
        /\ slot' = j.before.slot \/ slot' = [j.before.slot EXCEPT ![j.label] = Absent]
    BY <1>11, <2>2, JobFields, Names DEF Fault, Apply, LastPut, Put
  <2>4. PICK sl, mk : sl = slot' /\ mk = marker'
    OBVIOUS
  <2>5. Good(sl, mk)'
    BY <1>1, <1>2, <1>6, <1>11, <2>2, <2>3, <2>4, GoodFrame
  <2> QED BY <2>4, <2>5
<1>12. CASE Fault(w) /\ j.undo # <<>> /\ Goto(p, "undo") /\ UNCHANGED <<lock, job, torn>>
  <2>1. MoveOk(j)
    BY <1>4, <1>12 DEF DropOk
  <2>2. (w.at # "marker" /\ Apply(w)) \/ UNCHANGED <<slot, marker>>
    BY <1>12 DEF Fault
  <2>3. /\ Restorable(j.undo, j.before)' /\ Mixed(j, slot')
        /\ PutBack(j.undo, j.before, slot', unrestored')
        /\ j.active = None => j.before.slot["default"].id \notin owed'
    BY <1>5, <1>6, <2>1, <2>2, StageUndo
  <2>4. pc'[p] = "undo" /\ \A q \in Procs \ {p} : pc'[q] = pc[q]
    BY <1>2, <1>12, GotoDoes
  <2>5. job'[p] = j
    BY <1>3, <1>12
  <2>6. faults' = j.before.faults + 1 /\ faults' > j.before.faults
    BY <1>2, <1>4, <1>12 DEF Fault, TypeOK
  <2>7. MoveReady(j)' /\ PutsBack(j.undo, j.before)
    BY <1>1, <2>1 DEF MoveOk, MoveReady, ActiveIs, UndoReady
  <2>8. RollBackOk(j)'
    BY <2>3, <2>6, <2>7 DEF RollBackOk
  <2>9. WorkOk(p)'
    BY <2>4, <2>5, <2>8 DEF WorkOk
  <2>10. ASSUME Whole PROVE FoundGood(p)'
    <3>1. Good(j.before.slot, j.before.marker)'
      BY <1>1, <1>2, <1>6, <1>7, <1>12, <2>10, GoodFrame
    <3> QED BY <1>7, <2>5, <2>10, <3>1 DEF FoundGood
  <2> QED BY <1>1, <1>12, <2>4, <2>9, <2>10, GoesOnWork, GoesOnGood
<1> QED BY <1>3, <1>5, <1>9, <1>10, <1>11, <1>12 DEF Write

(***************************************************************************)
(* A rollback: it ends where the switch began when it meets no failure,    *)
(* and otherwise in a mixture from which the history says what is missing. *)
(***************************************************************************)
LEMMA RollBackKeeps ==
  ASSUME TypeInv, LockInv, OwnersDiffer, WorkInv, NEW p \in Procs, RollBack(p)
  PROVE  /\ WorkInv'
         /\ pc'[p] = "idle" /\ faults' = job[p].before.faults + 1 =>
              slot' = job[p].before.slot /\ marker' = job[p].before.marker
         /\ Whole => Whole'
<1>1. /\ pc[p] = "undo" /\ job[p] \in Switches /\ job[p].undo # <<>>
      /\ UNCHANGED <<own, issued, ref, owed, misled>>
  BY DEF RollBack, TypeInv
<1>2. ref.pc = "idle" /\ TypeOK
  BY <1>1, Alone DEF TypeInv
<1>3. PICK j \in Switches : j = job[p]
  BY <1>1
<1>4. RollBackOk(j) /\ j.undo # <<>>
  BY <1>1, <1>3 DEF WorkInv, WorkOk
<1>5. PICK w : w = Head(j.undo)
  OBVIOUS
<1>6. (Apply(w) /\ UNCHANGED <<faults, cut>>) \/ (Fault(w) /\ cut' = TRUE)
  BY <1>3, <1>5 DEF RollBack
<1>7. PICK missing : missing = unrestored \cup Missing(<<w>>, slot')
  OBVIOUS
<1>8. /\ PutsBack(Tail(j.undo), j.before) /\ Mixed(j, slot')
      /\ PutBack(Tail(j.undo), j.before, slot', missing)
      /\ Apply(w) /\ Restorable(j.undo, j.before) =>
           /\ Restorable(Tail(j.undo), j.before)'
           /\ Len(j.undo) = 1 => slot' = j.before.slot /\ marker' = j.before.marker
      /\ Len(j.undo) = 1 => \A at : ~Covers(Tail(j.undo), at)
  <2>1. Apply(w) \/ UNCHANGED <<slot, marker>>
    BY <1>6 DEF Fault
  <2> QED BY <1>4, <1>5, <1>7, <2>1, UndoStep
<1>9. /\ faults' > j.before.faults
      /\ faults' = j.before.faults + 1 => Apply(w) /\ Restorable(j.undo, j.before)
      /\ faults' # j.before.faults + 1 => cut'
  <2>1. faults \in Nat /\ j.before.faults \in Nat
    BY <1>2, JobFields, SwitchAssumption DEF TypeOK
  <2> QED BY <1>4, <1>6, <2>1 DEF RollBackOk, Fault
<1>10. Whole => Good(j.before.slot, j.before.marker) /\ Trusted(j)
  BY <1>1, <1>3 DEF Whole, FoundGood
<1>11. MoveReady(j) /\ (j.active = None => j.before.slot["default"].id \notin owed)
  BY <1>4 DEF RollBackOk
<1>12. CASE /\ Len(j.undo) = 1 /\ Return(p) /\ unrestored' = Lost(missing, slot')
            /\ torn' = (AtOdds' /\ (torn \/ faults' # j.before.faults + 1))
  <2>1. faults' = j.before.faults + 1 => slot' = j.before.slot /\ marker' = j.before.marker
    BY <1>8, <1>9, <1>12
  <2>2. WorkInv'
    BY <1>1, <1>12, EndsWork
  <2> SUFFICES ASSUME Whole PROVE Good(slot, marker)'
    BY <1>1, <1>3, <1>12, <2>1, <2>2, EndsGood
  <2>3. Good(j.before.slot, j.before.marker) /\ Trusted(j)
    BY <1>10
  <2>4. PICK sl, mk : sl = slot' /\ mk = marker'
    OBVIOUS
  <2>5. \A s \in Slots : sl[s] = j.before.slot[s] \/ j.before.slot[s].id \in missing \cup {None}
    BY <1>8, <1>12, <2>4 DEF PutBack
  <2>6. KeptSomewhere(sl)'
    <3>1. unrestored \subseteq missing /\ unrestored' = Lost(missing, sl)
      BY <1>7, <1>12, <2>4
    <3> QED BY <1>1, <1>2, <2>3, <2>5, <3>1, EndKept
  <2>7. sl["default"].id # None => mk = sl["default"].id \/ AtOdds'
    BY <2>4, BlobFields DEF AtOdds
  <2>8. CASE faults' = j.before.faults + 1
    <3>1. sl = j.before.slot /\ mk = j.before.marker
      BY <2>1, <2>4, <2>8
    <3>2. sl["default"].id # None => mk = sl["default"].id \/ torn'
      BY <1>12, <2>3, <2>7, <3>1 DEF Good
    <3>3. BlobsSound(sl)' /\ Claimed(sl)' /\ (sl["default"].id = mk => FreshDefault(sl)')
      BY <1>1, <1>2, <2>3, <3>1, SoundFrame DEF Good
    <3>4. OneCopy(sl)'
      BY <1>1, <1>6, <2>3, <3>1 DEF Good, OneCopy
    <3>5. Good(sl, mk)'
      BY <2>6, <3>2, <3>3, <3>4 DEF Good
    <3> QED BY <2>4, <3>5
  <2>9. CASE faults' # j.before.faults + 1
    <3>1. cut' /\ (sl["default"].id # None => mk = sl["default"].id \/ torn')
      BY <1>9, <1>12, <2>7, <2>9
    <3>2. BlobsSound(sl) /\ Twins(sl) /\ Claimed(sl) /\ FreshDefault(sl)
      BY <1>2, <1>8, <1>11, <2>3, <2>4, MixedSound
    <3>3. Good(sl, mk)'
      BY <1>1, <1>2, <2>6, <3>1, <3>2, CutShort
    <3> QED BY <2>4, <3>3
  <2> QED BY <2>8, <2>9
<1>13. CASE /\ Len(j.undo) # 1 /\ job' = [job EXCEPT ![p].undo = Tail(@)]
            /\ unrestored' = missing /\ UNCHANGED <<lock, pc, torn>>
  <2>1. PICK n : n = [j EXCEPT !.undo = Tail(j.undo)]
    OBVIOUS
  <2>2. Tail(j.undo) \in Seq(Writes)
    BY <1>4, JobFields, ListStep
  <2>3. /\ n.before = j.before /\ n.undo = Tail(j.undo) /\ n.label = j.label
        /\ n.active = j.active /\ n.force = j.force
    BY <2>1, <2>2, JobUpdates
  <2>4. job'[p] = n
    BY <1>3, <1>13, <2>1 DEF TypeInv, TypeOK
  <2>5. MoveReady(n)'
    BY <1>1, <1>11, <2>3 DEF MoveReady, ActiveIs
  <2>6. Mixed(n, slot')
    BY <1>8, <2>3 DEF Mixed, Captures
  <2>7. /\ PutsBack(n.undo, n.before) /\ PutBack(n.undo, n.before, slot', unrestored')
        /\ n.active = None => n.before.slot["default"].id \notin owed'
    BY <1>1, <1>8, <1>11, <1>13, <2>3
  <2>8. faults' = j.before.faults + 1 => Restorable(n.undo, n.before)'
    BY <1>8, <1>9, <2>3
  <2>9. RollBackOk(n)'
    BY <1>9, <2>3, <2>5, <2>6, <2>7, <2>8 DEF RollBackOk
  <2>10. WorkOk(p)'
    BY <1>1, <1>13, <2>4, <2>9 DEF WorkOk
  <2>11. ASSUME Whole PROVE FoundGood(p)'
    <3>1. Good(j.before.slot, j.before.marker)'
      <4>1. cut => cut'
        BY <1>6
      <4>2. unrestored \subseteq unrestored'
        BY <1>7, <1>13
      <4> QED BY <1>1, <1>2, <1>10, <1>13, <2>11, <4>1, <4>2, GoodFrame
    <3>2. Trusted(n)'
      BY <1>10, <2>3, <2>11 DEF Trusted, Captures
    <3> QED BY <2>3, <2>4, <3>1, <3>2 DEF FoundGood
  <2> QED BY <1>1, <1>13, <2>10, <2>11, GoesOnWork, GoesOnGood
<1> QED BY <1>3, <1>5, <1>7, <1>12, <1>13 DEF RollBack

(***************************************************************************)
(* Between two writes every login is where it can be told to belong.       *)
(***************************************************************************)
LEMMA WritesSound ==
  ASSUME TypeOK, OwnersDiffer, ref.pc = "idle", NEW j \in Switches, MoveOk(j),
         Good(j.before.slot, j.before.marker), Trusted(j)
  PROVE  /\ BlobsSound(slot) /\ Twins(slot) /\ Claimed(slot) /\ KeptSomewhere(slot)
         /\ slot["default"].id = marker => FreshDefault(slot)
<1>1. MoveReady(j) /\ Stage(j)
  BY DEF MoveOk
<1>2. /\ KeptSomewhere(j.before.slot) /\ KeptSomewhere(Captured(j))
      /\ (j.active = None => j.before.slot["default"].id \notin owed) => KeptSomewhere(Installed(j))
  BY <1>1, MoveStages DEF Good
<1>3. CASE slot \in {j.before.slot, Captured(j)} /\ marker = j.before.marker
  <2>1. Mixed(j, slot) /\ slot["default"] = j.before.slot["default"]
    BY <1>3, StagesMixed, CapturedSlots
  <2> QED BY <1>1, <1>2, <1>3, <2>1, MixedSound
<1>4. CASE slot = Installed(j) /\ (j.active = None => j.before.slot["default"].id \notin owed)
  <2>1. Mixed(j, slot)
    BY <1>4, StagesMixed
  <2> QED BY <1>1, <1>2, <1>4, <2>1, MixedSound
<1> QED BY <1>1, <1>3, <1>4 DEF Stage

(***************************************************************************)
(* A death at any point of an operation.                                   *)
(***************************************************************************)
LEMMA CrashKeeps ==
  ASSUME TypeInv, LockInv, OwnersDiffer, WorkInv, NEW p \in Procs, Crash(p)
  PROVE  WorkInv' /\ (Whole => Whole')
<1>1. /\ pc[p] # "idle" /\ job[p] \in Switches /\ Return(p)
      /\ UNCHANGED <<slot, marker, own, issued, ref, owed, misled>>
      /\ cut' = (cut \/ pc[p] \in {"write", "undo"})
      /\ torn' = (torn \/ (pc[p] \in {"write", "undo"} /\ AtOdds))
  BY DEF Crash, TypeInv, disk
<1>2. ref.pc = "idle" /\ TypeOK
  BY <1>1, Alone DEF TypeInv
<1>3. PICK j \in Switches : j = job[p]
  BY <1>1
<1>4. WorkInv'
  BY <1>1, EndsWork
<1> SUFFICES ASSUME Whole PROVE Good(slot, marker)'
  BY <1>1, <1>4, EndsGood
<1>5. Good(j.before.slot, j.before.marker)
  BY <1>1, <1>3 DEF Whole, FoundGood
<1>6. PICK sl, mk : sl = slot /\ mk = marker
  OBVIOUS
<1> SUFFICES Good(sl, mk)'
  BY <1>1, <1>6
<1>7. ASSUME pc[p] \in {"write", "undo"}
      PROVE  cut' /\ (sl["default"].id # None => mk = sl["default"].id \/ torn')
  BY <1>1, <1>6, <1>7, BlobFields DEF AtOdds
<1>8. CASE pc[p] = "undo"
  <2>1. RollBackOk(j) /\ Trusted(j)
    BY <1>1, <1>3, <1>8 DEF Whole, FoundGood, WorkInv, WorkOk
  <2>2. /\ MoveReady(j) /\ Mixed(j, sl) /\ PutsBack(j.undo, j.before)
        /\ PutBack(j.undo, j.before, sl, unrestored)
        /\ j.active = None => j.before.slot["default"].id \notin owed
    BY <1>6, <2>1 DEF RollBackOk
  <2>3. PICK missing : missing = unrestored \cup Missing(j.undo, sl)
    OBVIOUS
  <2>4. unrestored' = Lost(missing, sl)
    BY <1>3, <1>6, <1>8, <2>3 DEF Crash
  <2>5. ASSUME NEW s \in Slots
        PROVE  sl[s] = j.before.slot[s] \/ j.before.slot[s].id \in missing \cup {None}
    <3>1. CASE Covers(j.undo, s)
      <4>1. PICK k \in DOMAIN j.undo : j.undo[k].at = s
        BY <3>1 DEF Covers
      <4>2. s # "marker" /\ j.undo[k].put = j.before.slot[s]
        BY <2>2, <4>1, Names DEF PutsBack
      <4>3. sl[s] # j.before.slot[s] /\ j.before.slot[s].id # None =>
              j.before.slot[s].id \in Missing(j.undo, sl)
        BY <4>1, <4>2 DEF Missing
      <4> QED BY <2>3, <4>3
    <3>2. CASE ~Covers(j.undo, s)
      BY <2>2, <2>3, <3>2 DEF PutBack
    <3> QED BY <3>1, <3>2
  <2>6. KeptSomewhere(sl)'
    BY <1>1, <1>2, <1>5, <2>3, <2>4, <2>5, EndKept
  <2>7. BlobsSound(sl) /\ Twins(sl) /\ Claimed(sl) /\ FreshDefault(sl)
    BY <1>2, <1>5, <2>1, <2>2, MixedSound
  <2> QED BY <1>1, <1>2, <1>7, <1>8, <2>6, <2>7, CutShort
<1>9. CASE pc[p] # "undo"
  <2>1. unrestored' = unrestored
    BY <1>9 DEF Crash
  <2>2. CASE pc[p] = "write" /\ MoveOk(j)
    <3>1. Trusted(j)
      BY <1>3, <2>2 DEF Whole, FoundGood
    <3>2. /\ BlobsSound(sl) /\ Twins(sl) /\ Claimed(sl) /\ KeptSomewhere(sl)
          /\ sl["default"].id = mk => FreshDefault(sl)
      BY <1>2, <1>5, <1>6, <2>2, <3>1, WritesSound
    <3>3. KeptSomewhere(sl)'
      BY <1>1, <1>2, <2>1, <3>2, SoundFrame
    <3> QED BY <1>1, <1>2, <1>7, <2>2, <3>2, <3>3, CutShort
  <2>3. CASE ~(pc[p] = "write" /\ MoveOk(j))
    <3>1. sl = j.before.slot /\ mk = j.before.marker
      BY <1>1, <1>2, <1>3, <1>6, <1>9, <2>3 DEF WorkInv, WorkOk, DropOk, TypeOK
    <3> QED BY <1>1, <1>2, <1>5, <2>1, <3>1, GoodFrame
  <2> QED BY <2>2, <2>3
<1> QED BY <1>8, <1>9

-----------------------------------------------------------------------------
(* The invariant, and what it shows. *)

(***************************************************************************)
(* A step that changes nothing.                                            *)
(***************************************************************************)
LEMMA StutterKeeps ==
  ASSUME WorkInv, UNCHANGED vars
  PROVE  WorkInv' /\ (Whole => Whole')
<1>1. ASSUME NEW slots, NEW mark, Good(slots, mark)
      PROVE  Good(slots, mark)'
  <2>1. BlobsSound(slots)' /\ OneCopy(slots)' /\ Claimed(slots)'
    BY <1>1 DEF Good, BlobsSound, OneCopy, Claimed, vars
  <2>2. KeptSomewhere(slots)' /\ (slots["default"].id = mark => FreshDefault(slots)')
    BY <1>1 DEF Good, KeptSomewhere, FreshDefault, Current, Live, vars
  <2>3. slots["default"].id # None => mark = slots["default"].id \/ torn'
    BY <1>1 DEF Good, vars
  <2> QED BY <2>1, <2>2, <2>3 DEF Good
<1>2. ASSUME NEW p \in Procs
      PROVE  WorkOk(p)' /\ (FoundGood(p) => FoundGood(p)')
  <2>1. PICK j : j = job[p]
    OBVIOUS
  <2>2. /\ job'[p] = j /\ pc'[p] = pc[p]
        /\ UNCHANGED <<slot, marker, own, owed, faults, cut, unrestored>>
    BY <2>1 DEF vars
  <2>3. ActiveIs(j.active, marker) => ActiveIs(j.active, marker)'
    BY <2>2 DEF ActiveIs
  <2>4. MoveReady(j) => MoveReady(j)'
    BY <2>2 DEF MoveReady, ActiveIs
  <2>5. MoveOk(j) => MoveOk(j)'
    <3>1. UndoReady(j) => UndoReady(j)'
      BY DEF UndoReady
    <3>2. Stage(j) => Stage(j)'
      BY <2>2 DEF Stage, Captured, Installed, CapturePut, DefaultPut, MarkerPut, LastPut
    <3> QED BY <2>4, <3>1, <3>2 DEF MoveOk
  <2>6. DropOk(j) => DropOk(j)'
    BY <2>2 DEF DropOk, ActiveIs, LastPut
  <2>7. RollBackOk(j) => RollBackOk(j)'
    <3>1. Restorable(j.undo, j.before) => Restorable(j.undo, j.before)'
      BY <2>2 DEF Restorable
    <3> QED BY <2>2, <2>4, <3>1 DEF RollBackOk
  <2>8. WorkOk(p)'
    BY <2>1, <2>2, <2>3, <2>5, <2>6, <2>7 DEF WorkInv, WorkOk
  <2>9. FoundGood(p) => FoundGood(p)'
    BY <1>1, <2>1, <2>2 DEF FoundGood
  <2> QED BY <2>8, <2>9
<1>3. ASSUME Whole PROVE Whole'
  <2>1. lock' = None => Good(slot, marker)'
    <3>1. PICK sl, mk : sl = slot /\ mk = marker
      OBVIOUS
    <3>2. lock = None => Good(sl, mk)'
      BY <1>1, <1>3, <3>1 DEF Whole
    <3> QED BY <3>1, <3>2 DEF vars
  <2>2. RefInv'
    BY <1>3 DEF Whole, RefInv, Live, vars
  <2> QED BY <1>2, <1>3, <2>1, <2>2 DEF Whole
<1> QED BY <1>2, <1>3 DEF WorkInv

(***************************************************************************)
(* The refreshes and the sign-ins wait until no operation is at work.      *)
(***************************************************************************)
LEMMA RivalsWait ==
  ASSUME Rivals = {}, LockInv,
         \/ FetchReads \/ FetchRefreshes \/ FetchWritesBack \/ ClaudeRefreshes \/ ClaudeSignsOut
         \/ \E i \in Ids : ClaudeSignsIn(i)
  PROVE  UNCHANGED <<lock, pc, misled>> /\ lock = None
<1>1. UNCHANGED <<lock, pc, misled>>
  BY DEF FetchReads, FetchRefreshes, FetchWritesBack, ClaudeRefreshes, ClaudeSignsOut,
         ClaudeSignsIn, history
<1>2. lock = None
  BY DEF FetchReads, FetchRefreshes, FetchWritesBack, ClaudeRefreshes, ClaudeSignsOut,
         ClaudeSignsIn, Calm, LockInv
<1> QED BY <1>1, <1>2

LEMMA InvInit == Init => Inv
BY TypeInit, LockInit, GoodInit DEF Inv

LEMMA InvStep ==
  ASSUME Rivals = {}
  PROVE  Inv /\ [Next]_vars => Inv'
<1> SUFFICES ASSUME Inv, [Next]_vars PROVE Inv'
  OBVIOUS
<1>1. TypeInv' /\ LockInv' /\ OwnersDiffer'
  BY TypeStep, LockStep DEF Inv
<1>2. TypeInv /\ LockInv /\ OwnersDiffer /\ WorkInv /\ (~misled => Whole) /\ misled \in BOOLEAN
  BY DEF Inv, TypeInv, TypeOK
<1> SUFFICES WorkInv' /\ (~misled' => Whole')
  BY <1>1 DEF Inv
<1>3. ASSUME NEW p \in Procs, Begin(p) PROVE WorkInv' /\ (~misled' => Whole')
  BY <1>2, <1>3, BeginKeeps DEF Begin, history
<1>4. ASSUME NEW p \in Procs, Step(p) \/ Crash(p) PROVE WorkInv' /\ (~misled' => Whole')
  <2>1. ~misled' => ~misled
    BY <1>2, <1>4 DEF Step, Crash, Identify, ReadSlots, Write, RollBack, AdoptCurrent, history
  <2> QED BY <1>2, <1>4, <2>1, IdentifyKeeps, ReadSlotsKeeps, WriteKeeps, RollBackKeeps,
             AdoptKeeps, CrashKeeps DEF Step
<1>5. CASE \/ FetchReads \/ FetchRefreshes \/ FetchWritesBack \/ ClaudeRefreshes \/ ClaudeSignsOut
           \/ \E i \in Ids : ClaudeSignsIn(i)
  <2>1. UNCHANGED <<lock, pc, misled>> /\ lock = None
    BY <1>2, <1>5, RivalsWait
  <2>2. \A p \in Procs : pc'[p] = "idle"
    BY <1>2, <2>1, Names DEF LockInv
  <2>3. ASSUME ~misled' PROVE Good(slot, marker)' /\ RefInv'
    BY <1>2, <1>5, <2>1, <2>3, RivalStepsGood DEF Whole
  <2> QED BY <2>2, <2>3 DEF Whole, WorkInv, WorkOk, FoundGood
<1>6. CASE UNCHANGED vars
  BY <1>2, <1>6, StutterKeeps DEF vars
<1> QED BY <1>3, <1>4, <1>5, <1>6 DEF Next

LEMMA InvAlways ==
  ASSUME Rivals = {}
  PROVE  Spec => []Inv
BY InvInit, InvStep, PTL DEF Spec

LEMMA LoginsKept ==
  ASSUME Inv
  PROVE  EveryLoginKeptUntilMisled
<1> SUFFICES ASSUME ~misled, NEW i \in owed \ unrestored PROVE Kept(i)
  BY DEF EveryLoginKeptUntilMisled
<1>1. TypeInv /\ TypeOK /\ LockInv /\ OwnersDiffer /\ WorkInv /\ Whole
  BY DEF Inv, TypeInv
<1>2. ASSUME KeptSomewhere(slot) PROVE Kept(i)
  <2>1. PICK s \in Slots : slot[s].id = i /\ Current(slot, s)
    BY <1>2 DEF KeptSomewhere
  <2>2. ref.pc = "granted" /\ ref.slot = s => ref.cred.id = i
    BY <1>1, <2>1 DEF Whole, RefInv
  <2> QED BY <2>1, <2>2 DEF Current, Kept
<1>3. CASE lock = None
  BY <1>1, <1>2, <1>3 DEF Whole, Good
<1>4. CASE lock # None
  <2>1. PICK p \in Procs : lock = p
    BY <1>1, <1>4 DEF TypeOK
  <2>2. pc[p] # "idle" /\ ref.pc = "idle"
    BY <1>1, <1>4, <2>1 DEF LockInv
  <2>3. PICK j \in Switches : j = job[p]
    BY <1>1, <2>2 DEF TypeInv
  <2>4. WorkOk(p) /\ Good(j.before.slot, j.before.marker)
        /\ (pc[p] \in {"write", "undo"} => Trusted(j))
    BY <1>1, <2>2, <2>3 DEF Whole, WorkInv, FoundGood
  <2>5. CASE pc[p] \in {"switch", "read", "adopt"}
    BY <1>2, <2>3, <2>4, <2>5 DEF WorkOk, Good
  <2>6. CASE pc[p] = "write"
    <3>1. CASE MoveOk(j)
      BY <1>1, <1>2, <2>2, <2>4, <2>6, <3>1, WritesSound
    <3>2. CASE DropOk(j)
      BY <1>2, <2>4, <3>2 DEF DropOk, Good
    <3> QED BY <2>3, <2>4, <2>6, <3>1, <3>2 DEF WorkOk
  <2>7. CASE pc[p] = "undo"
    <3>1. PICK s \in Slots : j.before.slot[s].id = i /\ Live(j.before.slot[s])
      BY <2>2, <2>4 DEF Good, KeptSomewhere, Current
    <3>2. i # None
      BY <1>1, Names DEF TypeOK
    <3>3. PutsBack(j.undo, j.before) /\ (slot[s] = j.before.slot[s] \/ Covers(j.undo, s))
      BY <2>3, <2>4, <2>7, <3>1, <3>2 DEF WorkOk, RollBackOk, PutBack
    <3>4. CASE slot[s] = j.before.slot[s]
      BY <3>1, <3>4 DEF Kept
    <3>5. CASE Covers(j.undo, s)
      <4>1. PICK k \in DOMAIN j.undo : j.undo[k].at = s
        BY <3>5 DEF Covers
      <4>2. j.undo[k].at # "marker" /\ j.undo[k].put = j.before.slot[s]
        BY <3>3, <4>1, Names DEF PutsBack
      <4> QED BY <2>3, <2>7, <3>1, <4>1, <4>2 DEF Kept
    <3> QED BY <3>3, <3>4, <3>5
  <2> QED BY <1>1, <2>2, <2>5, <2>6, <2>7 DEF TypeOK
<1> QED BY <1>3, <1>4

(***************************************************************************)
(* No login nobody gave up is ever out of every slot, through the writes   *)
(* of a move, the failure of any of them, the restores of its rollback and *)
(* a death at any point, but for the very logins whose copy a rollback did *)
(* not put back; until a switch has taken its active account from a marker *)
(* at odds with the default slot (switch_cli_account, rollback_switch).    *)
(***************************************************************************)
THEOREM LoginsAreKept ==
  ASSUME Rivals = {}
  PROVE  Spec => []EveryLoginKeptUntilMisled
<1>1. Inv => EveryLoginKeptUntilMisled
  BY LoginsKept
<1> QED BY <1>1, InvAlways, PTL

(***************************************************************************)
(* Between operations no token is in two slots, but for the second copy    *)
(* which a move cut short leaves, until a switch was misled; the marker    *)
(* names the login in the default slot unless the move that put the two at *)
(* odds died or could not be rolled back and nothing has repaired it; and  *)
(* no two accounts claim one identity.                                     *)
(***************************************************************************)
THEOREM MarkersAreRight ==
  ASSUME Rivals = {}
  PROVE  Spec => []SlotsAndMarkersAgree
<1>1. ASSUME Inv PROVE SlotsAndMarkersAgree
  <2>1. OwnersDiffer /\ (~misled /\ lock = None => Good(slot, marker))
    BY <1>1 DEF Inv, Whole
  <2>2. ASSUME Quiet, ~misled
        PROVE  Good(slot, marker) /\ \A s \in Slots : slot[s] # Absent => slot[s].id # None
    BY <2>1, <2>2 DEF Quiet, Good, BlobsSound
  <2>3. OneLiveCopy
    BY <2>2 DEF OneLiveCopy, Good, OneCopy
  <2>4. MarkersTellTheTruth
    BY <2>1, <2>2, Names DEF MarkersTellTheTruth, OwnersDiffer, Good, AtOdds
  <2> QED BY <2>3, <2>4 DEF SlotsAndMarkersAgree
<1> QED BY <1>1, InvAlways, PTL

(***************************************************************************)
(* A switch that fails, and whose rollback meets no failure of its own,    *)
(* ends with every slot and the marker as it found them, whatever state it *)
(* began in (rollback_switch).                                             *)
(***************************************************************************)
THEOREM FailedSwitchLeavesNoTrace ==
  ASSUME Rivals = {}
  PROVE  Spec => RollBackRestores
<1>1. ASSUME Inv
      PROVE  \A p \in Procs :
               RollBack(p) /\ pc'[p] = "idle" /\ faults' = job[p].before.faults + 1 =>
                 slot' = job[p].before.slot /\ marker' = job[p].before.marker
  BY <1>1, RollBackKeeps DEF Inv
<1> QED BY <1>1, InvAlways, PTL DEF RollBackRestores
=============================================================================
