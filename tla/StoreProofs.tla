----------------------------- MODULE StoreProofs -----------------------------
(* Proofs about Store, for any tunnels, keys, calls and config files.      *)
EXTENDS Store, TLAPS

-----------------------------------------------------------------------------
(* The calls.                                                              *)

(* What a call at a label knows of its request.                            *)
AtLabel(r) ==
    /\ Sensible(r)
    /\ r.pc \in {"key", "keyWrite"} => r.op \in {"Create", "AddKey"} /\ r.ref \in Keys /\ r.content \in Contents
    /\ r.pc \in {"add", "persist"} => r.op = "Create"
    /\ r.pc = "persist" => r.persistent
    /\ r.pc \in {"switch", "save", "halt"} => r.op \in {"Enable", "Disable"}
    /\ r.pc = "launch" => r.op \in {"Create", "Enable"}
    /\ r.pc = "remove" => r.op = "Delete"
    /\ r.pc = "deleteKey" => r.op = "DeleteKey"

Records ==
    [op : Ops \cup {"none"}, name : Names \cup {None}, spec : Specs \cup {None}, persistent : BOOLEAN,
     ref : Keys \cup {None}, content : Contents \cup {None}, pc : Labels, crossed : BOOLEAN]

CallsOK == call \in [Calls -> {r \in Records : AtLabel(r)}]

(* The call d has not moved, but it may have been overtaken.               *)
Stays(d) ==
    /\ call'[d].op = call[d].op /\ call'[d].name = call[d].name /\ call'[d].spec = call[d].spec
    /\ call'[d].persistent = call[d].persistent /\ call'[d].ref = call[d].ref
    /\ call'[d].content = call[d].content /\ call'[d].pc = call[d].pc
    /\ call[d].crossed => call'[d].crossed

LEMMA IdleRecord == Idle \in {r \in Records : AtLabel(r)}
  BY DEF Idle, Records, AtLabel, Sensible, Labels, Ops

(* A step of one call that overtakes the calls of D.                       *)
LEMMA OvertakesFacts ==
  ASSUME CallsOK, NEW c \in Calls, NEW D \in SUBSET Calls,
         NEW r, Overtakes(c, D, r)
  PROVE  /\ r \in {x \in Records : AtLabel(x)} => CallsOK'
         /\ call'[c] = r
         /\ \A d \in Calls \ {c} : Stays(d)
         /\ \A d \in Calls \ {c} : d \notin D => call'[d] = call[d]
         /\ \A d \in D \ {c} : call'[d].crossed
<1> DEFINE Good == {x \in Records : AtLabel(x)}
           Marked(d) == [call[d] EXCEPT !.crossed = TRUE]
<1>1. ASSUME NEW d \in Calls PROVE /\ Marked(d) \in Good
                                   /\ Marked(d).op = call[d].op /\ Marked(d).name = call[d].name
                                   /\ Marked(d).spec = call[d].spec /\ Marked(d).persistent = call[d].persistent
                                   /\ Marked(d).ref = call[d].ref /\ Marked(d).content = call[d].content
                                   /\ Marked(d).pc = call[d].pc /\ Marked(d).crossed
  <2>1. call[d] \in Records /\ AtLabel(call[d])
    BY DEF CallsOK
  <2>2. /\ Marked(d) \in Records
        /\ Marked(d).op = call[d].op /\ Marked(d).name = call[d].name
        /\ Marked(d).spec = call[d].spec /\ Marked(d).persistent = call[d].persistent
        /\ Marked(d).ref = call[d].ref /\ Marked(d).content = call[d].content
        /\ Marked(d).pc = call[d].pc /\ Marked(d).crossed
    BY <2>1 DEF Records
  <2>3. AtLabel(Marked(d))
    BY <2>1, <2>2 DEF AtLabel, Sensible
  <2> QED
    BY <2>2, <2>3
<1>2. call' = [d \in Calls |-> IF d = c THEN r ELSE IF d \in D THEN Marked(d) ELSE call[d]]
  BY DEF Overtakes
<1>3. \A d \in Calls : call[d] \in Good
  BY DEF CallsOK
<1> HIDE DEF Good, Marked
<1>5. r \in Good => call' \in [Calls -> Good]
  BY <1>1, <1>2, <1>3
<1>6. r \in {x \in Records : AtLabel(x)} => CallsOK'
  BY <1>5 DEF CallsOK, Good
<1>7. call'[c] = r
  BY <1>2
<1>8. \A d \in Calls \ {c} : d \notin D => call'[d] = call[d]
  BY <1>2
<1>9. \A d \in D \ {c} : call'[d] = Marked(d)
  BY <1>2
<1>10. \A d \in D \ {c} : call'[d].crossed
  BY <1>1, <1>9
<1>11. \A d \in Calls \ {c} : Stays(d)
  BY <1>1, <1>8, <1>9 DEF Stays
<1> QED
  BY <1>6, <1>7, <1>8, <1>10, <1>11

LEMMA BecomesFacts ==
  ASSUME CallsOK, NEW c \in Calls, NEW r, Becomes(c, r)
  PROVE  /\ r \in {x \in Records : AtLabel(x)} => CallsOK'
         /\ call'[c] = r
         /\ \A d \in Calls \ {c} : call'[d] = call[d]
  BY DEF CallsOK, Becomes

LEMMA MovedRecord ==
  ASSUME NEW r \in Records, NEW label \in Labels, NEW m, m = [r EXCEPT !.pc = label]
  PROVE  /\ m \in Records
         /\ m.op = r.op /\ m.name = r.name /\ m.spec = r.spec /\ m.persistent = r.persistent
         /\ m.ref = r.ref /\ m.content = r.content /\ m.crossed = r.crossed /\ m.pc = label
         /\ Sensible(r) => Sensible(m)
<1>1. /\ m \in Records
      /\ m.op = r.op /\ m.name = r.name /\ m.spec = r.spec /\ m.persistent = r.persistent
      /\ m.ref = r.ref /\ m.content = r.content /\ m.crossed = r.crossed /\ m.pc = label
  BY DEF Records
<1> QED
  BY <1>1 DEF Sensible

-----------------------------------------------------------------------------
(* Types.                                                                  *)

(* The writer of a file holds the lock: what it has checked stays so.      *)
Held ==
    \A c \in Calls :
        /\ call[c].pc = "persist" => call[c].name \notin DOMAIN reg
        /\ call[c].pc = "save" => call[c].name \in DOMAIN reg \cap DOMAIN cfg

(* While the daemon is down nothing is in progress.                        *)
Quiet == mode # "up" => kept = {} /\ \A c \in Calls : call[c].pc = "idle"

TInv == TypeOK /\ CallsOK /\ Held /\ Quiet

LEMMA TypeInit == Init => TInv
<1> SUFFICES ASSUME Init PROVE TInv
  OBVIOUS
<1> USE StoreAssumption
<1>1. CallsOK
  BY IdleRecord DEF Init, CallsOK
<1>2. \A c \in Calls : call[c].pc = "idle" /\ call[c].crossed \in BOOLEAN
  BY DEF Init, Idle
<1>3. file \in {Absent, Torn} \/ IsMap(file, Entries)
  BY DEF Init, IsMap
<1>4. IsMap(cfg, Entries) /\ IsMap(reg, Specs) /\ kept \subseteq DOMAIN reg
  BY DEF Init, IsMap, Empty
<1>5. TypeOK
  BY <1>2, <1>3, <1>4 DEF Init, TypeOK, Labels
<1>6. Held /\ Quiet
  BY <1>2 DEF Held, Quiet, Init
<1> QED
  BY <1>1, <1>5, <1>6 DEF TInv

LEMMA TypeDies == ASSUME TInv, Dies PROVE TInv'
<1> USE StoreAssumption DEF TInv
<1>1. CallsOK'
  BY IdleRecord DEF Dies, CallsOK
<1>2. \A c \in Calls : call'[c].pc = "idle" /\ call'[c].crossed \in BOOLEAN
  BY DEF Dies, Idle
<1>3. (file \in {Absent, Torn} \/ IsMap(file, Entries))'
  <2>1. CASE file = Torn
    BY <2>1 DEF Dies, Fragments, IsMap, TypeOK
  <2>2. CASE file # Torn
    BY <2>2 DEF Dies, IsMap, TypeOK
  <2> QED
    BY <2>1, <2>2
<1>4. (IsMap(cfg, Entries) /\ IsMap(reg, Specs) /\ kept \subseteq DOMAIN reg)'
  BY DEF Dies, IsMap, Empty
<1>5. TypeOK'
  BY <1>2, <1>3, <1>4 DEF Dies, TypeOK, Labels, ghosts
<1>6. Held' /\ Quiet'
  BY <1>2, <1>4 DEF Held, Quiet, Dies
<1> QED
  BY <1>1, <1>5, <1>6

LEMMA TypeBoot == ASSUME TInv, Boot \/ BootFails PROVE TInv'
<1> USE StoreAssumption DEF TInv
<1>1. CASE BootFails
  BY <1>1 DEF BootFails, TypeOK, CallsOK, Held, Quiet, disk, ghosts, IsMap
<1>2. CASE Boot
  <2>1. IsMap(Config, Entries)
    BY <1>2 DEF Boot, Starts, Loads, Config, Empty, IsMap, TypeOK
  <2>2. IsMap(ToSpecs(Config), Specs)
    BY <2>1 DEF IsMap, ToSpecs, Entries
  <2>3. acked' \in [Names -> BOOLEAN \cup {None}]
    BY <1>2 DEF Boot, TypeOK
  <2>4. kept' = {} /\ lock' = lock /\ call' = call
    BY <1>2 DEF Boot, Quiet
  <2>5. \A c \in Calls : call[c].pc = "idle"
    BY <1>2 DEF Boot, Quiet
  <2>6. TypeOK'
    <3>1. (file \in {Absent, Torn} \/ IsMap(file, Entries))'
      BY <1>2 DEF Boot, TypeOK, disk, IsMap
    <3>2. IsMap(cfg, Entries)' /\ IsMap(reg, Specs)' /\ mode' = "up"
      BY <1>2, <2>1, <2>2 DEF Boot
    <3> QED
      BY <1>2, <2>3, <2>4, <3>1, <3>2 DEF Boot, TypeOK, disk
  <2>7. CallsOK' /\ Held' /\ Quiet'
    BY <1>2, <2>4, <2>5 DEF Boot, CallsOK, Held, Quiet
  <2> QED
    BY <2>6, <2>7
<1> QED
  BY <1>1, <1>2

(* A step of c that has nothing to do with the lock, the config or the     *)
(* registry.                                                               *)
LEMMA TypeLight ==
  ASSUME TInv, NEW c \in Calls, mode = "up", UNCHANGED <<file, dir, memory, lock, damaged, adopted>>,
         keys' \in [Keys -> Contents \cup {Absent, Torn}], acked' \in [Names -> BOOLEAN \cup {None}],
         CallsOK', \A d \in Calls \ {c} : Stays(d),
         call[c].pc \notin {"persist", "save"}, call'[c].pc \notin {"persist", "save"}
  PROVE  TInv'
<1> USE DEF TInv, memory
<1>1. \A d \in Calls : call'[d].pc \in Labels /\ call'[d].crossed \in BOOLEAN
  BY DEF CallsOK, Records
<1>2. \A d \in Calls : lock' = d <=> call'[d].pc \in {"persist", "save"}
  BY DEF TypeOK, Stays
<1>3. TypeOK'
  BY <1>1, <1>2 DEF TypeOK, IsMap
<1>4. Held'
  BY DEF Held, Stays
<1>5. Quiet'
  BY DEF Quiet
<1> QED
  BY <1>3, <1>4, <1>5

(* A step of c while it does not wait for the lock.                        *)
LEMMA BusyIsUp == ASSUME TInv, NEW c \in Calls, call[c].pc # "idle" PROVE mode = "up"
  BY DEF TInv, Quiet

LEMMA RecordAt == ASSUME CallsOK, NEW c \in Calls PROVE call[c] \in Records /\ AtLabel(call[c])
  BY DEF CallsOK

(* The calls that move on to a label their request is fit for.             *)
LEMMA GoesRecord ==
  ASSUME CallsOK, NEW c \in Calls, NEW label \in Labels, NEW m, m = [call[c] EXCEPT !.pc = label],
         label \in {"key", "keyWrite"} => call[c].pc = "key",
         label \in {"add", "persist"} => call[c].op = "Create",
         label = "persist" => call[c].persistent,
         label \in {"switch", "save", "halt"} => call[c].op \in {"Enable", "Disable"},
         label = "launch" => call[c].op \in {"Create", "Enable"},
         label \notin {"remove", "deleteKey"}
  PROVE  m \in {r \in Records : AtLabel(r)}
<1>1. call[c] \in Records /\ AtLabel(call[c])
  BY RecordAt
<1>2. /\ m \in Records
      /\ m.op = call[c].op /\ m.persistent = call[c].persistent
      /\ m.ref = call[c].ref /\ m.content = call[c].content /\ m.pc = label
      /\ Sensible(m)
  BY <1>1, MovedRecord DEF AtLabel
<1> QED
  BY <1>1, <1>2 DEF AtLabel

LEMMA TypeCall == ASSUME TInv, NEW c \in Calls, NEW r \in Requests, Call(c, r) PROVE TInv'
<1> DEFINE m == [op |-> r.op, name |-> r.name, spec |-> r.spec, persistent |-> r.persistent,
                 ref |-> r.ref, content |-> r.content, pc |-> Entry(r), crossed |-> FALSE]
<1>1. r \in Messages /\ Sensible(r)
  BY StoreAssumption
<1>2. r.op \in Ops /\ (r.op = "Create" /\ r.content # None => r.content \in Contents /\ r.ref \in Keys)
  BY <1>1 DEF Messages, Sensible
<1>3. /\ Entry(r) \in {"key", "add", "deleteKey", "remove", "switch"}
      /\ Entry(r) = "key" => r.op \in {"Create", "AddKey"} /\ r.ref \in Keys /\ r.content \in Contents
      /\ Entry(r) = "add" => r.op = "Create"
      /\ Entry(r) = "deleteKey" => r.op = "DeleteKey"
      /\ Entry(r) = "remove" => r.op = "Delete"
      /\ Entry(r) = "switch" => r.op \in {"Enable", "Disable"}
  BY <1>1, <1>2 DEF Entry, Ops, Sensible
<1>4. m \in Records
  BY <1>1, <1>3 DEF Messages, Records, Labels
<1>5. AtLabel(m)
  BY <1>1, <1>3 DEF AtLabel, Sensible
<1>6. Becomes(c, m)
  BY DEF Call
<1>7. CallsOK' /\ call'[c] = m /\ \A d \in Calls \ {c} : call'[d] = call[d]
  BY <1>4, <1>5, <1>6, BecomesFacts DEF TInv
<1>8. call'[c].pc \notin {"persist", "save"}
  BY <1>3, <1>7
<1>9. \A d \in Calls \ {c} : Stays(d)
  BY <1>7 DEF Stays
<1> QED
  BY <1>7, <1>8, <1>9, TypeLight DEF Call, TInv, TypeOK, disk, memory, ghosts

LEMMA AfterKeyRecord ==
  ASSUME CallsOK, NEW c \in Calls, call[c].pc = "keyWrite"
  PROVE  AfterKey(c) \in {r \in Records : AtLabel(r)} /\ AfterKey(c).pc \in {"add", "idle"}
<1>1. CASE call[c].op = "Create"
  BY <1>1, GoesRecord, MovedRecord, RecordAt DEF AfterKey, Labels
<1>2. CASE call[c].op # "Create"
  BY <1>2, IdleRecord DEF AfterKey, Idle
<1> QED
  BY <1>1, <1>2

(* The steps of a call that touch nothing but keys and acknowledgements.   *)
LEMMA TypeKeys ==
  ASSUME TInv, NEW c \in Calls, SaveKeyOpens(c) \/ SaveKeyWrites(c) \/ DeleteKey(c)
  PROVE  TInv'
<1> USE DEF TInv
<1>1. call[c].pc \in {"key", "keyWrite", "deleteKey"}
  BY DEF SaveKeyOpens, SaveKeyWrites, DeleteKey
<1>2. mode = "up"
  BY <1>1, BusyIsUp
<1>3. call[c].ref \in Keys /\ (call[c].pc = "keyWrite" => call[c].content \in Contents)
  BY <1>1, RecordAt DEF AtLabel, Sensible
<1>4. keys' \in [Keys -> Contents \cup {Absent, Torn}]
  BY <1>3 DEF SaveKeyOpens, SaveKeyWrites, DeleteKey, TypeOK
<1>5. KeyUsers(call[c].ref) \subseteq Calls
  BY DEF KeyUsers
<1>6. PICK r \in {x \in Records : AtLabel(x)} :
         r.pc \notin {"persist", "save"} /\ (Overtakes(c, KeyUsers(call[c].ref), r) \/ Becomes(c, r))
  <2>1. CASE SaveKeyOpens(c)
    <3> DEFINE m == [call[c] EXCEPT !.pc = "keyWrite"]
    <3>1. CASE Returns(c)
      BY <3>1, IdleRecord DEF Returns, Idle
    <3>2. CASE Overtakes(c, KeyUsers(call[c].ref), m)
      <4>1. m \in {x \in Records : AtLabel(x)}
        BY <2>1, GoesRecord DEF SaveKeyOpens, Labels
      <4>2. m.pc = "keyWrite"
        BY RecordAt, MovedRecord DEF Labels
      <4> QED
        BY <3>2, <4>1, <4>2
    <3> QED
      BY <2>1, <3>1, <3>2 DEF SaveKeyOpens
  <2>2. CASE SaveKeyWrites(c)
    <3>1. AfterKey(c) \in {x \in Records : AtLabel(x)} /\ AfterKey(c).pc \notin {"persist", "save"}
      BY <2>2, AfterKeyRecord DEF SaveKeyWrites
    <3>2. Overtakes(c, KeyUsers(call[c].ref), AfterKey(c)) \/ Becomes(c, Idle)
      BY <2>2 DEF SaveKeyWrites, Returns
    <3> QED
      BY <3>1, <3>2, IdleRecord DEF Idle
  <2>3. CASE DeleteKey(c)
    BY <2>3, IdleRecord DEF DeleteKey, Returns, Idle
  <2> QED
    BY <2>1, <2>2, <2>3
<1>7. CallsOK' /\ call'[c] = r /\ \A d \in Calls \ {c} : Stays(d)
  BY <1>5, <1>6, OvertakesFacts, BecomesFacts DEF Stays
<1>8. UNCHANGED <<file, dir, memory, lock, ghosts>>
  BY DEF SaveKeyOpens, SaveKeyWrites, DeleteKey
<1> QED
  BY <1>1, <1>2, <1>4, <1>6, <1>7, <1>8, TypeLight DEF ghosts, TypeOK

LEMMA TypeReturns ==
  ASSUME TInv, NEW c \in Calls,
         AddTunnelRefused(c) \/ SwitchRefused(c) \/ Launch(c) \/ LaunchFails(c) \/ Halt(c)
  PROVE  TInv'
<1> USE DEF TInv
<1>1. call[c].pc \in {"add", "switch", "launch", "halt"} /\ Becomes(c, Idle)
  BY DEF AddTunnelRefused, SwitchRefused, Launch, LaunchFails, Halt, Returns
<1>2. mode = "up"
  BY <1>1, BusyIsUp
<1>3. CallsOK' /\ call'[c] = Idle /\ \A d \in Calls \ {c} : call'[d] = call[d]
  BY <1>1, IdleRecord, BecomesFacts
<1>4. \A d \in Calls \ {c} : Stays(d)
  BY <1>3 DEF Stays
<1>5. call[c].op \in {"Enable", "Disable"} => call[c].name \in Names
  BY RecordAt DEF AtLabel, Sensible
<1>6. acked' \in [Names -> BOOLEAN \cup {None}]
  BY <1>5 DEF AddTunnelRefused, SwitchRefused, Launch, LaunchFails, Halt, Acknowledges, Switched, TypeOK, ghosts
<1>7. UNCHANGED <<file, dir, keys, memory, lock, damaged, adopted>>
  BY DEF AddTunnelRefused, SwitchRefused, Launch, LaunchFails, Halt, ghosts, disk
<1>8. call'[c].pc \notin {"persist", "save"}
  BY <1>3 DEF Idle
<1> QED
  BY <1>1, <1>2, <1>3, <1>4, <1>6, <1>7, <1>8, TypeLight DEF TypeOK

(* Steps that take the lock, hold it or find it free.                      *)
LEMMA TypeHeavy ==
  ASSUME TInv, NEW c \in Calls, mode = "up" /\ mode' = "up", CallsOK', \A d \in Calls \ {c} : Stays(d),
         file' \in {Absent, Torn} \/ IsMap(file', Entries),
         dir' \in [Names -> Specs \cup {Absent, Torn}], keys' = keys,
         IsMap(cfg', Entries), IsMap(reg', Specs), kept' \subseteq DOMAIN reg',
         acked' \in [Names -> BOOLEAN \cup {None}], damaged' \in BOOLEAN, adopted' \in BOOLEAN,
         lock \in {None, c}, lock' \in {None, c},
         lock' = c <=> call'[c].pc \in {"persist", "save"},
         call'[c].pc = "persist" => call'[c].name \notin DOMAIN reg',
         call'[c].pc = "save" => call'[c].name \in DOMAIN reg' \cap DOMAIN cfg'
  PROVE  TInv'
<1> USE StoreAssumption DEF TInv
<1>1. \A d \in Calls : call'[d].pc \in Labels /\ call'[d].crossed \in BOOLEAN
  BY DEF CallsOK, Records
<1>2. \A d \in Calls \ {c} : call'[d].pc \notin {"persist", "save"}
  BY DEF TypeOK, Stays
<1>3. \A d \in Calls : lock' = d <=> call'[d].pc \in {"persist", "save"}
  BY <1>2
<1>4. TypeOK'
  BY <1>1, <1>3 DEF TypeOK, IsMap
<1>5. Held'
  BY <1>2 DEF Held
<1>6. Quiet'
  BY DEF Quiet
<1> QED
  BY <1>4, <1>5, <1>6

LEMMA AddTypes ==
  ASSUME IsMap(reg, Specs), NEW n \in Names, NEW sp \in Specs, reg' = AddSpec(reg, n, sp)
  PROVE  IsMap(reg', Specs) /\ DOMAIN reg' = DOMAIN reg \cup {n} /\ reg'[n] = sp
         /\ \A m \in DOMAIN reg \ {n} : reg'[m] = reg[m]
  BY DEF IsMap, AddSpec

(* What Plan does to the registry.                                         *)
LEMMA PlansFacts ==
  ASSUME TInv, NEW c \in Calls, call[c].pc \in {"add", "persist"}, Plans(c)
  PROVE  /\ CallsOK' /\ \A d \in Calls \ {c} : call'[d] = call[d]
         /\ call'[c].pc \in {"launch", "idle"}
         /\ call'[c].pc = "launch" => call'[c] = [call[c] EXCEPT !.pc = "launch"]
         /\ IsMap(reg', Specs) /\ DOMAIN reg \subseteq DOMAIN reg'
         /\ \A m \in DOMAIN reg : reg'[m] = reg[m]
         /\ kept' \subseteq DOMAIN reg' /\ adopted' \in BOOLEAN
         /\ kept' = kept \/ (call[c].persistent /\ call[c].name \notin DOMAIN reg
                             /\ kept' = kept \cup {call[c].name} /\ reg'[call[c].name] = call[c].spec)
<1> USE DEF TInv
<1> DEFINE m == [call[c] EXCEPT !.pc = "launch"]
<1>1. call[c].name \in Names /\ call[c].spec \in Specs /\ call[c].op = "Create"
  BY RecordAt DEF AtLabel, Sensible
<1>2. m \in {r \in Records : AtLabel(r)}
  BY <1>1, GoesRecord DEF Labels
<1>3. m.pc = "launch"
  BY <1>2, MovedRecord, RecordAt DEF Labels
<1>4. CASE /\ Promise!Acceptable(reg, call[c].name, call[c].spec)
           /\ reg' = AddSpec(reg, call[c].name, call[c].spec)
           /\ kept' = IF call[c].persistent THEN kept \cup {call[c].name} ELSE kept
           /\ adopted' = (adopted \/ (call[c].name \in DOMAIN cfg /\ ~cfg[call[c].name].enabled))
           /\ Goes(c, "launch")
  <2>1. CallsOK' /\ call'[c] = m /\ \A d \in Calls \ {c} : call'[d] = call[d]
    BY <1>2, <1>4, BecomesFacts DEF Goes
  <2>2. call[c].name \notin DOMAIN reg
    BY <1>4 DEF Promise!Acceptable
  <2>3. /\ IsMap(reg', Specs) /\ DOMAIN reg' = DOMAIN reg \cup {call[c].name}
        /\ reg'[call[c].name] = call[c].spec
        /\ \A n \in DOMAIN reg \ {call[c].name} : reg'[n] = reg[n]
    BY <1>1, <1>4, AddTypes DEF TypeOK
  <2>4. kept' \subseteq DOMAIN reg'
    BY <1>4, <2>3 DEF TypeOK
  <2>5. kept' = kept \/ (call[c].persistent /\ call[c].name \notin DOMAIN reg
                         /\ kept' = kept \cup {call[c].name} /\ reg'[call[c].name] = call[c].spec)
    BY <1>4, <2>2, <2>3
  <2>6. adopted' \in BOOLEAN
    BY <1>4
  <2> QED
    BY <1>3, <2>1, <2>2, <2>3, <2>4, <2>5, <2>6
<1>5. CASE Returns(c) /\ UNCHANGED <<reg, kept, adopted>>
  BY <1>5, IdleRecord, BecomesFacts DEF Returns, Idle, TypeOK
<1> QED
  BY <1>4, <1>5 DEF Plans

LEMMA TypeAdd == ASSUME TInv, NEW c \in Calls, AddTunnel(c) \/ PersistWrites(c) PROVE TInv'
<1> USE StoreAssumption DEF TInv
<1>1. call[c].pc \in {"add", "persist"} /\ Plans(c)
  BY DEF AddTunnel, PersistWrites
<1>2. mode = "up"
  BY <1>1, BusyIsUp
<1>3. call[c].name \in Names /\ call[c].spec \in Specs
  BY <1>1, RecordAt DEF AtLabel, Sensible
<1>4. /\ CallsOK' /\ \A d \in Calls \ {c} : call'[d] = call[d]
      /\ call'[c].pc \in {"launch", "idle"}
      /\ IsMap(reg', Specs) /\ kept' \subseteq DOMAIN reg' /\ adopted' \in BOOLEAN
  BY <1>1, PlansFacts
<1>5. \A d \in Calls \ {c} : Stays(d)
  BY <1>4 DEF Stays
<1>6. dir' \in [Names -> Specs \cup {Absent, Torn}]
  BY <1>3 DEF AddTunnel, PersistWrites, TypeOK, disk
<1>7. lock \in {None, c} /\ lock' = None
  BY DEF AddTunnel, PersistWrites, TypeOK
<1>8. UNCHANGED <<file, keys, mode, cfg, acked, damaged>>
  BY DEF AddTunnel, PersistWrites, disk
<1>9. file' \in {Absent, Torn} \/ IsMap(file', Entries)
  BY <1>8 DEF TypeOK
<1>10. IsMap(cfg', Entries)
  BY <1>8 DEF TypeOK
<1>11. mode' = "up" /\ keys' = keys /\ acked' \in [Names -> BOOLEAN \cup {None}] /\ damaged' \in BOOLEAN
  BY <1>2, <1>8 DEF TypeOK
<1> QED
  BY <1>2, <1>4, <1>5, <1>6, <1>7, <1>9, <1>10, <1>11, TypeHeavy

LEMMA TypePersist == ASSUME TInv, NEW c \in Calls, PersistOpens(c) \/ PersistFails(c) PROVE TInv'
<1> USE StoreAssumption DEF TInv
<1>1. call[c].pc \in {"add", "persist"} /\ call[c].op = "Create"
  BY RecordAt DEF PersistOpens, PersistFails, AtLabel
<1>2. mode = "up"
  BY <1>1, BusyIsUp
<1>3. call[c].name \in Names
  BY <1>1, RecordAt DEF AtLabel, Sensible
<1>4. CASE Returns(c) /\ lock' = None /\ UNCHANGED <<disk, memory, ghosts>>
  <2>1. CallsOK' /\ call'[c] = Idle /\ \A d \in Calls \ {c} : Stays(d)
    BY <1>4, IdleRecord, BecomesFacts DEF Returns, Stays
  <2>2. lock \in {None, c}
    BY DEF PersistOpens, PersistFails, TypeOK
  <2> QED
    BY <1>2, <1>4, <2>1, <2>2, TypeHeavy DEF TypeOK, disk, memory, ghosts, Idle
<1>5. CASE PersistOpens(c) /\ Goes(c, "persist") /\ lock' = c /\ dir' = [dir EXCEPT ![call[c].name] = Torn]
  <2> DEFINE m == [call[c] EXCEPT !.pc = "persist"]
  <2>1. m \in {r \in Records : AtLabel(r)}
    BY <1>1, <1>5, GoesRecord DEF PersistOpens, Labels
  <2>2. m.pc = "persist" /\ m.name = call[c].name
    BY RecordAt, MovedRecord DEF Labels
  <2>3. CallsOK' /\ call'[c] = m /\ \A d \in Calls \ {c} : Stays(d)
    BY <1>5, <2>1, BecomesFacts DEF Goes, Stays
  <2>4. dir' \in [Names -> Specs \cup {Absent, Torn}]
    BY <1>3, <1>5 DEF TypeOK
  <2>5. lock = None /\ call[c].name \notin DOMAIN reg /\ UNCHANGED <<file, keys, memory, ghosts>>
    BY <1>5 DEF PersistOpens, Free
  <2>6. call'[c].pc = "persist" /\ call'[c].name \notin DOMAIN reg'
    BY <2>2, <2>3, <2>5 DEF memory
  <2> QED
    BY <1>2, <1>5, <2>3, <2>4, <2>5, <2>6, TypeHeavy DEF TypeOK, memory, ghosts
<1> QED
  BY <1>4, <1>5 DEF PersistOpens, PersistFails, disk

LEMMA TypeRemove == ASSUME TInv, NEW c \in Calls, RemoveTunnel(c) PROVE TInv'
<1> USE StoreAssumption DEF TInv
<1>1. call[c].pc = "remove" /\ lock = None /\ Becomes(c, Idle)
  BY DEF RemoveTunnel, Returns
<1>2. mode = "up"
  BY <1>1, BusyIsUp
<1>3. CallsOK' /\ call'[c] = Idle /\ \A d \in Calls \ {c} : Stays(d)
  BY <1>1, IdleRecord, BecomesFacts DEF Stays
<1>4. IsMap(reg', Specs) /\ kept' \subseteq DOMAIN reg'
  BY DEF RemoveTunnel, RemoveSpec, IsMap, TypeOK
<1>5. UNCHANGED <<disk, mode, cfg, lock, ghosts>>
  BY DEF RemoveTunnel
<1> QED
  BY <1>1, <1>2, <1>3, <1>4, <1>5, TypeHeavy DEF TypeOK, disk, ghosts, Idle

(* What SetEnabled does to the config in memory.                           *)
LEMMA SetEnabledFacts ==
  ASSUME IsMap(cfg, Entries), NEW n \in DOMAIN cfg, NEW on \in BOOLEAN, SetEnabled(n, on)
  PROVE  /\ IsMap(cfg', Entries) /\ DOMAIN cfg' = DOMAIN cfg
         /\ cfg'[n].enabled = on
         /\ \A m \in DOMAIN cfg : cfg'[m].spec = cfg[m].spec
         /\ \A m \in DOMAIN cfg \ {n} : cfg'[m] = cfg[m]
  BY DEF SetEnabled, IsMap, Entries

LEMMA SwitchFacts ==
  ASSUME TInv, NEW c \in Calls, SwitchOpens(c)
  PROVE  /\ CallsOK' /\ \A d \in Calls \ {c} : Stays(d)
         /\ \A d \in Calls \ {c} : d \notin Overtaken(call[c].name) => call'[d] = call[d]
         /\ \A d \in Overtaken(call[c].name) \ {c} : call'[d].crossed
         /\ \/ call'[c] = Idle /\ UNCHANGED <<file, lock, damaged>>
            \/ /\ call'[c].pc = "save" /\ call'[c].name = call[c].name /\ call'[c].op = call[c].op
               /\ file' = Torn /\ damaged' = TRUE /\ lock' = c
<1> USE DEF TInv
<1> DEFINE m == [call[c] EXCEPT !.pc = "save", !.spec = reg[call[c].name]]
<1>1. /\ call[c].pc = "switch" /\ call[c].op \in {"Enable", "Disable"}
      /\ call[c] \in Records /\ Sensible(call[c])
      /\ reg[call[c].name] \in Specs
  BY RecordAt DEF SwitchOpens, AtLabel, TypeOK, IsMap
<1>2. /\ m \in Records /\ m.pc = "save" /\ m.name = call[c].name /\ m.op = call[c].op
      /\ m.ref = call[c].ref /\ m.content = call[c].content
  BY <1>1 DEF Records, Labels
<1>3. m \in {r \in Records : AtLabel(r)}
  <2> HIDE DEF m
  <2>1. Sensible(m)
    BY <1>1, <1>2 DEF Sensible
  <2> QED
    BY <1>1, <1>2, <2>1 DEF AtLabel
<1>4. Overtaken(call[c].name) \subseteq Calls
  BY DEF Overtaken
<1>5. CASE Overtakes(c, Overtaken(call[c].name), Idle) /\ UNCHANGED <<file, lock, damaged>>
  BY <1>4, <1>5, IdleRecord, OvertakesFacts
<1>6. CASE /\ file' = Torn /\ damaged' = TRUE /\ lock' = c
           /\ Overtakes(c, Overtaken(call[c].name), m)
  BY <1>2, <1>3, <1>4, <1>6, OvertakesFacts, ZenonT(60)
<1> QED
  BY <1>5, <1>6 DEF SwitchOpens, SwitchesTo

LEMMA TypeSwitch == ASSUME TInv, NEW c \in Calls, SwitchOpens(c) PROVE TInv'
<1> USE StoreAssumption DEF TInv
<1>1. call[c].pc = "switch" /\ lock = None /\ call[c].name \in DOMAIN reg \cap DOMAIN cfg
  BY DEF SwitchOpens
<1>2. mode = "up"
  BY <1>1, BusyIsUp
<1>3. call[c].name \in Names
  BY <1>1 DEF TypeOK, IsMap
<1>4. Switched(c) \in BOOLEAN
  BY DEF Switched
<1>5. IsMap(cfg', Entries) /\ DOMAIN cfg' = DOMAIN cfg
  BY <1>1, <1>4, SetEnabledFacts DEF SwitchOpens, SwitchesTo, TypeOK
<1>6. acked' \in [Names -> BOOLEAN \cup {None}]
  BY <1>3 DEF SwitchOpens, SwitchesTo, TypeOK
<1>7. UNCHANGED <<dir, keys, mode, reg, kept, adopted>>
  BY DEF SwitchOpens, SwitchesTo
<1>8. CallsOK' /\ \A d \in Calls \ {c} : Stays(d)
  BY SwitchFacts
<1>9. CASE call'[c] = Idle /\ UNCHANGED <<file, lock, damaged>>
  BY <1>1, <1>2, <1>5, <1>6, <1>7, <1>8, <1>9, TypeHeavy DEF TypeOK, Idle, IsMap
<1>10. CASE /\ call'[c].pc = "save" /\ call'[c].name = call[c].name
            /\ file' = Torn /\ damaged' = TRUE /\ lock' = c
  BY <1>1, <1>2, <1>5, <1>6, <1>7, <1>8, <1>10, TypeHeavy DEF TypeOK
<1> QED
  BY <1>9, <1>10, SwitchFacts

(* The label a switch has when its file is written.                        *)
LEMMA SaveFacts ==
  ASSUME TInv, NEW c \in Calls, Save(c)
  PROVE  /\ CallsOK' /\ \A d \in Calls \ {c} : call'[d] = call[d]
         /\ call'[c].pc \in {"launch", "halt"}
         /\ call'[c].name = call[c].name /\ call'[c].op = call[c].op
<1> USE DEF TInv
<1> DEFINE label == IF Switched(c) THEN "launch" ELSE "halt"
           m == [call[c] EXCEPT !.pc = label]
<1>1. call[c].pc = "save" /\ call[c].op \in {"Enable", "Disable"} /\ call[c] \in Records /\ Sensible(call[c])
  BY RecordAt DEF Save, AtLabel
<1>2. label \in Labels
  BY DEF Labels
<1>3. m.op = call[c].op /\ m.name = call[c].name /\ m.pc = label
  BY <1>1, <1>2, MovedRecord
<1>4. label \in {"launch", "halt"} /\ (label = "launch" => call[c].op = "Enable")
  BY DEF Switched
<1>5. Becomes(c, m)
  BY DEF Save, Goes
<1>6. m \in {r \in Records : AtLabel(r)}
  BY <1>1, <1>2, <1>4, GoesRecord
<1> HIDE DEF m, label
<1>7. CallsOK' /\ call'[c] = m /\ \A d \in Calls \ {c} : call'[d] = call[d]
  BY <1>5, <1>6, BecomesFacts
<1> QED
  BY <1>3, <1>4, <1>7

LEMMA TypeSave == ASSUME TInv, NEW c \in Calls, Save(c) \/ SaveFails(c) PROVE TInv'
<1> USE StoreAssumption DEF TInv
<1>1. call[c].pc = "save" /\ lock = c
  BY DEF Save, SaveFails, TypeOK
<1>2. mode = "up"
  BY <1>1, BusyIsUp
<1>3. file' \in {Absent, Torn} \/ IsMap(file', Entries)
  BY DEF Save, SaveFails, Fragments, IsMap, TypeOK
<1>4. UNCHANGED <<dir, keys, memory, acked, adopted>> /\ damaged' \in BOOLEAN /\ lock' = None
  BY DEF Save, SaveFails, TypeOK, ghosts
<1>5. CallsOK' /\ call'[c].pc \in {"launch", "halt", "idle"} /\ \A d \in Calls \ {c} : call'[d] = call[d]
  <2>1. CASE Save(c)
    BY <2>1, SaveFacts
  <2>2. CASE SaveFails(c)
    BY <2>2, IdleRecord, BecomesFacts DEF SaveFails, Returns, Idle
  <2> QED
    BY <2>1, <2>2
<1>6. \A d \in Calls \ {c} : Stays(d)
  BY <1>5 DEF Stays
<1> QED
  BY <1>1, <1>2, <1>3, <1>4, <1>5, <1>6, TypeHeavy DEF TypeOK, memory

LEMMA TypeNext == TInv /\ [Next]_vars => TInv'
<1> SUFFICES ASSUME TInv, [Next]_vars PROVE TInv'
  OBVIOUS
<1>1. CASE UNCHANGED vars
  BY <1>1 DEF vars, disk, memory, ghosts, TInv, TypeOK, CallsOK, Held, Quiet, IsMap
<1>2. CASE Boot \/ BootFails
  BY <1>2, TypeBoot
<1>3. CASE Crash \/ \E c \in Calls : PersistPanics(c)
  BY <1>3, TypeDies DEF Crash, PersistPanics
<1>4. CASE \E c \in Calls, r \in Requests : Call(c, r)
  BY <1>4, TypeCall
<1>5. CASE \E c \in Calls : SaveKeyOpens(c) \/ SaveKeyWrites(c) \/ DeleteKey(c)
  BY <1>5, TypeKeys
<1>6. CASE \E c \in Calls : AddTunnelRefused(c) \/ SwitchRefused(c) \/ Launch(c) \/ LaunchFails(c) \/ Halt(c)
  BY <1>6, TypeReturns
<1>7. CASE \E c \in Calls : AddTunnel(c) \/ PersistWrites(c)
  BY <1>7, TypeAdd
<1>8. CASE \E c \in Calls : PersistOpens(c) \/ PersistFails(c)
  BY <1>8, TypePersist
<1>9. CASE \E c \in Calls : RemoveTunnel(c)
  BY <1>9, TypeRemove
<1>10. CASE \E c \in Calls : SwitchOpens(c)
  BY <1>10, TypeSwitch
<1>11. CASE \E c \in Calls : Save(c) \/ SaveFails(c)
  BY <1>11, TypeSave
<1> QED
  BY <1>1, <1>2, <1>3, <1>4, <1>5, <1>6, <1>7, <1>8, <1>9, <1>10, <1>11 DEF Next

(* Every variable has its type, and the lock is held by exactly the call   *)
(* that is between the two halves of a write (supervisor.go:117).          *)
THEOREM TypeCorrect == Spec => []TypeOK
<1>1. Spec => []TInv
  BY TypeInit, TypeNext, PTL DEF Spec
<1>2. TInv => TypeOK
  BY DEF TInv
<1> QED
  BY <1>1, <1>2, PTL

LEMMA TypesAlways == Spec => []TInv
  BY TypeInit, TypeNext, PTL DEF Spec

-----------------------------------------------------------------------------
(* The steps of one call.                                                  *)

KeySteps(c) == SaveKeyOpens(c) \/ SaveKeyWrites(c) \/ DeleteKey(c)
Refusals(c) == AddTunnelRefused(c) \/ SwitchRefused(c) \/ LaunchFails(c) \/ PersistFails(c)
Answers(c) == Launch(c) \/ Halt(c)

Step(c) ==
    \/ \E r \in Requests : Call(c, r)
    \/ KeySteps(c) \/ Refusals(c) \/ Answers(c)
    \/ AddTunnel(c) \/ PersistOpens(c) \/ PersistWrites(c) \/ RemoveTunnel(c)
    \/ SwitchOpens(c) \/ Save(c) \/ SaveFails(c)

LEMMA Steps ==
  ASSUME [Next]_vars
  PROVE  \/ UNCHANGED vars
         \/ Boot \/ BootFails \/ Dies
         \/ \E c \in Calls : Step(c)
  BY DEF Next, Step, KeySteps, Refusals, Answers, Crash, PersistPanics

LEMMA OthersStay ==
  ASSUME TInv, NEW c \in Calls, Step(c)
  PROVE  \A d \in Calls \ {c} : Stays(d)
<1> USE DEF TInv
<1>1. CASE \E r : Becomes(c, r)
  BY <1>1, BecomesFacts DEF Stays
<1>2. CASE \E r : \E D \in SUBSET Calls : Overtakes(c, D, r)
  BY <1>2, OvertakesFacts
<1>3. KeyUsers(call[c].ref) \in SUBSET Calls /\ Overtaken(call[c].name) \in SUBSET Calls
  BY DEF KeyUsers, Overtaken
<1>4. CASE KeySteps(c)
  BY <1>1, <1>2, <1>3, <1>4 DEF KeySteps, SaveKeyOpens, SaveKeyWrites, DeleteKey, Returns
<1>5. CASE Refusals(c) \/ Answers(c) \/ RemoveTunnel(c) \/ SaveFails(c) \/ PersistOpens(c)
  BY <1>1, <1>5 DEF Refusals, Answers, AddTunnelRefused, SwitchRefused, LaunchFails, PersistFails, Launch, Halt,
                    RemoveTunnel, SaveFails, PersistOpens, Returns, Goes
<1>6. CASE AddTunnel(c) \/ PersistWrites(c)
  BY <1>1, <1>6 DEF AddTunnel, PersistWrites, Plans, Returns, Goes
<1>7. CASE SwitchOpens(c)
  BY <1>7, SwitchFacts
<1>8. CASE Save(c) \/ \E r \in Requests : Call(c, r)
  BY <1>1, <1>8 DEF Save, Goes, Call
<1> QED
  BY <1>4, <1>5, <1>6, <1>7, <1>8 DEF Step

(* The steps that lead to a label.                                         *)
LEMMA NewLabel ==
  ASSUME TInv, NEW c \in Calls, Step(c)
  PROVE  /\ call'[c].pc = "save" => SwitchOpens(c)
         /\ call'[c].pc = "persist" => PersistOpens(c)
         /\ call'[c].pc = "halt" => Save(c)
         /\ call'[c].pc = "launch" => Save(c) \/ AddTunnel(c) \/ PersistWrites(c)
         /\ call'[c].pc = "add" => SaveKeyWrites(c) \/ \E r \in Requests : Call(c, r)
<1> USE DEF TInv
<1>1. CASE Becomes(c, Idle)
  BY <1>1, BecomesFacts DEF Idle
<1>2. CASE \E D \in SUBSET Calls : Overtakes(c, D, Idle)
  BY <1>2, OvertakesFacts DEF Idle
<1>3. KeyUsers(call[c].ref) \in SUBSET Calls
  BY DEF KeyUsers
<1>4. CASE SaveKeyOpens(c)
  <2> DEFINE m == [call[c] EXCEPT !.pc = "keyWrite"]
  <2>1. m.pc = "keyWrite"
    BY RecordAt, MovedRecord DEF Labels
  <2>2. CASE Overtakes(c, KeyUsers(call[c].ref), m)
    <3> HIDE DEF m
    <3> QED
      BY <1>3, <2>1, <2>2, OvertakesFacts
  <2> QED
    BY <1>1, <1>4, <2>2 DEF SaveKeyOpens, Returns
<1>5. CASE SaveKeyWrites(c)
  <2>1. AfterKey(c).pc \in {"add", "idle"}
    BY <1>5, AfterKeyRecord DEF SaveKeyWrites
  <2>2. CASE Overtakes(c, KeyUsers(call[c].ref), AfterKey(c))
    BY <1>3, <1>5, <2>1, <2>2, OvertakesFacts
  <2> QED
    BY <1>1, <1>5, <2>2 DEF SaveKeyWrites, Returns
<1>6. CASE DeleteKey(c)
  BY <1>1, <1>2, <1>3, <1>6 DEF DeleteKey, Returns
<1>7. CASE Refusals(c) \/ Answers(c) \/ RemoveTunnel(c) \/ SaveFails(c)
  BY <1>1, <1>7 DEF Refusals, Answers, AddTunnelRefused, SwitchRefused, LaunchFails, PersistFails, Launch, Halt,
                    RemoveTunnel, SaveFails, Returns
<1>8. CASE PersistOpens(c)
  <2> DEFINE m == [call[c] EXCEPT !.pc = "persist"]
  <2>1. m.pc = "persist"
    BY RecordAt, MovedRecord DEF Labels
  <2>2. CASE Becomes(c, m)
    <3> HIDE DEF m
    <3> QED
      BY <1>8, <2>1, <2>2, BecomesFacts
  <2> QED
    BY <1>1, <1>8, <2>2 DEF PersistOpens, Returns, Goes
<1>9. CASE AddTunnel(c) \/ PersistWrites(c)
  BY <1>9, PlansFacts DEF AddTunnel, PersistWrites
<1>10. CASE SwitchOpens(c)
  <2>1. call'[c] = Idle \/ call'[c].pc = "save"
    BY <1>10, SwitchFacts
  <2> QED
    BY <1>10, <2>1 DEF Idle
<1>11. CASE Save(c)
  BY <1>11, SaveFacts
<1>12. ASSUME NEW r \in Requests, Call(c, r)
       PROVE  call'[c].pc \in {"key", "add", "deleteKey", "remove", "switch"}
  <2>1. Entry(r) \in {"key", "add", "deleteKey", "remove", "switch"}
    BY DEF Entry
  <2>2. call'[c].pc = Entry(r)
    BY <1>12, BecomesFacts DEF Call
  <2> QED
    BY <2>1, <2>2
<1> QED
  BY <1>4, <1>5, <1>6, <1>7, <1>8, <1>9, <1>10, <1>11, <1>12 DEF Step, KeySteps

-----------------------------------------------------------------------------
(* Coming up again.                                                        *)

Enabled(f) == {n \in DOMAIN f : f[n].enabled}

(* The tunnels of N can be enabled together, but for missing dependencies. *)
Sound(f, N) ==
    /\ \A m, n \in N : m # n => f[m].spec.ports \cap f[n].spec.ports = {}
    /\ \A S \in SUBSET N : S # {} => \E n \in S : f[n].spec.deps \cap S = {}

LEMMA SoundSubset ==
  ASSUME NEW f, NEW g, NEW N, NEW M \in SUBSET N, Sound(f, N), \A n \in M : g[n].spec = f[n].spec
  PROVE  Sound(g, M)
<1>1. \A m, n \in M : m # n => g[m].spec.ports \cap g[n].spec.ports = {}
  BY DEF Sound
<1>2. ASSUME NEW S \in SUBSET M, S # {} PROVE \E n \in S : g[n].spec.deps \cap S = {}
  <2>1. PICK n \in S : f[n].spec.deps \cap S = {}
    BY <1>2 DEF Sound
  <2> QED
    BY <2>1
<1> QED
  BY <1>1, <1>2 DEF Sound

(* What run and Plan check, but for missing dependencies.                  *)
LEMMA SoundStarts ==
  ASSUME NEW f PROVE Sound(f, Enabled(f)) <=> Validate(f) /\ Acyclic(ToSpecs(f))
<1>1. DOMAIN ToSpecs(f) = Enabled(f) /\ \A n \in Enabled(f) : ToSpecs(f)[n] = f[n].spec
  BY DEF ToSpecs, Enabled
<1>2. Acyclic(ToSpecs(f)) <=> \A S \in SUBSET Enabled(f) : S # {} => \E n \in S : f[n].spec.deps \cap S = {}
  BY <1>1 DEF Acyclic
<1> QED
  BY <1>1, <1>2 DEF Sound, Validate

(* The tunnels that are enabled, in memory or in the file, or that a       *)
(* switch may enable because they are registered.                          *)
Candidates ==
    {n \in DOMAIN cfg : cfg[n].enabled \/ n \in DOMAIN reg \/ (~damaged /\ n \in Enabled(Config))}

SameSpecs == DOMAIN Config = DOMAIN cfg /\ \A n \in DOMAIN cfg : Config[n].spec = cfg[n].spec

(* Inductive: whatever may come to be enabled fits together.               *)
BootInv ==
    /\ mode = "up" /\ ~adopted => Sound(cfg, Candidates)
    /\ mode = "up" /\ ~damaged => file # Torn /\ SameSpecs
    /\ mode # "up" /\ ~adopted /\ ~damaged => file # Torn /\ Sound(Config, Enabled(Config))
    /\ \A c \in Calls : call[c].pc = "save" => damaged
    /\ StartsAgain

LEMMA BootBoots == ASSUME TInv, BootInv, Boot PROVE BootInv'
<1>1. /\ mode' = "up" /\ cfg' = Config /\ reg' = ToSpecs(Config) /\ file' = file /\ call' = call
      /\ damaged' = FALSE /\ Starts
  BY DEF Boot, disk
<1>2. Config' = Config
  BY <1>1 DEF Config
<1>3. Sound(Config, Enabled(Config))
  BY <1>1, SoundStarts DEF Starts, PlanSucceeds
<1>4. Candidates' = Enabled(Config)
  BY <1>1, <1>2 DEF Candidates, Enabled, ToSpecs
<1>5. \A c \in Calls : call'[c].pc # "save"
  BY <1>1 DEF Boot, TInv, Quiet
<1>6. file' # Torn /\ SameSpecs'
  BY <1>1, <1>2 DEF Starts, Loads, SameSpecs
<1> QED
  BY <1>1, <1>3, <1>4, <1>5, <1>6 DEF BootInv, StartsAgain

LEMMA BootRefuses == ASSUME TInv, BootInv, BootFails PROVE BootInv'
<1>1. mode = "down" /\ mode' = "fatal" /\ UNCHANGED <<file, call, damaged, adopted>> /\ ~Starts
  BY DEF BootFails, disk, ghosts
<1>2. Config' = Config
  BY <1>1 DEF Config
<1>3. ~damaged /\ ~adopted => Dangling(ToSpecs(Config)) # {}
  BY <1>1, SoundStarts DEF BootInv, Starts, Loads, PlanSucceeds
<1> QED
  BY <1>1, <1>2, <1>3 DEF BootInv, StartsAgain

LEMMA BootDies == ASSUME TInv, BootInv, Dies PROVE BootInv'
<1>1. /\ mode' = "down" /\ damaged' = damaged /\ adopted' = adopted
      /\ \A c \in Calls : call'[c].pc = "idle"
      /\ file # Torn => file' = file
  BY DEF Dies, ghosts, Idle
<1>2. ASSUME ~adopted, ~damaged PROVE file' # Torn /\ Sound(Config', Enabled(Config'))
  <2>1. file # Torn /\ file' = file /\ Config' = Config
    BY <1>1, <1>2 DEF BootInv, Config
  <2>2. CASE mode = "up"
    <3>1. SameSpecs /\ Sound(cfg, Candidates)
      BY <1>2, <2>2 DEF BootInv
    <3>2. Enabled(Config) \in SUBSET Candidates
      BY <1>2, <3>1 DEF Enabled, Candidates, SameSpecs
    <3>3. \A n \in Enabled(Config) : Config[n].spec = cfg[n].spec
      BY <3>1 DEF Enabled, SameSpecs
    <3> QED
      BY <2>1, <3>1, <3>2, <3>3, SoundSubset
  <2>3. CASE mode # "up"
    BY <1>2, <2>1, <2>3 DEF BootInv
  <2> QED
    BY <2>2, <2>3
<1> QED
  BY <1>1, <1>2 DEF BootInv, StartsAgain

(* A step of an up daemon that brings no new candidate.                    *)
LEMMA BootNarrows ==
  ASSUME TInv, BootInv, mode = "up", mode' = "up", ~adopted' => ~adopted,
         DOMAIN cfg' = DOMAIN cfg, \A n \in DOMAIN cfg : cfg'[n].spec = cfg[n].spec,
         ~adopted' => Candidates' \subseteq Candidates,
         ~damaged' => file' # Torn /\ SameSpecs',
         \A c \in Calls : call'[c].pc = "save" => damaged'
  PROVE  BootInv'
<1>1. ASSUME ~adopted' PROVE Sound(cfg', Candidates')
  <2>1. Sound(cfg, Candidates) /\ Candidates' \in SUBSET Candidates
    BY <1>1 DEF BootInv
  <2>2. \A n \in Candidates' : cfg'[n].spec = cfg[n].spec
    BY DEF Candidates
  <2> QED
    BY <2>1, <2>2, SoundSubset
<1> QED
  BY <1>1 DEF BootInv, StartsAgain

(* The config in memory is written as it is.                               *)
LEMMA BootSaves == ASSUME TInv, BootInv, NEW c \in Calls, Save(c) PROVE BootInv'
<1>1. /\ call[c].pc = "save" /\ file' = cfg /\ damaged' = FALSE
      /\ UNCHANGED <<mode, cfg, reg, adopted>>
  BY DEF Save, memory
<1>2. mode = "up"
  BY <1>1, BusyIsUp
<1>3. cfg # Absent /\ cfg # Torn
  BY StoreAssumption DEF TInv, TypeOK, IsMap
<1>4. Config' = cfg'
  BY <1>1, <1>3 DEF Config
<1>5. SameSpecs' /\ Candidates' \subseteq Candidates
  BY <1>1, <1>4 DEF SameSpecs, Candidates, Enabled
<1>6. \A d \in Calls : call'[d].pc # "save"
  BY <1>1, SaveFacts DEF TInv, TypeOK
<1> QED
  BY <1>1, <1>2, <1>3, <1>5, <1>6, BootNarrows

LEMMA BootSwitches == ASSUME TInv, BootInv, NEW c \in Calls, SwitchOpens(c) PROVE BootInv'
<1> DEFINE n == call[c].name
<1>1. /\ call[c].pc = "switch" /\ n \in DOMAIN reg /\ n \in DOMAIN cfg /\ SetEnabled(n, Switched(c))
      /\ UNCHANGED <<mode, reg, adopted>>
  BY DEF SwitchOpens, SwitchesTo
<1>2. mode = "up" /\ IsMap(cfg, Entries) /\ Switched(c) \in BOOLEAN
  BY <1>1, BusyIsUp DEF TInv, TypeOK, Switched
<1>3. /\ DOMAIN cfg' = DOMAIN cfg
      /\ \A m \in DOMAIN cfg : cfg'[m].spec = cfg[m].spec
      /\ \A m \in DOMAIN cfg \ {n} : cfg'[m] = cfg[m]
  BY <1>1, <1>2, SetEnabledFacts
<1>4. \A d \in Calls \ {c} : call'[d].pc = call[d].pc
  BY SwitchFacts DEF Stays
<1>5. damaged' = TRUE \/ (file' = file /\ damaged' = damaged)
  BY DEF SwitchOpens, SwitchesTo
<1>6. Candidates' \subseteq Candidates
  <2>1. ~damaged' => Config' = Config /\ ~damaged
    BY <1>5 DEF Config
  <2> QED
    BY <1>1, <1>3, <2>1 DEF Candidates
<1>7. ~damaged' => file' # Torn /\ SameSpecs'
  BY <1>2, <1>3, <1>5 DEF BootInv, SameSpecs, Config
<1>8. ASSUME NEW d \in Calls, call'[d].pc = "save" PROVE damaged'
  <2>1. CASE d = c
    <3>1. call'[c] = Idle \/ damaged' = TRUE
      BY SwitchFacts, Zenon
    <3>2. Idle.pc # "save"
      BY DEF Idle
    <3> QED
      BY <1>8, <2>1, <3>1, <3>2
  <2>2. CASE d # c
    BY <1>4, <1>5, <1>8, <2>2 DEF BootInv
  <2> QED
    BY <2>1, <2>2
<1> QED
  BY <1>1, <1>2, <1>3, <1>6, <1>7, <1>8, BootNarrows

(* A tunnel that is created under a configured name is enabled in the      *)
(* config already, or it counts as adopted.                                *)
LEMMA BootPlans ==
  ASSUME TInv, BootInv, NEW c \in Calls, AddTunnel(c) \/ PersistWrites(c) PROVE BootInv'
<1>1. /\ call[c].pc \in {"add", "persist"} /\ Plans(c)
      /\ UNCHANGED <<file, mode, cfg, damaged>>
  BY DEF AddTunnel, PersistWrites, disk
<1>2. mode = "up"
  BY <1>1, BusyIsUp
<1>3. Config' = Config
  BY <1>1 DEF Config
<1>4. (~adopted' => ~adopted) /\ (~adopted' => Candidates' \subseteq Candidates)
  <2>1. CASE UNCHANGED <<reg, adopted>>
    BY <1>1, <1>3, <2>1 DEF Candidates
  <2>2. CASE /\ reg' = AddSpec(reg, call[c].name, call[c].spec)
             /\ adopted' = (adopted \/ (call[c].name \in DOMAIN cfg /\ ~cfg[call[c].name].enabled))
    <3>1. DOMAIN reg' = DOMAIN reg \cup {call[c].name}
      BY <2>2 DEF AddSpec
    <3>2. ~adopted' => ~adopted /\ (call[c].name \in DOMAIN cfg => cfg[call[c].name].enabled)
      BY <2>2
    <3>3. ASSUME ~adopted', NEW n \in Candidates' PROVE n \in Candidates
      BY <1>1, <1>3, <3>1, <3>2, <3>3 DEF Candidates
    <3> QED
      BY <3>2, <3>3
  <2> QED
    BY <1>1, <2>1, <2>2 DEF Plans
<1>5. \A d \in Calls : call'[d].pc = "save" => damaged'
  BY <1>1, PlansFacts DEF BootInv
<1> QED
  BY <1>1, <1>2, <1>3, <1>4, <1>5, BootNarrows DEF BootInv, SameSpecs

LEMMA BootNext == TInv /\ BootInv /\ [Next]_vars => BootInv'
<1> SUFFICES ASSUME TInv, BootInv, [Next]_vars PROVE BootInv'
  OBVIOUS
<1>1. CASE UNCHANGED vars
  BY <1>1 DEF vars, disk, memory, ghosts, BootInv, StartsAgain, SameSpecs, Candidates, Config
<1>2. ASSUME NEW c \in Calls, Step(c) PROVE BootInv'
  <2>1. CASE SaveFails(c)
    <3>1. call[c].pc = "save" /\ UNCHANGED <<mode, cfg, reg, damaged, adopted>> /\ Becomes(c, Idle)
      BY <2>1 DEF SaveFails, Returns, memory, ghosts
    <3>2. mode = "up" /\ damaged
      BY <3>1, BusyIsUp DEF BootInv
    <3>3. Candidates' = Candidates
      BY <3>1, <3>2 DEF Candidates
    <3> QED
      BY <3>1, <3>2, <3>3, BootNarrows
  <2>2. CASE Step(c) /\ ~Save(c) /\ ~SaveFails(c) /\ ~SwitchOpens(c) /\ ~AddTunnel(c) /\ ~PersistWrites(c)
    <3>1. UNCHANGED <<file, cfg, mode, damaged, adopted>> /\ (call[c].pc # "idle" \/ mode = "up")
      BY <2>2 DEF Step, KeySteps, Refusals, Answers, Call, SaveKeyOpens, SaveKeyWrites, DeleteKey, AddTunnelRefused,
                  SwitchRefused, LaunchFails, PersistFails, Launch, Halt, PersistOpens, RemoveTunnel,
                  disk, memory, ghosts
    <3>2. mode = "up" /\ Config' = Config
      BY <3>1, BusyIsUp DEF Config
    <3>3. DOMAIN reg' \subseteq DOMAIN reg
      BY <2>2 DEF Step, KeySteps, Refusals, Answers, Call, SaveKeyOpens, SaveKeyWrites, DeleteKey, AddTunnelRefused,
                  SwitchRefused, LaunchFails, PersistFails, Launch, Halt, PersistOpens, RemoveTunnel, RemoveSpec,
                  disk, memory
    <3>4. Candidates' \subseteq Candidates
      BY <3>1, <3>2, <3>3 DEF Candidates
    <3>5. \A d \in Calls : call'[d].pc = "save" => damaged'
      BY <1>2, <2>2, <3>1, NewLabel, OthersStay DEF BootInv, Stays
    <3> QED
      BY <3>1, <3>2, <3>4, <3>5, BootNarrows DEF BootInv, SameSpecs
  <2> QED
    BY <1>2, <2>1, <2>2, BootSaves, BootSwitches, BootPlans
<1> QED
  BY <1>1, <1>2, BootBoots, BootRefuses, BootDies, Steps

(* A daemon that came up once comes up again after any requests, failed    *)
(* writes and crashes that damage no file, unless a tunnel was disabled    *)
(* that an enabled one needs, or an entry was enabled through another      *)
(* tunnel of its name (run.go:51).                                         *)
THEOREM EnabledTunnelsFit == Spec => []StartsAgain
<1>1. Init => BootInv
  BY DEF Init, BootInv, StartsAgain, Idle
<1>2. Spec => []BootInv
  BY <1>1, TypesAlways, BootNext, PTL DEF Spec
<1>3. BootInv => StartsAgain
  BY DEF BootInv
<1> QED
  BY <1>2, <1>3, PTL

-----------------------------------------------------------------------------
(* Files of persistent tunnels.                                            *)

(* The file of a kept tunnel is not opened again: its name is taken, and   *)
(* who writes another file holds the lock and a name that is free.         *)
LEMMA KeptNext == TInv /\ PersistentOnDisk /\ [Next]_vars => PersistentOnDisk'
<1> SUFFICES ASSUME TInv, PersistentOnDisk, [Next]_vars PROVE PersistentOnDisk'
  OBVIOUS
<1>1. kept \subseteq DOMAIN reg /\ DOMAIN reg \subseteq Names /\ dir \in [Names -> Specs \cup {Absent, Torn}]
  BY DEF TInv, TypeOK, IsMap
<1>2. CASE UNCHANGED <<dir, reg, kept>>
  BY <1>2 DEF PersistentOnDisk
<1>3. CASE Boot \/ BootFails \/ Dies
  <2>1. CASE kept' = {}
    BY <2>1 DEF PersistentOnDisk
  <2>2. CASE BootFails
    BY <1>2, <2>2 DEF BootFails, disk
  <2> QED
    BY <1>3, <2>1, <2>2 DEF Boot, Dies, TInv, Quiet
<1>4. ASSUME NEW c \in Calls, Step(c) PROVE PersistentOnDisk'
  <2>1. CASE PersistWrites(c)
    <3>1. call[c].pc = "persist" /\ Plans(c) /\ dir' = [dir EXCEPT ![call[c].name] = call[c].spec]
      BY <2>1 DEF PersistWrites
    <3>2. call[c].name \in Names /\ call[c].name \notin DOMAIN reg
      BY <3>1, RecordAt DEF TInv, Held, AtLabel, Sensible
    <3>3. \A n \in kept : dir'[n] = reg'[n]
      BY <1>1, <3>1, <3>2, PlansFacts DEF PersistentOnDisk
    <3>4. dir'[call[c].name] = call[c].spec
      BY <1>1, <3>1, <3>2
    <3>5. kept' = kept \/ (kept' = kept \cup {call[c].name} /\ reg'[call[c].name] = call[c].spec)
      BY <3>1, PlansFacts
    <3> QED
      BY <3>3, <3>4, <3>5 DEF PersistentOnDisk
  <2>2. CASE AddTunnel(c)
    <3>1. call[c].pc = "add" /\ Plans(c) /\ dir' = dir /\ ~call[c].persistent
      BY <2>2 DEF AddTunnel, disk
    <3>2. kept' = kept /\ \A m \in DOMAIN reg : reg'[m] = reg[m]
      BY <3>1, PlansFacts
    <3> QED
      BY <1>1, <3>1, <3>2 DEF PersistentOnDisk
  <2>3. CASE PersistOpens(c)
    <3>1. call[c].name \notin kept
      BY <1>1, <2>3 DEF PersistOpens, Free
    <3>2. \A n \in kept : dir'[n] = dir[n]
      BY <1>1, <2>3, <3>1 DEF PersistOpens
    <3> QED
      BY <2>3, <3>2 DEF PersistOpens, PersistentOnDisk, memory
  <2>4. CASE RemoveTunnel(c)
    BY <1>1, <2>4 DEF RemoveTunnel, RemoveSpec, PersistentOnDisk, disk
  <2>5. CASE Step(c) /\ ~PersistWrites(c) /\ ~AddTunnel(c) /\ ~PersistOpens(c) /\ ~RemoveTunnel(c)
    <3>1. UNCHANGED <<dir, reg, kept>>
      BY <2>5 DEF Step, KeySteps, Refusals, Answers, Call, SaveKeyOpens, SaveKeyWrites, DeleteKey, AddTunnelRefused,
                  SwitchRefused, LaunchFails, PersistFails, Launch, Halt, SwitchOpens, SwitchesTo, Save, SaveFails,
                  disk, memory
    <3> QED
      BY <1>2, <3>1
  <2> QED
    BY <1>4, <2>1, <2>2, <2>3, <2>4, <2>5
<1> QED
  BY <1>2, <1>3, <1>4, Steps DEF vars, disk, memory

(* A tunnel created as persistent has its file as long as it is registered *)
(* (supervisor.go:151).                                                    *)
THEOREM PersistentStays == Spec => []PersistentOnDisk
<1>1. Init => PersistentOnDisk
  BY DEF Init, PersistentOnDisk
<1> QED
  BY <1>1, TypesAlways, KeptNext, PTL DEF Spec

-----------------------------------------------------------------------------
(* Inline keys.                                                            *)

(* A Create that is past its key and was not overtaken finds it there.     *)
KeySaved ==
    \A c \in Calls :
        /\ call[c].op = "Create" /\ call[c].pc \in {"add", "persist", "launch"}
        /\ call[c].content # None /\ ~call[c].crossed
        => keys[call[c].ref] = call[c].content

LEMMA KeyNext == TInv /\ TInv' /\ KeySaved /\ [Next]_vars => KeySaved'
<1> SUFFICES ASSUME TInv, TInv', KeySaved, [Next]_vars PROVE KeySaved'
  OBVIOUS
<1> USE DEF TInv
<1>1. CASE keys' = keys /\ call' = call
  BY <1>1 DEF KeySaved
<1>2. CASE Dies
  BY <1>2 DEF Dies, KeySaved, Idle
<1>3. ASSUME NEW c \in Calls, Step(c) PROVE KeySaved'
  <2>1. \A d \in Calls \ {c} : Stays(d)
    BY <1>3, OthersStay
  <2>2. \A d \in Calls : call[d] \in Records /\ AtLabel(call[d]) /\ call'[d] \in Records
    BY DEF CallsOK
  <2>3. CASE KeySteps(c)
    <3> DEFINE k == call[c].ref
    <3>1. k \in Keys
      BY <2>2, <2>3 DEF KeySteps, SaveKeyOpens, SaveKeyWrites, DeleteKey, AtLabel, Sensible
    <3>2. \A m \in Keys \ {k} : keys'[m] = keys[m]
      BY <2>3, <3>1 DEF KeySteps, SaveKeyOpens, SaveKeyWrites, DeleteKey, TypeOK
    <3>3. CASE keys' = keys /\ Becomes(c, Idle)
      BY <3>3, BecomesFacts DEF KeySaved, Idle
    <3>4. CASE \E r : Overtakes(c, KeyUsers(k), r)
      <4>1. PICK r : Overtakes(c, KeyUsers(k), r)
        BY <3>4
      <4>2. KeyUsers(k) \in SUBSET Calls
        BY DEF KeyUsers
      <4>3. /\ call'[c] = r
            /\ \A d \in KeyUsers(k) \ {c} : call'[d].crossed
        BY <4>1, <4>2, OvertakesFacts
      <4>4. ASSUME NEW d \in Calls \ {c}, call'[d].op = "Create", call'[d].pc \in {"add", "persist", "launch"},
                   call'[d].content # None, ~call'[d].crossed
            PROVE  keys'[call'[d].ref] = call'[d].content
        <5>1. call[d].ref # k
          BY <4>3, <4>4, <2>1 DEF Stays, KeyUsers
        <5>2. call[d].ref \in Keys
          BY <2>1, <2>2, <4>4 DEF Stays, AtLabel, Sensible
        <5> QED
          BY <2>1, <3>2, <4>4, <5>1, <5>2 DEF Stays, KeySaved
      <4>5. ASSUME call'[c].op = "Create", call'[c].pc \in {"add", "persist", "launch"},
                   call'[c].content # None, ~call'[c].crossed
            PROVE  keys'[call'[c].ref] = call'[c].content
        <5>1. call'[c].pc = "add" /\ SaveKeyWrites(c)
          BY <1>3, <2>3, <4>5, NewLabel
          DEF KeySteps, SaveKeyOpens, SaveKeyWrites, DeleteKey, Save, AddTunnel, PersistWrites, PersistOpens, Call
        <5>2. call[c].pc = "keyWrite"
          BY <5>1 DEF SaveKeyWrites
        <5>3. CASE keys' = keys /\ Becomes(c, Idle)
          BY <4>5, <5>3, BecomesFacts DEF Idle
        <5>4. CASE /\ keys' \in {[keys EXCEPT ![k] = call[c].content]}
                        \cup (IF call[c].crossed THEN {keys, [keys EXCEPT ![k] = Torn]} ELSE {})
                   /\ Overtakes(c, KeyUsers(k), AfterKey(c))
          <6>1. call'[c] = AfterKey(c)
            BY <4>2, <5>4, OvertakesFacts
          <6>2. AfterKey(c) = [call[c] EXCEPT !.pc = "add"]
            BY <4>5, <6>1 DEF AfterKey, Idle
          <6>3. call'[c].ref = k /\ call'[c].content = call[c].content /\ call'[c].crossed = call[c].crossed
            BY <2>2, <6>1, <6>2, MovedRecord DEF Labels
          <6>4. keys' = [keys EXCEPT ![k] = call[c].content]
            BY <4>5, <5>4, <6>3
          <6> QED
            BY <3>1, <6>3, <6>4 DEF TypeOK
        <5> QED
          BY <5>1, <5>3, <5>4 DEF SaveKeyWrites, Returns
      <4> QED
        BY <4>4, <4>5 DEF KeySaved
    <3> QED
      BY <2>3, <3>3, <3>4 DEF KeySteps, SaveKeyOpens, SaveKeyWrites, DeleteKey, Returns
  <2>4. CASE Step(c) /\ ~KeySteps(c)
    <3>1. keys' = keys
      BY <2>4 DEF Step, Refusals, Answers, Call, AddTunnelRefused,
                  SwitchRefused, LaunchFails, PersistFails, Launch, Halt, SwitchOpens, SwitchesTo, Save, SaveFails,
                  AddTunnel, PersistOpens, PersistWrites, RemoveTunnel, disk, memory
    <3>2. ASSUME call'[c].op = "Create", call'[c].pc \in {"add", "persist", "launch"},
                 call'[c].content # None, ~call'[c].crossed
          PROVE  keys'[call'[c].ref] = call'[c].content
      <4>1. CASE Save(c)
        BY <2>2, <3>2, <4>1, SaveFacts DEF Save, AtLabel
      <4>2. CASE \E r \in Requests : Call(c, r)
        <5>1. PICK r \in Requests : Call(c, r)
          BY <4>2
        <5>2. /\ call'[c].op = r.op /\ call'[c].content = r.content /\ call'[c].pc = Entry(r)
          BY <5>1, BecomesFacts DEF Call
        <5> QED
          BY <3>2, <5>2 DEF Entry
      <4>3. CASE AddTunnel(c) \/ PersistWrites(c)
        <5>1. call[c].pc \in {"add", "persist"} /\ Plans(c)
          BY <4>3 DEF AddTunnel, PersistWrites
        <5>2. call'[c] = [call[c] EXCEPT !.pc = "launch"]
          BY <3>2, <5>1, PlansFacts
        <5>3. /\ call'[c].op = call[c].op /\ call'[c].ref = call[c].ref
              /\ call'[c].content = call[c].content /\ call'[c].crossed = call[c].crossed
          BY <2>2, <5>2, MovedRecord DEF Labels
        <5> QED
          BY <3>1, <3>2, <5>1, <5>3 DEF KeySaved
      <4>4. CASE PersistOpens(c)
        <5>1. call[c].pc = "add" /\ (Becomes(c, Idle) \/ Becomes(c, [call[c] EXCEPT !.pc = "persist"]))
          BY <4>4 DEF PersistOpens, Returns, Goes
        <5>2. call'[c] = [call[c] EXCEPT !.pc = "persist"]
          BY <3>2, <5>1, BecomesFacts DEF Idle
        <5>3. /\ call'[c].op = call[c].op /\ call'[c].ref = call[c].ref
              /\ call'[c].content = call[c].content /\ call'[c].crossed = call[c].crossed
          BY <2>2, <5>2, MovedRecord DEF Labels
        <5> QED
          BY <3>1, <3>2, <5>1, <5>3 DEF KeySaved
      <4> QED
        BY <2>4, <3>2, <4>1, <4>2, <4>3, <4>4, NewLabel DEF KeySteps
    <3> QED
      BY <2>1, <3>1, <3>2 DEF KeySaved, Stays
  <2> QED
    BY <1>3, <2>3, <2>4
<1> QED
  BY <1>1, <1>2, <1>3, Steps DEF vars, disk, Boot, BootFails

(* The tunnel of a Create with an inline key is launched with its key in   *)
(* place, unless another call wrote or deleted the key (grpc_server.go:218)*)
THEOREM KeyBeforeLaunch == Spec => []KeyReadyAtLaunch
<1>1. Init => KeySaved
  BY DEF Init, KeySaved, Idle
<1>2. Spec => []KeySaved
  BY <1>1, TypesAlways, KeyNext, PTL DEF Spec
<1>3. KeySaved => KeyReadyAtLaunch
  BY DEF KeySaved, KeyReadyAtLaunch
<1> QED
  BY <1>2, <1>3, PTL

-----------------------------------------------------------------------------
(* Switches.                                                               *)

IsSwitch(c) == call[c].op \in {"Enable", "Disable"} /\ call[c].pc \in {"launch", "halt"} /\ ~call[c].crossed

Says(f, n, on) == n \in DOMAIN f /\ f[n].enabled = on

(* The config in memory, and the file unless a write of it was cut short,  *)
(* say what was acknowledged and what is about to be.                      *)
AckedKept ==
    /\ mode = "up" => \A n \in Names : acked[n] # None => Says(cfg, n, acked[n])
    /\ ~damaged => \A n \in Names : acked[n] # None => file \notin {Absent, Torn} /\ Says(file, n, acked[n])

PendingKept ==
    \A c \in Calls : IsSwitch(c) =>
        /\ Says(cfg, call[c].name, Switched(c))
        /\ ~damaged => file \notin {Absent, Torn} /\ Says(file, call[c].name, Switched(c))

SavingKept == \A c \in Calls : call[c].pc = "save" => damaged /\ Says(cfg, call[c].name, Switched(c))

SwitchInv == AckedKept /\ PendingKept /\ SavingKept

LEMMA SwitchInit == Init => SwitchInv
  BY DEF Init, SwitchInv, AckedKept, PendingKept, SavingKept, IsSwitch, Idle

LEMMA SwitchDies == ASSUME TInv, SwitchInv, Dies PROVE SwitchInv'
<1>1. \A c \in Calls : call'[c].pc = "idle"
  BY DEF Dies, Idle
<1>2. PendingKept' /\ SavingKept'
  BY <1>1 DEF PendingKept, SavingKept, IsSwitch
<1>3. acked' = acked /\ damaged' = damaged /\ mode' = "down"
  BY DEF Dies, ghosts
<1>4. (\E n \in Names : acked[n] # None) /\ ~damaged => file' = file
  BY DEF Dies, SwitchInv, AckedKept
<1>5. AckedKept'
  BY <1>3, <1>4 DEF AckedKept, SwitchInv
<1> QED
  BY <1>2, <1>5 DEF SwitchInv

LEMMA SwitchBoot == ASSUME TInv, SwitchInv, Boot PROVE SwitchInv'
<1>1. \A c \in Calls : call'[c].pc = "idle"
  BY DEF Boot, TInv, Quiet
<1>2. PendingKept' /\ SavingKept'
  BY <1>1 DEF PendingKept, SavingKept, IsSwitch
<1>3. file' = file /\ cfg' = Config /\ acked' = IF damaged THEN [n \in Names |-> None] ELSE acked
  BY DEF Boot, disk
<1>4. ASSUME damaged PROVE AckedKept'
  <2>1. \A n \in Names : acked'[n] = None
    BY <1>3, <1>4
  <2> QED
    BY <2>1 DEF AckedKept, Says
<1>5. ASSUME ~damaged PROVE AckedKept'
  <2>1. \A n \in Names : acked[n] # None => file \notin {Absent, Torn} /\ Says(file, n, acked[n])
    BY <1>5 DEF AckedKept, SwitchInv
  <2>2. acked' = acked
    BY <1>3, <1>5
  <2>3. \A n \in Names : acked'[n] # None => cfg' = file
    BY <1>3, <2>1, <2>2 DEF Config
  <2> QED
    BY <1>3, <2>1, <2>2, <2>3 DEF AckedKept, Says
<1> QED
  BY <1>2, <1>4, <1>5 DEF SwitchInv

(* A step that leaves file, config and acknowledgements alone and takes no *)
(* switch past its save.                                                   *)
LEMMA SwitchIdle ==
  ASSUME TInv, SwitchInv, NEW c \in Calls, UNCHANGED <<file, mode, cfg, acked, damaged>>,
         \A d \in Calls \ {c} : Stays(d),
         call'[c].pc # "save", call'[c].op = "Create" \/ call'[c].pc \notin {"launch", "halt"}
  PROVE  SwitchInv'
<1>1. AckedKept'
  BY DEF AckedKept, SwitchInv
<1>2. SavingKept'
  BY DEF SavingKept, SwitchInv, Stays, Switched
<1>3. PendingKept'
  BY DEF PendingKept, SwitchInv, IsSwitch, Stays, Switched
<1> QED
  BY <1>1, <1>2, <1>3 DEF SwitchInv

LEMMA SwitchOpened == ASSUME TInv, SwitchInv, NEW c \in Calls, SwitchOpens(c) PROVE SwitchInv'
<1> USE DEF TInv
<1> DEFINE n == call[c].name
<1>1. /\ lock = None /\ n \in DOMAIN cfg /\ n \in Names /\ SetEnabled(n, Switched(c)) /\ mode' = mode
      /\ acked' = [acked EXCEPT ![n] = None]
  BY DEF SwitchOpens, SwitchesTo, TypeOK, IsMap
<1>2. /\ DOMAIN cfg' = DOMAIN cfg /\ cfg'[n].enabled = Switched(c)
      /\ \A m \in DOMAIN cfg \ {n} : cfg'[m] = cfg[m]
  BY <1>1, SetEnabledFacts DEF TypeOK, Switched
<1>3. acked'[n] = None /\ \A m \in Names \ {n} : acked'[m] = acked[m]
  BY <1>1 DEF TypeOK
<1>4. \A d \in Calls : call[d].pc # "save"
  BY <1>1, StoreAssumption DEF TypeOK
<1>5. damaged' = TRUE \/ (file' = file /\ damaged' = damaged)
  BY DEF SwitchOpens, SwitchesTo
<1>6. AckedKept'
  <2>1. mode' = "up" => \A m \in Names : acked'[m] # None => Says(cfg', m, acked'[m])
    BY <1>1, <1>2, <1>3 DEF AckedKept, SwitchInv, Says
  <2>2. ~damaged' => \A m \in Names : acked'[m] # None => file' \notin {Absent, Torn} /\ Says(file', m, acked'[m])
    BY <1>3, <1>5 DEF AckedKept, SwitchInv
  <2> QED
    BY <2>1, <2>2 DEF AckedKept, Says
<1>7. call'[c].pc \in {"idle", "save"} /\ (call'[c].pc = "save" => call'[c].name = n /\ call'[c].op = call[c].op /\ damaged')
  <2>1. call'[c] = Idle \/ (call'[c].pc = "save" /\ call'[c].name = n /\ call'[c].op = call[c].op /\ damaged')
    BY SwitchFacts
  <2> QED
    BY <2>1 DEF Idle
<1>8. ASSUME NEW d \in Calls \ {c} PROVE Stays(d) /\ (IsSwitch(d)' => IsSwitch(d) /\ call[d].name # n)
  <2>1. Stays(d)
    BY SwitchFacts
  <2>2. CASE d \in Overtaken(n)
    <3>1. call'[d].crossed
      BY <2>2, SwitchFacts
    <3> QED
      BY <2>1, <3>1 DEF IsSwitch
  <2>3. CASE d \notin Overtaken(n)
    <3>1. call'[d] = call[d]
      BY <2>3, SwitchFacts
    <3> QED
      BY <2>1, <2>3, <3>1 DEF IsSwitch, Overtaken
  <2> QED
    BY <2>1, <2>2, <2>3
<1>9. SavingKept'
  BY <1>2, <1>4, <1>7, <1>8, <1>1 DEF SavingKept, Stays, Says, Switched
<1>10. PendingKept'
  <2>1. ASSUME NEW d \in Calls, IsSwitch(d)'
        PROVE  d # c /\ IsSwitch(d) /\ call[d].name # n /\ Stays(d)
    BY <1>7, <1>8, <2>1 DEF IsSwitch
  <2>2. ASSUME NEW d \in Calls, IsSwitch(d)'
        PROVE  Says(cfg', call'[d].name, call'[d].op = "Enable")
    BY <1>2, <2>1, <2>2 DEF PendingKept, SwitchInv, Says, Stays, Switched
  <2>3. ASSUME NEW d \in Calls, IsSwitch(d)', ~damaged'
        PROVE  file' \notin {Absent, Torn} /\ Says(file', call'[d].name, call'[d].op = "Enable")
    BY <1>5, <2>1, <2>3 DEF PendingKept, SwitchInv, Says, Stays, Switched
  <2> QED
    BY <2>2, <2>3 DEF PendingKept, Says, Switched
<1> QED
  BY <1>6, <1>9, <1>10 DEF SwitchInv

LEMMA SwitchSaved == ASSUME TInv, SwitchInv, NEW c \in Calls, Save(c) PROVE SwitchInv'
<1> USE DEF TInv
<1>1. call[c].pc = "save" /\ lock = c /\ file' = cfg /\ UNCHANGED <<mode, cfg, acked>>
  BY DEF Save, TypeOK, memory
<1>2. mode = "up"
  BY <1>1, BusyIsUp
<1>3. cfg \notin {Absent, Torn}
  BY StoreAssumption DEF TypeOK, IsMap
<1>4. /\ \A d \in Calls \ {c} : call'[d] = call[d] /\ call[d].pc # "save"
      /\ call'[c].pc \in {"launch", "halt"} /\ call'[c].name = call[c].name /\ call'[c].op = call[c].op
  BY <1>1, SaveFacts DEF TypeOK
<1>5. \A n \in Names : acked[n] # None => Says(cfg, n, acked[n])
  BY <1>2 DEF AckedKept, SwitchInv
<1>6. AckedKept'
  BY <1>1, <1>3, <1>5 DEF AckedKept, Says
<1>7. SavingKept'
  BY <1>4 DEF SavingKept, Says, Switched
<1>8. ASSUME NEW d \in Calls, IsSwitch(d)' PROVE Says(cfg, call'[d].name, call'[d].op = "Enable")
  <2>1. CASE d = c
    BY <1>1, <1>4, <2>1 DEF SavingKept, SwitchInv, Switched
  <2>2. CASE d # c
    BY <1>4, <1>8, <2>2 DEF PendingKept, SwitchInv, Switched, IsSwitch
  <2> QED
    BY <2>1, <2>2
<1>9. PendingKept'
  BY <1>1, <1>3, <1>8 DEF PendingKept, Switched, Says
<1> QED
  BY <1>6, <1>7, <1>9 DEF SwitchInv

LEMMA SwitchCutShort == ASSUME TInv, SwitchInv, NEW c \in Calls, SaveFails(c) PROVE SwitchInv'
<1> USE DEF TInv
<1>1. call[c].pc = "save" /\ lock = c /\ UNCHANGED <<mode, cfg, acked, damaged>>
  BY DEF SaveFails, TypeOK, memory, ghosts
<1>2. damaged
  BY <1>1 DEF SavingKept, SwitchInv
<1>3. call'[c].pc = "idle" /\ \A d \in Calls \ {c} : call'[d] = call[d]
  BY BecomesFacts DEF SaveFails, Returns, Idle
<1>4. AckedKept'
  BY <1>1, <1>2 DEF AckedKept, SwitchInv, Says
<1>5. SavingKept'
  BY <1>1, <1>3 DEF SavingKept, SwitchInv, Says, Switched
<1>6. PendingKept'
  BY <1>1, <1>2, <1>3 DEF PendingKept, SwitchInv, Says, Switched, IsSwitch
<1> QED
  BY <1>4, <1>5, <1>6 DEF SwitchInv

LEMMA SwitchAnswered == ASSUME TInv, SwitchInv, NEW c \in Calls, Answers(c) PROVE SwitchInv'
<1> USE DEF TInv
<1>1. /\ call[c].pc \in {"launch", "halt"} /\ Acknowledges(c) /\ Becomes(c, Idle)
      /\ UNCHANGED <<file, mode, cfg, damaged>>
  BY DEF Answers, Launch, Halt, Returns, disk, memory
<1>2. call'[c].pc = "idle" /\ \A d \in Calls \ {c} : call'[d] = call[d]
  BY <1>1, BecomesFacts DEF Idle
<1>3. PendingKept' /\ SavingKept'
  BY <1>1, <1>2 DEF PendingKept, SavingKept, SwitchInv, IsSwitch, Switched, Says
<1>4. ASSUME acked' = acked PROVE AckedKept'
  BY <1>1, <1>4 DEF AckedKept, SwitchInv, Says
<1>5. ASSUME IsSwitch(c), acked' = [acked EXCEPT ![call[c].name] = Switched(c)] PROVE AckedKept'
  <2>1. call[c].name \in Names
    BY <1>5, RecordAt DEF IsSwitch, AtLabel, Sensible
  <2>2. acked'[call[c].name] = Switched(c) /\ \A n \in Names \ {call[c].name} : acked'[n] = acked[n]
    BY <1>5, <2>1 DEF TypeOK
  <2>3. /\ Says(cfg, call[c].name, Switched(c))
        /\ ~damaged => file \notin {Absent, Torn} /\ Says(file, call[c].name, Switched(c))
    BY <1>5 DEF PendingKept, SwitchInv
  <2>4. \A n \in Names : acked'[n] # None => (mode = "up" => Says(cfg, n, acked'[n]))
    BY <2>2, <2>3 DEF AckedKept, SwitchInv
  <2>5. ~damaged => \A n \in Names : acked'[n] # None => file \notin {Absent, Torn} /\ Says(file, n, acked'[n])
    BY <2>2, <2>3 DEF AckedKept, SwitchInv
  <2> QED
    BY <1>1, <2>4, <2>5 DEF AckedKept, Says
<1>6. AckedKept'
  BY <1>1, <1>4, <1>5 DEF Acknowledges, IsSwitch
<1> QED
  BY <1>3, <1>6 DEF SwitchInv

LEMMA SwitchNext == TInv /\ SwitchInv /\ [Next]_vars => SwitchInv'
<1> SUFFICES ASSUME TInv, SwitchInv, [Next]_vars PROVE SwitchInv'
  OBVIOUS
<1>1. CASE UNCHANGED vars
  BY <1>1 DEF vars, disk, memory, ghosts, SwitchInv, AckedKept, PendingKept, SavingKept, IsSwitch, Says, Switched
<1>2. CASE Dies
  BY <1>2, SwitchDies
<1>3. CASE Boot
  BY <1>3, SwitchBoot
<1>4. CASE BootFails
  <2>1. mode' = "fatal" /\ UNCHANGED <<file, cfg, call, acked, damaged>>
    BY <1>4 DEF BootFails, disk, ghosts
  <2> QED
    BY <2>1 DEF SwitchInv, AckedKept, PendingKept, SavingKept, IsSwitch, Says, Switched
<1>5. ASSUME NEW c \in Calls, Step(c) PROVE SwitchInv'
  <2>1. CASE SwitchOpens(c)
    BY <2>1, SwitchOpened
  <2>2. CASE Save(c)
    BY <2>2, SwitchSaved
  <2>3. CASE SaveFails(c)
    BY <2>3, SwitchCutShort
  <2>4. CASE Answers(c)
    BY <2>4, SwitchAnswered
  <2>5. CASE Step(c) /\ ~SwitchOpens(c) /\ ~Save(c) /\ ~SaveFails(c) /\ ~Answers(c)
    <3>1. UNCHANGED <<file, mode, cfg, acked, damaged>>
      BY <2>5 DEF Step, KeySteps, Refusals, Call, SaveKeyOpens, SaveKeyWrites, DeleteKey, AddTunnelRefused,
                  SwitchRefused, LaunchFails, PersistFails, AddTunnel, PersistOpens, PersistWrites,
                  RemoveTunnel, disk, memory, ghosts
    <3>2. call'[c].pc # "save" /\ call'[c].pc # "halt"
      BY <2>5, NewLabel
    <3>3. call'[c].pc = "launch" => call'[c].op = "Create"
      <4>1. SUFFICES ASSUME call'[c].pc = "launch" PROVE call'[c].op = "Create"
        OBVIOUS
      <4>2. call[c].pc \in {"add", "persist"} /\ Plans(c)
        BY <2>5, <4>1, NewLabel DEF AddTunnel, PersistWrites
      <4>3. call'[c] = [call[c] EXCEPT !.pc = "launch"]
        BY <4>1, <4>2, PlansFacts
      <4> QED
        BY <4>2, <4>3, RecordAt, MovedRecord DEF TInv, AtLabel, Labels
    <3> QED
      BY <1>5, <3>1, <3>2, <3>3, OthersStay, SwitchIdle
  <2> QED
    BY <1>5, <2>1, <2>2, <2>3, <2>4, <2>5
<1> QED
  BY <1>1, <1>2, <1>3, <1>4, <1>5, Steps

(* An acknowledged switch decides about the next start, whatever calls,    *)
(* failed writes and crashes come in between (config.go:114).              *)
THEOREM SwitchesSurvive == Spec => SwitchSurvives
<1>1. Spec => [](TInv /\ SwitchInv)
  BY TypesAlways, SwitchInit, SwitchNext, PTL DEF Spec
<1>2. ASSUME TInv, SwitchInv, Boot, ~damaged, NEW n \in Names, acked[n] # None
      PROVE  acked[n] <=> n \in DOMAIN reg'
  <2>1. file \notin {Absent, Torn} /\ n \in DOMAIN file /\ file[n].enabled = acked[n]
    BY <1>2 DEF SwitchInv, AckedKept, Says
  <2>2. DOMAIN reg' = {m \in DOMAIN file : file[m].enabled}
    BY <1>2, <2>1 DEF Boot, ToSpecs, Config
  <2>3. n \in DOMAIN reg' <=> file[n].enabled
    BY <2>1, <2>2
  <2> QED
    BY <2>1, <2>3, Zenon
<1>3. TInv /\ SwitchInv /\ [Next]_vars =>
        [Boot /\ ~damaged => \A n \in Names : acked[n] # None => (acked[n] <=> n \in DOMAIN reg')]_vars
  BY <1>2
<1> QED
  BY <1>1, <1>3, PTL DEF Spec, SwitchSurvives
=============================================================================
