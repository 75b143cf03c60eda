-------------------------------- MODULE Store --------------------------------
(***************************************************************************)
(* What the daemon keeps on disk and how it comes back from there: the     *)
(* config file with its enabled flags (internal/config/config.go), the     *)
(* files of persistent tunnels in tunnels.d, and the key directory, with   *)
(* calls in progress side by side, writes that fail, and crashes between   *)
(* any two steps (cmd/tunneld/cmd/run.go).                                 *)
(*                                                                         *)
(* os.WriteFile truncates, then writes; nothing is renamed into place.     *)
(* Files of tunnels.d are written and never read.                          *)
(***************************************************************************)
EXTENDS Planner

CONSTANTS
    Names,        \* names of tunnels
    Ports,        \* local ports
    Keys,         \* names in the key directory
    Contents,     \* contents of keys
    Calls,        \* the calls in progress at a time
    Requests,     \* what clients may ask
    ConfigFiles,  \* the config files the operator may have written
    Absent,       \* no such file
    Torn,         \* a file truncated and not yet, or never, written
    None          \* nothing

(* ssh: a key that is not there is noticed; filled: health and restart are *)
(* not nil.                                                                *)
Specs == [deps : SUBSET Names, ports : SUBSET Ports, ref : Keys \cup {None}, ssh : BOOLEAN, filled : BOOLEAN]
Entries == [enabled : BOOLEAN, spec : Specs]
Ops == {"Create", "Enable", "Disable", "Delete", "AddKey", "DeleteKey"}

Messages == [op : Ops, name : Names \cup {None}, spec : Specs \cup {None}, persistent : BOOLEAN,
             ref : Keys \cup {None}, content : Contents \cup {None}]

(* A map from names of tunnels.                                            *)
IsMap(f, V) == DOMAIN f \subseteq Names /\ f \in [DOMAIN f -> V]

(* What a request of each kind carries; the content is that of a key.      *)
Sensible(m) ==
    /\ m.op = "Create" => m.name \in Names /\ m.spec \in Specs /\ (m.content # None => m.ref \in Keys)
    /\ m.op \in {"Enable", "Disable", "Delete"} => m.name \in Names
    /\ m.op = "AddKey" => m.ref \in Keys /\ m.content \in Contents
    /\ m.op = "DeleteKey" => m.ref \in Keys

ASSUME StoreAssumption ==
    /\ \A f \in ConfigFiles : IsMap(f, Entries) /\ IsFiniteSet(DOMAIN f)
    /\ Requests \subseteq {m \in Messages : Sensible(m)}
    /\ None \notin Names \cup Keys \cup Contents \cup Specs \cup Calls
    /\ {Absent, Torn} \cap (Contents \cup Specs) = {}
    /\ \A N \in SUBSET Names : {Absent, Torn} \cap [N -> Entries] = {}

VARIABLES
    file,       \* the config file: its tunnels, Absent, or Torn
    dir,        \* dir[n]: the spec in tunnels.d/<n>.yaml, Absent, or Torn
    keys,       \* keys[k]: the content of the key, Absent, or Torn
    mode,       \* the daemon is "down", "up", or has refused to start: "fatal"
    cfg,        \* s.config: the tunnels of the config file, in memory
    reg,        \* the registered tunnels, as Registry promises them
    lock,       \* the call that holds s.mu across a write, or None
    call,       \* call[c]: the request of call c and where its handler is
    kept,       \* the registered tunnels created as persistent
    acked,      \* acked[n]: the switch of n acknowledged last, or None
    damaged,    \* the last write of the config file did not get through
    adopted     \* since the daemon came up a tunnel was created under the name of a disabled one

disk == <<file, dir, keys>>
memory == <<mode, cfg, reg, kept>>
ghosts == <<acked, damaged, adopted>>
vars == <<disk, memory, lock, call, ghosts>>

Idle == [op |-> "none", name |-> None, spec |-> None, persistent |-> FALSE, ref |-> None, content |-> None,
         pc |-> "idle", crossed |-> FALSE]

Labels == {"idle", "key", "keyWrite", "add", "persist", "switch", "save", "launch", "halt", "remove", "deleteKey"}

TypeOK ==
    /\ file \in {Absent, Torn} \/ IsMap(file, Entries)
    /\ dir \in [Names -> Specs \cup {Absent, Torn}]
    /\ keys \in [Keys -> Contents \cup {Absent, Torn}]
    /\ mode \in {"down", "up", "fatal"}
    /\ IsMap(cfg, Entries) /\ IsMap(reg, Specs)
    /\ lock \in Calls \cup {None}
    /\ kept \subseteq DOMAIN reg
    /\ acked \in [Names -> BOOLEAN \cup {None}]
    /\ damaged \in BOOLEAN /\ adopted \in BOOLEAN
    /\ \A c \in Calls : call[c].pc \in Labels /\ call[c].crossed \in BOOLEAN
    /\ \A c \in Calls : lock = c <=> call[c].pc \in {"persist", "save"}

Empty == [n \in {} |-> None]
Promise == INSTANCE Registry

Init ==
    /\ file \in ConfigFiles \cup {Absent}
    /\ dir = [n \in Names |-> Absent] /\ keys = [k \in Keys |-> Absent]
    /\ mode = "down" /\ cfg = Empty /\ reg = Empty /\ kept = {}
    /\ lock = None /\ call = [c \in Calls |-> Idle]
    /\ acked = [n \in Names |-> None] /\ damaged = FALSE /\ adopted = TRUE

-----------------------------------------------------------------------------
(* Starting the daemon.                                                    *)

(* ToSpecs: the enabled tunnels.                                           *)
ToSpecs(f) == [n \in {m \in DOMAIN f : f[m].enabled} |-> f[n].spec]

Validate(f) ==
    \A m, n \in DOMAIN ToSpecs(f) : m # n => f[m].spec.ports \cap f[n].spec.ports = {}

(* Mutant: a config file that is not there is an error.                    *)
LoadsExisting(f) == f \notin {Absent, Torn}

(* Load: a file that is not there means no tunnels, one that does not      *)
(* parse is an error.                                                      *)
Loads(f) == f # Torn

Config == IF file = Absent THEN Empty ELSE file

(* run, up to the plan of Supervisor.Run.                                  *)
Starts == Loads(file) /\ Validate(Config) /\ PlanSucceeds(ToSpecs(Config))

(* The ghosts: a file that was damaged keeps no promise.                   *)
Boot ==
    /\ mode = "down" /\ Starts
    /\ mode' = "up"
    /\ cfg' = Config
    /\ reg' = ToSpecs(Config)
    /\ acked' = IF damaged THEN [n \in Names |-> None] ELSE acked
    /\ damaged' = FALSE /\ adopted' = FALSE
    /\ UNCHANGED <<disk, kept, lock, call>>

BootFails ==
    /\ mode = "down" /\ ~Starts
    /\ mode' = "fatal"
    /\ UNCHANGED <<disk, cfg, reg, kept, lock, call, ghosts>>

(* What a write of the config file that did not get through leaves: some   *)
(* of the tunnels, in a file that parses, or one that does not.            *)
Fragments(f) == {[n \in N |-> f[n]] : N \in SUBSET DOMAIN f} \cup {Torn}

(* The daemon ends, at any point.  Persistent tunnels are not in the       *)
(* config file, and gone.                                                  *)
Dies ==
    /\ mode' = "down" /\ cfg' = Empty /\ reg' = Empty /\ kept' = {}
    /\ lock' = None /\ call' = [c \in Calls |-> Idle]
    /\ IF file = Torn THEN file' \in Fragments(cfg) ELSE UNCHANGED file
    /\ UNCHANGED <<dir, keys, ghosts>>

Crash == mode = "up" /\ Dies

-----------------------------------------------------------------------------
(* Calls.                                                                  *)

Becomes(c, record) == call' = [call EXCEPT ![c] = record]
Goes(c, label) == Becomes(c, [call[c] EXCEPT !.pc = label])
Returns(c) == Becomes(c, Idle)

(* As Becomes, and the calls of D learn that they were overtaken.          *)
Overtakes(c, D, record) ==
    call' = [d \in Calls |-> IF d = c THEN record
                             ELSE IF d \in D THEN [call[d] EXCEPT !.crossed = TRUE] ELSE call[d]]

(* Create saves its inline key before anything else.                       *)
Entry(r) ==
    CASE r.op = "Create" -> IF r.content # None THEN "key" ELSE "add"
      [] r.op = "AddKey" -> "key"
      [] r.op = "DeleteKey" -> "deleteKey"
      [] r.op = "Delete" -> "remove"
      [] OTHER -> "switch"

Call(c, r) ==
    /\ mode = "up" /\ call[c].pc = "idle"
    /\ Becomes(c, [op |-> r.op, name |-> r.name, spec |-> r.spec, persistent |-> r.persistent,
                   ref |-> r.ref, content |-> r.content, pc |-> Entry(r), crossed |-> FALSE])
    /\ UNCHANGED <<disk, memory, lock, ghosts>>

-----------------------------------------------------------------------------
(* Keys.  Neither SaveKey nor DeleteKey takes a lock.                      *)

(* The calls that have opened the key k, and the tunnel they create is not *)
(* launched yet.                                                           *)
KeyUsers(k) == {d \in Calls : call[d].ref = k /\ call[d].pc \in {"keyWrite", "add", "persist", "launch"}}

SaveKeyOpens(c) ==
    /\ call[c].pc = "key"
    /\ \/ Returns(c) /\ UNCHANGED keys
       \/ /\ keys' = [keys EXCEPT ![call[c].ref] = Torn]
          /\ Overtakes(c, KeyUsers(call[c].ref), [call[c] EXCEPT !.pc = "keyWrite"])
    /\ UNCHANGED <<file, dir, memory, lock, ghosts>>

AfterKey(c) == IF call[c].op = "Create" THEN [call[c] EXCEPT !.pc = "add"] ELSE Idle

(* Mutant: the error of the write is dropped.                              *)
SaveKeyWritesLoose(c) ==
    /\ call[c].pc = "keyWrite"
    /\ keys' \in {[keys EXCEPT ![call[c].ref] = call[c].content], keys}
    /\ Overtakes(c, KeyUsers(call[c].ref), AfterKey(c))
    /\ UNCHANGED <<file, dir, memory, lock, ghosts>>

(* Two writers that have both truncated the file write over each other,    *)
(* and one whose file was deleted writes into nothing.                     *)
SaveKeyWrites(c) ==
    /\ call[c].pc = "keyWrite"
    /\ \/ /\ keys' \in {[keys EXCEPT ![call[c].ref] = call[c].content]}
                       \cup (IF call[c].crossed THEN {keys, [keys EXCEPT ![call[c].ref] = Torn]} ELSE {})
          /\ Overtakes(c, KeyUsers(call[c].ref), AfterKey(c))
       \/ Returns(c) /\ UNCHANGED keys
    /\ UNCHANGED <<file, dir, memory, lock, ghosts>>

DeleteKey(c) ==
    /\ call[c].pc = "deleteKey"
    /\ \/ keys[call[c].ref] = Absent /\ Returns(c) /\ UNCHANGED keys
       \/ /\ keys[call[c].ref] # Absent
          /\ keys' = [keys EXCEPT ![call[c].ref] = Absent]
          /\ Overtakes(c, KeyUsers(call[c].ref), Idle)
    /\ UNCHANGED <<file, dir, memory, lock, ghosts>>

-----------------------------------------------------------------------------
(* AddTunnel and RemoveTunnel.                                             *)

Free(n, sp) == n \notin DOMAIN reg /\ ~Promise!Conflicts(reg, sp)

(* Plan, and the tunnel is registered or refused.                          *)
Plans(c) ==
    LET n == call[c].name
        sp == call[c].spec
    IN  \/ /\ Promise!Acceptable(reg, n, sp)
           /\ reg' = AddSpec(reg, n, sp)
           /\ kept' = IF call[c].persistent THEN kept \cup {n} ELSE kept
           /\ adopted' = (adopted \/ (n \in DOMAIN cfg /\ ~cfg[n].enabled))
           /\ Goes(c, "launch")
        \/ ~Promise!Acceptable(reg, n, sp) /\ Returns(c) /\ UNCHANGED <<reg, kept, adopted>>

AddTunnelRefused(c) ==
    /\ call[c].pc = "add" /\ lock = None
    /\ ~Free(call[c].name, call[c].spec)
    /\ Returns(c)
    /\ UNCHANGED <<disk, memory, lock, ghosts>>

AddTunnel(c) ==
    /\ call[c].pc = "add" /\ lock = None
    /\ Free(call[c].name, call[c].spec) /\ ~call[c].persistent
    /\ Plans(c)
    /\ UNCHANGED <<disk, mode, cfg, lock, acked, damaged>>

(* Mutant: the file is opened before the name is looked up.                *)
PersistOpensFirst(c) ==
    /\ call[c].pc = "add" /\ lock = None /\ call[c].persistent /\ call[c].spec.filled
    /\ dir' = [dir EXCEPT ![call[c].name] = Torn]
    /\ IF Free(call[c].name, call[c].spec) THEN lock' = c /\ Goes(c, "persist") ELSE Returns(c) /\ UNCHANGED lock
    /\ UNCHANGED <<file, keys, memory, ghosts>>

(* The file of a persistent tunnel, written with s.mu held.                *)
PersistOpens(c) ==
    /\ call[c].pc = "add" /\ lock = None
    /\ Free(call[c].name, call[c].spec) /\ call[c].persistent /\ call[c].spec.filled
    /\ \/ Returns(c) /\ UNCHANGED <<dir, lock>>
       \/ /\ dir' = [dir EXCEPT ![call[c].name] = Torn]
          /\ lock' = c
          /\ Goes(c, "persist")
    /\ UNCHANGED <<file, keys, memory, ghosts>>

(* FromProto reads the fields of a health or restart that are nil: the     *)
(* handler panics, and with it the daemon.                                 *)
PersistPanics(c) ==
    /\ call[c].pc = "add" /\ lock = None
    /\ Free(call[c].name, call[c].spec) /\ call[c].persistent /\ ~call[c].spec.filled
    /\ Dies

(* The file stays when the plan fails.                                     *)
PersistWrites(c) ==
    /\ call[c].pc = "persist"
    /\ dir' = [dir EXCEPT ![call[c].name] = call[c].spec]
    /\ Plans(c)
    /\ lock' = None
    /\ UNCHANGED <<file, keys, mode, cfg, acked, damaged>>

(* Mutant: an error path without its Unlock.                               *)
PersistFailsLocked(c) ==
    /\ call[c].pc = "persist"
    /\ Returns(c)
    /\ UNCHANGED <<disk, memory, lock, ghosts>>

PersistFails(c) ==
    /\ call[c].pc = "persist"
    /\ Returns(c)
    /\ lock' = None
    /\ UNCHANGED <<disk, memory, ghosts>>

(* The tunnel's file and its entry in the config stay.                     *)
RemoveTunnel(c) ==
    /\ call[c].pc = "remove" /\ lock = None
    /\ reg' = RemoveSpec(reg, call[c].name)
    /\ kept' = kept \ {call[c].name}
    /\ Returns(c)
    /\ UNCHANGED <<disk, mode, cfg, lock, ghosts>>

-----------------------------------------------------------------------------
(* EnableTunnel and DisableTunnel.                                         *)

Switched(c) == call[c].op = "Enable"

(* The other switches of n that are past their save.                       *)
Overtaken(n) == {d \in Calls : call[d].name = n /\ call[d].pc \in {"launch", "halt"}}

(* A tunnel that is not registered, one the config was disabled in when    *)
(* the daemon came up for instance, cannot be switched; nor can one that   *)
(* is not in the config file.                                              *)
SwitchRefused(c) ==
    /\ call[c].pc = "switch" /\ lock = None
    /\ call[c].name \notin DOMAIN reg \cap DOMAIN cfg
    /\ Returns(c)
    /\ UNCHANGED <<disk, memory, lock, ghosts>>

(* Mutant: the entry is changed in a copy that is dropped.                 *)
SetEnabledCopy(n, on) == cfg' = cfg /\ n \in DOMAIN cfg /\ on \in BOOLEAN

SetEnabled(n, on) == cfg' = [cfg EXCEPT ![n].enabled = on]

(* SetEnabled changes the memory, then Save opens the file; sp is what the *)
(* tunnel found in the registry will be started with.                      *)
SwitchesTo(c, sp) ==
    LET n == call[c].name
    IN  /\ SetEnabled(n, Switched(c))
        /\ acked' = [acked EXCEPT ![n] = None]
        /\ \/ Overtakes(c, Overtaken(n), Idle) /\ UNCHANGED <<file, lock, damaged>>
           \/ /\ file' = Torn /\ damaged' = TRUE
              /\ lock' = c
              /\ Overtakes(c, Overtaken(n), [call[c] EXCEPT !.pc = "save", !.spec = sp])
        /\ UNCHANGED <<dir, keys, mode, reg, kept, adopted>>

(* Mutant: a tunnel that is not registered is taken from the config.       *)
SwitchOpensUnregistered(c) ==
    /\ call[c].pc = "switch" /\ lock = None
    /\ call[c].name \in DOMAIN cfg
    /\ SwitchesTo(c, cfg[call[c].name].spec)

SwitchOpens(c) ==
    /\ call[c].pc = "switch" /\ lock = None
    /\ call[c].name \in DOMAIN reg \cap DOMAIN cfg
    /\ SwitchesTo(c, reg[call[c].name])

Save(c) ==
    /\ call[c].pc = "save"
    /\ file' = cfg /\ damaged' = FALSE
    /\ lock' = None
    /\ Goes(c, IF Switched(c) THEN "launch" ELSE "halt")
    /\ UNCHANGED <<dir, keys, memory, acked, adopted>>

SaveFails(c) ==
    /\ call[c].pc = "save"
    /\ file' \in Fragments(cfg)
    /\ lock' = None
    /\ Returns(c)
    /\ UNCHANGED <<dir, keys, memory, ghosts>>

Acknowledges(c) ==
    acked' = IF call[c].op \in {"Enable", "Disable"} /\ ~call[c].crossed
             THEN [acked EXCEPT ![call[c].name] = Switched(c)] ELSE acked

(* BuildCommand: ssh looks for its key, kubectl does not.                  *)
CommandBuilds(sp) == sp.ssh /\ sp.ref # None => keys[sp.ref] # Absent

(* startAndNotify; the child may fail to start for other reasons.          *)
Launch(c) ==
    /\ call[c].pc = "launch" /\ CommandBuilds(call[c].spec)
    /\ Acknowledges(c)
    /\ Returns(c)
    /\ UNCHANGED <<disk, memory, lock, damaged, adopted>>

LaunchFails(c) ==
    /\ call[c].pc = "launch"
    /\ Returns(c)
    /\ UNCHANGED <<disk, memory, lock, ghosts>>

Halt(c) ==
    /\ call[c].pc = "halt"
    /\ Acknowledges(c)
    /\ Returns(c)
    /\ UNCHANGED <<disk, memory, lock, damaged, adopted>>

-----------------------------------------------------------------------------
Next ==
    \/ Boot \/ BootFails \/ Crash
    \/ \E c \in Calls, r \in Requests : Call(c, r)
    \/ \E c \in Calls :
          \/ SaveKeyOpens(c) \/ SaveKeyWrites(c) \/ DeleteKey(c)
          \/ AddTunnelRefused(c) \/ AddTunnel(c) \/ PersistOpens(c) \/ PersistPanics(c)
          \/ PersistWrites(c) \/ PersistFails(c) \/ RemoveTunnel(c)
          \/ SwitchRefused(c) \/ SwitchOpens(c) \/ Save(c) \/ SaveFails(c)
          \/ Launch(c) \/ LaunchFails(c) \/ Halt(c)

Spec == Init /\ [][Next]_vars

-----------------------------------------------------------------------------
(* Properties.                                                             *)

(* A switch that was acknowledged decides whether the tunnel comes up with *)
(* the daemon the next time, whatever other calls, failed writes and       *)
(* crashes come in between, unless the last write of the config file was   *)
(* cut short (config.go:114).                                              *)
SwitchSurvives ==
    [][Boot /\ ~damaged =>
          \A n \in Names : acked[n] # None => (acked[n] <=> n \in DOMAIN reg')]_vars

(* Of all that clients may do in a row to a daemon that came up, only two  *)
(* things keep it from coming up again (run.go:51): Disable of a tunnel    *)
(* that an enabled one depends on, and Enable of a disabled tunnel whose   *)
(* name was given to another one, which puts back the old entry.  The      *)
(* enabled tunnels come to have no cycle and no port in common otherwise,  *)
(* though Enable looks at neither; a write cut short may do anything.      *)
StartsAgain ==
    mode = "fatal" => damaged \/ adopted \/ Dangling(ToSpecs(Config)) # {}

(* A tunnel that was created as persistent has its file, with its spec, as *)
(* long as it is registered (supervisor.go:151).                           *)
PersistentOnDisk == \A n \in kept : dir[n] = reg[n]

(* When the tunnel of a Create with an inline key is launched the key is   *)
(* there in full, unless another call wrote or deleted it since            *)
(* (grpc_server.go:218).                                                   *)
KeyReadyAtLaunch ==
    \A c \in Calls :
        call[c].op = "Create" /\ call[c].pc = "launch" /\ call[c].content # None /\ ~call[c].crossed =>
            keys[call[c].ref] = call[c].content
=============================================================================
