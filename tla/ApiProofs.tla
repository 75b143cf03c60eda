----------------------------- MODULE ApiProofs -----------------------------
(* Proofs about Api, for any tunnels, requests, files and number of calls. *)
EXTENDS Api, FiniteSetTheorems, SequenceTheorems, TLAPS

CallRecords ==
    [op : Ops \cup {"none", "load"}, name : Names \cup {None}, spec : Specs \cup {None},
     persistent : BOOLEAN, pc : Labels, object : 0 .. MaxObjects, answer : Answers,
     gone : BOOLEAN, late : BOOLEAN, unread : BOOLEAN, file : Loads \cup {<<>>},
     rest : Seq(Names), hasError : BOOLEAN, crossed : BOOLEAN]

(* The supervisor: no two names have one object, and what has a child was  *)
(* launched.                                                               *)
ObjectsOK ==
    /\ processes \in [Names -> 0 .. MaxObjects]
    /\ made \in 0 .. MaxObjects
    /\ spec \in [Objects -> Specs]
    /\ status \in [Objects -> {"stopped", "starting", "running", "failed"}]
    /\ launched \in SUBSET Objects
    /\ \A n \in Names : processes[n] <= made
    /\ \A m, n \in Names : processes[m] # 0 /\ processes[m] = processes[n] => m = n
    /\ \A i \in Objects : Live(i) => i \in launched

(* What the handler of call c has in hand at each label.                   *)
HandOK(c) ==
    /\ call[c].pc \in {"idle", "done"} => call[c].op = "none"
    /\ call[c].pc = "next" => call[c].op = "load"
    /\ call[c].pc \in {"list", "replace"} => call[c].op = "Update"
    /\ call[c].pc \in {"list", "replace", "add", "remove", "start", "stop", "lookup"} => call[c].name \in Names
    /\ call[c].pc = "add" => call[c].spec \in Specs
    /\ call[c].pc \in {"launch", "poll"} => call[c].object \in 1 .. made
    /\ call[c].op = "Update" =>
          /\ call[c].pc \in {"list", "replace", "add", "start", "launch"}
          /\ call[c].name \in Names /\ call[c].spec \in Specs
    /\ call[c].op = "load" =>
          /\ call[c].pc \in {"next", "add", "start", "launch"}
          /\ call[c].file \in Loads /\ call[c].rest \in Seq(DOMAIN call[c].file)
          /\ \/ call[c].name \in DOMAIN call[c].file
             \/ call[c].name = None /\ call[c].pc = "next" /\ call[c].answer = "none"

(* An Update nobody crossed finds the tunnel it is about to start as it    *)
(* was compared or added.                                                  *)
UpdateOK(c) ==
    call[c].op = "Update" /\ ~call[c].crossed /\ call[c].pc \in {"start", "launch"} =>
       /\ processes[call[c].name] # 0
       /\ spec[processes[call[c].name]] = call[c].spec

(* A load nobody crossed and that met no error: each tunnel of its file is *)
(* still to come, or runs, or is the one in hand.                          *)
Runs(n) == processes[n] # 0 /\ processes[n] \in launched
Awaits(c, n) == \E k \in 1 .. Len(call[c].rest) : call[c].rest[k] = n

LoadOK(c) ==
    call[c].op = "load" /\ ~call[c].crossed /\ ~call[c].hasError =>
       /\ \A n \in DOMAIN call[c].file : n # call[c].name => Awaits(c, n) \/ Runs(n)
       /\ call[c].name # None =>
             /\ call[c].pc \in {"start", "launch"} => processes[call[c].name] # 0
             /\ call[c].pc = "launch" => call[c].object = processes[call[c].name]
             /\ call[c].pc = "next" =>
                   \/ call[c].answer = "error"
                   \/ call[c].answer = "ok" /\ call[c].spec # None /\ processes[call[c].name] # 0
                   \/ call[c].answer = "ok" /\ call[c].spec = None /\ Runs(call[c].name)

CallOK(c) == HandOK(c) /\ UpdateOK(c) /\ LoadOK(c)

AInv == ObjectsOK /\ call \in [Calls -> CallRecords] /\ \A c \in Calls : CallOK(c)

-----------------------------------------------------------------------------
(* The records of calls, field by field.                                   *)
Keeps(r, k) ==
    /\ r.op = k.op /\ r.name = k.name /\ r.spec = k.spec
    /\ r.persistent = k.persistent
    /\ r.file = k.file /\ r.rest = k.rest /\ r.hasError = k.hasError

LEMMA UnmadeType ==
  /\ Unmade \in CallRecords /\ Unmade.op = "none" /\ Unmade.pc = "idle"
  /\ \A a \in Answers : LET r == [Unmade EXCEPT !.pc = "done", !.answer = a]
                        IN  r \in CallRecords /\ r.op = "none" /\ r.pc = "done" /\ r.answer = a
<1>1. <<>> \in Seq(Names)
  BY EmptySeq
<1>2. Unmade \in CallRecords
  BY <1>1, ApiAssumption DEF Unmade, CallRecords, Labels, Answers
<1> QED
  BY <1>2 DEF Unmade, CallRecords, Labels

LEMMA GoesTo ==
  ASSUME NEW k \in CallRecords, NEW l \in Labels
  PROVE  LET r == [k EXCEPT !.pc = l]
         IN  /\ r \in CallRecords /\ r.pc = l /\ Keeps(r, k)
             /\ r.object = k.object /\ r.answer = k.answer /\ r.crossed = k.crossed
  BY DEF CallRecords, Keeps

LEMMA Holds ==
  ASSUME NEW k \in CallRecords, NEW l \in Labels, NEW i \in 0 .. MaxObjects
  PROVE  LET r == [k EXCEPT !.pc = l, !.object = i]
         IN  /\ r \in CallRecords /\ r.pc = l /\ Keeps(r, k)
             /\ r.object = i /\ r.answer = k.answer /\ r.crossed = k.crossed
  BY DEF CallRecords, Keeps

LEMMA Answered ==
  ASSUME NEW k \in CallRecords, NEW a \in Answers
  PROVE  LET r == [k EXCEPT !.pc = "next", !.object = 0, !.answer = a]
         IN  r \in CallRecords /\ r.pc = "next" /\ Keeps(r, k) /\ r.answer = a /\ r.crossed = k.crossed
<1>1. 0 \in 0 .. MaxObjects /\ "next" \in Labels
  BY ApiAssumption DEF Labels
<1> QED
  BY <1>1 DEF CallRecords, Keeps

LEMMA Touched ==
  ASSUME NEW k \in CallRecords
  PROVE  LET r == [k EXCEPT !.crossed = TRUE]
         IN  /\ r \in CallRecords /\ r.pc = k.pc /\ Keeps(r, k)
             /\ r.object = k.object /\ r.answer = k.answer /\ r.crossed
  BY DEF CallRecords, Keeps

LEMMA Observed ==
  ASSUME NEW k \in CallRecords, NEW r,
         \/ r = [k EXCEPT !.gone = TRUE] \/ r = [k EXCEPT !.late = TRUE]
         \/ r = [k EXCEPT !.unread = TRUE] \/ r = [k EXCEPT !.unread = FALSE]
  PROVE  /\ r \in CallRecords /\ r.pc = k.pc /\ Keeps(r, k)
         /\ r.object = k.object /\ r.answer = k.answer /\ r.crossed = k.crossed
<1>1. CASE r = [k EXCEPT !.gone = TRUE]
  BY <1>1 DEF CallRecords, Keeps
<1>2. CASE r = [k EXCEPT !.late = TRUE]
  BY <1>2 DEF CallRecords, Keeps
<1>3. CASE r = [k EXCEPT !.unread = TRUE]
  BY <1>3 DEF CallRecords, Keeps
<1>4. CASE r = [k EXCEPT !.unread = FALSE]
  BY <1>4 DEF CallRecords, Keeps
<1> QED
  BY <1>1, <1>2, <1>3, <1>4

LEMMA Opened ==
  ASSUME NEW k \in CallRecords, NEW u \in BOOLEAN
  PROVE  LET r == [k EXCEPT !.pc = "read", !.unread = u]
         IN  r \in CallRecords /\ r.pc = "read" /\ Keeps(r, k)
<1>1. "read" \in Labels
  BY DEF Labels
<1> QED
  BY <1>1 DEF CallRecords, Keeps

-----------------------------------------------------------------------------
(* Steps: what other calls see of them.                                    *)

(* What call d relies on, unless it is told that it was crossed.           *)
Spared(d) ==
    \A n \in Names :
       Concerns(d, n) /\ ~call'[d].crossed /\ processes[n] # 0 =>
          /\ processes'[n] = processes[n] /\ spec'[processes[n]] = spec[processes[n]]
          /\ processes[n] \in launched => processes[n] \in launched'

LEMMA Bystander ==
  ASSUME AInv, ObjectsOK', made <= made', NEW d \in Calls, Spared(d),
         call'[d] = call[d] \/ call'[d] = [call[d] EXCEPT !.crossed = TRUE]
  PROVE  call'[d] \in CallRecords /\ CallOK(d)'
<1>0. call[d] \in CallRecords /\ HandOK(d) /\ UpdateOK(d) /\ LoadOK(d)
  BY DEF AInv, CallOK
<1>1. /\ call'[d] \in CallRecords /\ call'[d].pc = call[d].pc /\ Keeps(call'[d], call[d])
      /\ call'[d].object = call[d].object /\ call'[d].answer = call[d].answer
      /\ ~call'[d].crossed => ~call[d].crossed
  BY <1>0, Touched, ZenonT(60) DEF Keeps
<1>2. HandOK(d)'
  <2>1. call[d].object \in 1 .. made => call[d].object \in 1 .. made'
    BY DEF AInv, ObjectsOK
  <2> QED
    BY <1>0, <1>1, <2>1 DEF HandOK, Keeps
<1>3. UpdateOK(d)'
  BY <1>0, <1>1 DEF HandOK, UpdateOK, Keeps, Spared, Concerns
<1>4. LoadOK(d)'
  <2> SUFFICES ASSUME call[d].op = "load", ~call'[d].crossed, ~call[d].hasError PROVE LoadOK(d)'
    BY <1>1 DEF LoadOK, Keeps
  <2>1. /\ DOMAIN call[d].file \subseteq Names
        /\ call[d].name = None \/ call[d].name \in DOMAIN call[d].file
    BY <1>0, ApiAssumption DEF HandOK, SpecMap
  <2>2. \A n \in DOMAIN call[d].file : processes[n] # 0 =>
           /\ processes'[n] = processes[n]
           /\ processes[n] \in launched => processes[n] \in launched'
    BY <2>1 DEF Spared, Concerns
  <2>3. \A n \in DOMAIN call[d].file : Runs(n) => Runs(n)'
    BY <2>2 DEF Runs
  <2> QED
    BY <1>0, <1>1, <2>1, <2>2, <2>3 DEF LoadOK, Keeps, Awaits
<1> QED
  BY <1>1, <1>2, <1>3, <1>4 DEF CallOK

LEMMA Acts ==
  ASSUME AInv, NEW c \in Calls, NEW k \in CallRecords, Becomes(c, k) \/ \E n \in Names : Crosses(c, n, k),
         ObjectsOK', made <= made', \A d \in Calls \ {c} : Spared(d), CallOK(c)'
  PROVE  AInv'
<1>1. call'[c] = k /\ call' \in [Calls -> {call'[d] : d \in Calls}]
  BY DEF AInv, Becomes, Crosses
<1>2. \A d \in Calls \ {c} : call'[d] = call[d] \/ call'[d] = [call[d] EXCEPT !.crossed = TRUE]
  BY DEF AInv, Becomes, Crosses
<1>3. \A d \in Calls : call'[d] \in CallRecords /\ CallOK(d)'
  BY <1>1, <1>2, Bystander
<1> QED
  BY <1>1, <1>3 DEF AInv

(* A step of a handler that leaves the supervisor alone.                   *)
LEMMA ActsAlone ==
  ASSUME AInv, NEW c \in Calls, NEW k \in CallRecords, Becomes(c, k), UNCHANGED <<registry, objects>>,
         CallOK(c)'
  PROVE  AInv'
<1>1. ObjectsOK' /\ made <= made' /\ \A d \in Calls \ {c} : Spared(d)
  BY DEF AInv, ObjectsOK, registry, objects, Live, Spared
<1> QED
  BY <1>1, Acts

(* A call that is neither an Update nor a load.                            *)
LEMMA OtherCall ==
  ASSUME NEW c \in Calls, call'[c].op \notin {"Update", "load"}, HandOK(c)' PROVE CallOK(c)'
  BY DEF CallOK, UpdateOK, LoadOK

LEMMA AnswersCall ==
  ASSUME AInv, NEW c \in Calls, NEW a \in Answers, call[c].op # "load"
  PROVE  /\ Returned(c, a) \in CallRecords /\ Returned(c, a).op = "none"
         /\ Returned(c, a).pc = "done" /\ Returned(c, a).answer = a
  BY UnmadeType DEF Returned

LEMMA AnswersLoad ==
  ASSUME AInv, NEW c \in Calls, NEW a \in Answers, call[c].op = "load"
  PROVE  /\ Returned(c, a) \in CallRecords /\ Returned(c, a).pc = "next"
         /\ Keeps(Returned(c, a), call[c]) /\ Returned(c, a).answer = a
         /\ Returned(c, a).crossed = call[c].crossed
<1>1. call[c] \in CallRecords
  BY DEF AInv
<1> QED
  BY <1>1, Answered DEF Returned

(* A call that ends.                                                       *)
LEMMA Ended ==
  ASSUME NEW c \in Calls, call'[c].op = "none", call'[c].pc \in {"idle", "done"} PROVE CallOK(c)'
  BY DEF CallOK, HandOK, UpdateOK, LoadOK

-----------------------------------------------------------------------------
(* The steps, one by one.                                                  *)
LEMMA ReturnsAlone ==
  ASSUME AInv, NEW c \in Calls, NEW a \in Answers, call[c].op # "load", Returns(c, a),
         UNCHANGED <<registry, objects>>
  PROVE  AInv'
<1>1. call'[c] = Returned(c, a)
  BY DEF Returns, Becomes, AInv
<1>2. CallOK(c)'
  BY <1>1, AnswersCall, Ended
<1> QED
  BY <1>2, AnswersCall, ActsAlone DEF Returns

LEMMA EntryLabels == \A o \in Ops : Entry[o] \in Labels /\ Entry[o] \notin {"idle", "done", "next", "replace", "launch", "poll"}
                                    /\ (Entry[o] = "list" <=> o = "Update") /\ (Entry[o] = "add" <=> o = "Create")
<1> SUFFICES ASSUME NEW o \in Ops
             PROVE  /\ Entry[o] \in Labels \ {"idle", "done", "next", "replace", "launch", "poll"}
                    /\ (Entry[o] = "list" <=> o = "Update") /\ (Entry[o] = "add" <=> o = "Create")
  OBVIOUS
<1>1. /\ Entry["Create"] = "add" /\ Entry["Update"] = "list" /\ Entry["Delete"] = "remove"
      /\ Entry["Start"] = "start" /\ Entry["Stop"] = "stop" /\ Entry["Wait"] = "lookup"
      /\ Entry["Status"] = "status" /\ Entry["WatchStatus"] = "frame" /\ Entry["Logs"] = "open"
      /\ Entry["Follow"] = "open"
  BY DEF Entry
<1> QED
  BY <1>1 DEF Ops, Labels

LEMMA CallStep ==
  ASSUME AInv, NEW c \in Calls, NEW r \in Requests, Call(c, r) PROVE AInv'
<1>1. call[c].pc = "idle" /\ call[c].op = "none" /\ UNCHANGED <<registry, objects>>
  BY DEF Call, AInv, CallOK, HandOK
<1> DEFINE k == [Unmade EXCEPT !.op = r.op, !.name = r.name, !.spec = r.spec,
                               !.persistent = r.persistent, !.pc = Entry[r.op]]
<1>2. CASE Returns(c, "invalid") \/ Returns(c, "error")
  <2>1. "invalid" \in Answers /\ "error" \in Answers
    BY DEF Answers
  <2> QED
    BY <1>1, <1>2, <2>1, ReturnsAlone
<1>3. CASE (r.op \in {"Create", "Update"} => r.spec # None) /\ Becomes(c, k)
  <2>1. /\ r \in Messages /\ r.persistent \in BOOLEAN /\ r.op \in Ops /\ r.name \in Names \cup {None} /\ r.spec \in Specs \cup {None}
        /\ r.op \notin {"Status", "WatchStatus"} => r.name \in Names
    BY ApiAssumption DEF Messages
  <2>2. Entry[r.op] \in Labels
    BY <2>1, EntryLabels
  <2>3. Unmade \in CallRecords /\ Ops \subseteq Ops \cup {"none", "load"}
    BY UnmadeType
  <2>4. k \in CallRecords /\ k.op = r.op /\ k.name = r.name /\ k.spec = r.spec /\ k.pc = Entry[r.op]
    BY <2>1, <2>2, <2>3 DEF CallRecords
  <2>5. Becomes(c, k) /\ call'[c] = k
    BY <1>3 DEF Becomes, AInv
  <2> HIDE DEF k
  <2>6. CallOK(c)'
    <3>1. r.op # "load" /\ (r.op \in {"Create", "Update"} => r.spec \in Specs)
      BY <1>3, <2>1 DEF Ops
    <3>2. Entry[r.op] \in {"list", "add", "remove", "start", "stop", "lookup"} => r.name \in Names
      <4>1. Entry["Status"] = "status" /\ Entry["WatchStatus"] = "frame"
        BY DEF Entry
      <4> QED
        BY <2>1, <4>1
    <3>3. /\ Entry[r.op] \notin {"idle", "done", "next", "replace", "launch", "poll"}
          /\ Entry[r.op] = "list" <=> r.op = "Update"
          /\ Entry[r.op] = "add" <=> r.op = "Create"
      BY <2>1, EntryLabels
    <3>4. HandOK(c)'
      BY <2>1, <2>4, <2>5, <3>1, <3>2, <3>3 DEF HandOK
    <3> QED
      BY <2>4, <2>5, <3>1, <3>3, <3>4 DEF CallOK, UpdateOK, LoadOK
  <2> QED
    BY <1>1, <2>4, <2>5, <2>6, ActsAlone
<1> HIDE DEF k
<1>4. Returns(c, "invalid") \/ Returns(c, "error") \/ ((r.op \in {"Create", "Update"} => r.spec # None) /\ Becomes(c, k))
  BY Zenon DEF Call, k
<1> QED
  BY <1>2, <1>3, <1>4

(* A step that changes only what no invariant is about.                    *)
LEMMA ObservedStep ==
  ASSUME AInv, NEW c \in Calls, NEW k, UNCHANGED <<registry, objects>>, Becomes(c, k),
         \/ k = [call[c] EXCEPT !.gone = TRUE] \/ k = [call[c] EXCEPT !.late = TRUE]
         \/ k = [call[c] EXCEPT !.unread = FALSE]
  PROVE  AInv'
<1>1. call[c] \in CallRecords /\ CallOK(c) /\ call'[c] = k
  BY DEF AInv, Becomes
<1>2. /\ k \in CallRecords /\ k.pc = call[c].pc /\ Keeps(k, call[c])
      /\ k.object = call[c].object /\ k.answer = call[c].answer /\ k.crossed = call[c].crossed
  BY <1>1, Observed
<1>3. CallOK(c)'
  BY <1>1, <1>2 DEF CallOK, HandOK, UpdateOK, LoadOK, Keeps, registry, objects, Runs, Awaits
<1> QED
  BY <1>2, <1>3, ActsAlone

(* The labels of calls that are neither an Update nor a load.              *)
OtherLabels == {"lookup", "poll", "ports", "status", "frame", "tick", "open", "read", "stop", "remove"}

LEMMA OtherLabelsOps ==
  ASSUME AInv, NEW c \in Calls, call[c].pc \in OtherLabels PROVE call[c].op \notin {"Update", "load"}
  BY DEF AInv, CallOK, HandOK, OtherLabels

LEMMA WaitsAndWatches ==
  ASSUME AInv, NEW c \in Calls,
         \/ WaitLooksUp(c) \/ WaitDeadline(c) \/ WaitPolls(c) \/ WaitCancelled(c) \/ WaitAnswers(c)
         \/ StatusAnswers(c) \/ WatchSends(c) \/ WatchTicks(c) \/ WatchDone(c)
         \/ LogsOpens(c) \/ LogsReads(c) \/ LogsEnds(c) \/ Disconnect(c)
  PROVE  AInv'
<1>0. /\ call[c] \in CallRecords /\ UNCHANGED <<registry, objects>> /\ call[c].pc \in OtherLabels
      /\ {"ok", "error", "notFound"} \subseteq Answers
      /\ OtherLabels \subseteq Labels
  BY DEF AInv, OtherLabels, Labels, Answers, WaitLooksUp, WaitDeadline, WaitPolls, WaitCancelled, WaitAnswers,
     StatusAnswers, WatchSends, WatchTicks, WatchDone, LogsOpens, LogsReads, LogsEnds, Disconnect
<1>1. call[c].op \notin {"Update", "load"}
  BY <1>0, OtherLabelsOps
<1>2. ASSUME \E a \in {"ok", "error", "notFound"} : Returns(c, a) PROVE AInv'
  BY <1>0, <1>1, <1>2, ReturnsAlone
<1>3. ASSUME NEW l \in {"ports", "frame", "tick"}, Goes(c, l) PROVE AInv'
  <2> DEFINE k == [call[c] EXCEPT !.pc = l]
  <2>1. k \in CallRecords /\ k.pc = l /\ k.op = call[c].op
    BY <1>0, GoesTo DEF OtherLabels, Keeps
  <2>2. call'[c] = k /\ Becomes(c, k)
    BY <1>3 DEF Goes, Becomes, AInv
  <2> HIDE DEF k
  <2>3. CallOK(c)'
    <3>1. HandOK(c)'
      BY <1>1, <2>1, <2>2 DEF HandOK
    <3> QED
      BY <1>1, <2>1, <2>2, <3>1, OtherCall
  <2> QED
    BY <1>0, <2>1, <2>2, <2>3, ActsAlone
<1>4. CASE WaitLooksUp(c) /\ processes[call[c].name] # 0
  <2> DEFINE i == processes[call[c].name]
  <2>1. PICK l \in {"ports", "poll"} : Becomes(c, [call[c] EXCEPT !.object = i, !.pc = l])
    BY <1>4 DEF WaitLooksUp
  <2>2. call[c].name \in Names /\ i \in 1 .. made /\ i \in 0 .. MaxObjects
    BY <1>4 DEF WaitLooksUp, AInv, CallOK, HandOK, ObjectsOK
  <2> DEFINE k == [call[c] EXCEPT !.object = i, !.pc = l]
  <2>3. k \in CallRecords /\ k.pc = l /\ k.op = call[c].op /\ k.object = i /\ k.name = call[c].name
    BY <1>0, <2>2 DEF CallRecords, OtherLabels, Labels
  <2>4. call'[c] = k /\ Becomes(c, k)
    BY <2>1 DEF Becomes, AInv
  <2> HIDE DEF k, i
  <2>5. CallOK(c)'
    <3>1. HandOK(c)'
      BY <1>0, <1>1, <2>2, <2>3, <2>4 DEF HandOK, registry
    <3> QED
      BY <1>1, <2>3, <2>4, <3>1, OtherCall
  <2> QED
    BY <1>0, <2>3, <2>4, <2>5, ActsAlone
<1>5. CASE LogsOpens(c) /\ \E u \in BOOLEAN : Becomes(c, [call[c] EXCEPT !.pc = "read", !.unread = u])
  <2>1. PICK u \in BOOLEAN : Becomes(c, [call[c] EXCEPT !.pc = "read", !.unread = u])
    BY <1>5
  <2> DEFINE k == [call[c] EXCEPT !.pc = "read", !.unread = u]
  <2>2. k \in CallRecords /\ k.pc = "read" /\ k.op = call[c].op
    BY <1>0, Opened DEF Keeps
  <2>3. call'[c] = k /\ Becomes(c, k)
    BY <2>1 DEF Becomes, AInv
  <2> HIDE DEF k
  <2>4. HandOK(c)'
    BY <1>1, <2>2, <2>3 DEF HandOK
  <2> QED
    BY <1>0, <1>1, <2>2, <2>3, <2>4, OtherCall, ActsAlone
<1>6. CASE Disconnect(c) \/ WaitDeadline(c)
  BY <1>0, <1>6, ObservedStep DEF Disconnect, WaitDeadline
<1>7. CASE LogsReads(c)
  BY <1>0, <1>2, <1>7, ObservedStep DEF LogsReads
<1>8. CASE WaitLooksUp(c) \/ LogsOpens(c)
  BY <1>2, <1>4, <1>5, <1>8 DEF WaitLooksUp, LogsOpens
<1>9. CASE \/ WaitPolls(c) \/ WaitCancelled(c) \/ WaitAnswers(c)
           \/ StatusAnswers(c) \/ WatchSends(c) \/ WatchTicks(c) \/ WatchDone(c) \/ LogsEnds(c)
  BY <1>2, <1>3, <1>9 DEF WaitPolls, WaitCancelled, WaitAnswers, StatusAnswers, WatchSends, WatchTicks,
     WatchDone, LogsEnds
<1> QED
  BY <1>6, <1>7, <1>8, <1>9

LEMMA LogGrowsStep == ASSUME AInv, NEW n \in Names, LogGrows(n) PROVE AInv'
<1>1. /\ UNCHANGED <<registry, objects>> /\ call' \in [Calls -> {call'[c] : c \in Calls}]
      /\ \A c \in Calls : call'[c] = call[c] \/ call'[c] = [call[c] EXCEPT !.unread = TRUE]
  BY DEF LogGrows, AInv
<1>2. ASSUME NEW c \in Calls PROVE call'[c] \in CallRecords /\ CallOK(c)'
  <2>1. call[c] \in CallRecords /\ CallOK(c)
    BY DEF AInv
  <2>2. /\ call'[c] \in CallRecords /\ call'[c].pc = call[c].pc /\ Keeps(call'[c], call[c])
        /\ call'[c].object = call[c].object /\ call'[c].answer = call[c].answer
        /\ call'[c].crossed = call[c].crossed
    BY <1>1, <2>1, Observed DEF Keeps
  <2> QED
    BY <1>1, <2>1, <2>2 DEF CallOK, HandOK, UpdateOK, LoadOK, Keeps, registry, objects, Runs, Awaits
<1> QED
  BY <1>1, <1>2 DEF AInv, ObjectsOK, registry, objects, Live

LEMMA Unregistered ==
  ASSUME NEW c \in Calls, MayAdd(c), call[c].name \in Names PROVE processes[call[c].name] = 0
  BY DEF MayAdd, Promise!Acceptable, Tunnels, Registered

LEMMA AddTunnelStep == ASSUME AInv, NEW c \in Calls, AddTunnel(c) PROVE AInv'
<1> DEFINE n == call[c].name
           k == [call[c] EXCEPT !.pc = "launch", !.object = made + 1]
<1>0. /\ call[c] \in CallRecords /\ HandOK(c) /\ UpdateOK(c) /\ LoadOK(c)
      /\ call[c].pc = "add" /\ n \in Names /\ call[c].spec \in Specs
  BY DEF AInv, CallOK, HandOK, AddTunnel
<1>1. /\ processes \in [Names -> 0 .. MaxObjects] /\ made \in 0 .. MaxObjects /\ spec \in [Objects -> Specs]
      /\ MaxObjects \in Nat /\ made < MaxObjects /\ \A m \in Names : processes[m] <= made
  BY ApiAssumption DEF AInv, ObjectsOK, AddTunnel
<1>2. /\ processes[n] = 0 /\ made' = made + 1 /\ UNCHANGED <<status, launched>>
      /\ processes' = [processes EXCEPT ![n] = made + 1]
      /\ spec' = [spec EXCEPT ![made + 1] = call[c].spec]
      /\ Crosses(c, n, k)
  BY <1>0, Unregistered DEF AddTunnel, objects
<1>3. made + 1 \in Objects /\ made + 1 \in 0 .. MaxObjects /\ made' \in 0 .. MaxObjects /\ made <= made'
  BY <1>1, <1>2 DEF Objects
<1>4. \A m \in Names : processes'[m] = IF m = n THEN made + 1 ELSE processes[m]
  BY <1>0, <1>1, <1>2
<1>5. \A i \in Objects : spec'[i] = IF i = made + 1 THEN call[c].spec ELSE spec[i]
  BY <1>1, <1>2
<1>6. ObjectsOK'
  <2>1. /\ processes' \in [Names -> 0 .. MaxObjects] /\ spec' \in [Objects -> Specs]
        /\ \A m \in Names : processes'[m] <= made'
    BY <1>0, <1>1, <1>2, <1>3, <1>4
  <2>2. \A l, m \in Names : processes'[l] # 0 /\ processes'[l] = processes'[m] => l = m
    <3>1. \A m \in Names : processes[m] # made + 1
      BY <1>1
    <3> QED
      BY <1>4, <3>1 DEF AInv, ObjectsOK
  <2> QED
    BY <1>2, <1>3, <2>1, <2>2 DEF AInv, ObjectsOK, Live
<1>7. \A m \in Names : processes[m] # 0 =>
         /\ m # n /\ processes'[m] = processes[m] /\ spec'[processes[m]] = spec[processes[m]]
  <2> SUFFICES ASSUME NEW m \in Names, processes[m] # 0
               PROVE  m # n /\ processes'[m] = processes[m] /\ spec'[processes[m]] = spec[processes[m]]
    OBVIOUS
  <2>1. processes[m] \in Objects /\ processes[m] # made + 1
    BY <1>1 DEF Objects
  <2> QED
    BY <1>2, <1>4, <1>5, <2>1
<1>8. \A d \in Calls \ {c} : Spared(d)
  BY <1>2, <1>7 DEF Spared
<1>9. /\ k \in CallRecords /\ k.pc = "launch" /\ Keeps(k, call[c])
      /\ k.object = made + 1 /\ k.answer = call[c].answer /\ k.crossed = call[c].crossed
  <2>1. "launch" \in Labels
    BY DEF Labels
  <2> QED
    BY <1>0, <1>3, <2>1, Holds, ZenonT(60)
<1>10. call'[c] = k
  BY <1>2 DEF Crosses
<1> HIDE DEF k
<1>11. HandOK(c)'
  BY <1>0, <1>1, <1>2, <1>9, <1>10 DEF HandOK, Keeps
<1>12. UpdateOK(c)'
  BY <1>0, <1>1, <1>3, <1>4, <1>5, <1>9, <1>10 DEF UpdateOK, Keeps
<1>13. LoadOK(c)'
  <2>1. \A m \in Names : Runs(m) => Runs(m)'
    BY <1>2, <1>7 DEF Runs
  <2>2. call[c].op = "load" => DOMAIN call[c].file \subseteq Names
    BY <1>0, ApiAssumption DEF HandOK, SpecMap
  <2>3. processes'[n] = made + 1 /\ made + 1 # 0
    BY <1>0, <1>1, <1>4
  <2> QED
    BY <1>9, <1>10, <2>1, <2>2, <2>3, <1>0 DEF LoadOK, Keeps, Awaits
<1> QED
  BY <1>0, <1>2, <1>3, <1>6, <1>8, <1>9, <1>11, <1>12, <1>13, Acts DEF CallOK

(* tunnelctl load takes an answer and goes on.                             *)
LEMMA LoadAnswer ==
  ASSUME AInv, NEW c \in Calls, call[c].op = "load", call[c].pc # "next", NEW a \in {"ok", "error"},
         call'[c] = Returned(c, a), \A n \in Names : Runs(n) => Runs(n)',
         a = "ok" /\ ~call[c].crossed /\ ~call[c].hasError =>
            /\ processes'[call[c].name] # 0
            /\ call[c].spec = None => processes'[call[c].name] \in launched'
  PROVE  CallOK(c)'
<1>0. call[c] \in CallRecords /\ HandOK(c) /\ LoadOK(c) /\ a \in Answers
  BY DEF AInv, CallOK, Answers
<1>1. /\ call'[c].pc = "next" /\ Keeps(call'[c], call[c]) /\ call'[c].answer = a
      /\ call'[c].crossed = call[c].crossed
  BY <1>0, AnswersLoad
<1>2. call[c].name \in DOMAIN call[c].file /\ DOMAIN call[c].file \subseteq Names
  BY <1>0, ApiAssumption DEF HandOK, SpecMap
<1>3. HandOK(c)'
  BY <1>0, <1>1, <1>2 DEF HandOK, Keeps
<1>4. LoadOK(c)'
  <2> SUFFICES ASSUME ~call[c].crossed, ~call[c].hasError PROVE LoadOK(c)'
    BY <1>1 DEF LoadOK, Keeps
  <2>1. \A n \in DOMAIN call[c].file : n # call[c].name => Awaits(c, n) \/ Runs(n)'
    BY <1>0, <1>2 DEF LoadOK
  <2> QED
    BY <1>1, <1>2, <2>1 DEF LoadOK, Keeps, Awaits, Runs
<1> QED
  BY <1>1, <1>3, <1>4 DEF CallOK, UpdateOK, Keeps

LEMMA AddTunnelRefusedStep == ASSUME AInv, NEW c \in Calls, AddTunnelRefused(c) PROVE AInv'
<1>1. PICK a \in {"ok", "error"} :
         /\ Returns(c, a) /\ UNCHANGED <<registry, objects>>
         /\ a = "ok" => call[c].name \in Registered
  BY DEF AddTunnelRefused
<1>2. a \in Answers /\ HandOK(c) /\ call[c].pc = "add" /\ call'[c] = Returned(c, a)
  BY <1>1 DEF Answers, AInv, CallOK, AddTunnelRefused, Returns, Becomes
<1>3. CASE call[c].op = "load"
  <2>1. CallOK(c)'
    <3>1. \A n \in Names : Runs(n) => Runs(n)'
      BY <1>1 DEF registry, objects, Runs
    <3>2. call[c].spec # None
      BY <1>2, ApiAssumption DEF HandOK
    <3>3. a = "ok" => processes'[call[c].name] # 0
      BY <1>1 DEF registry, Registered
    <3> QED
      BY <1>2, <1>3, <3>1, <3>2, <3>3, LoadAnswer
  <2> QED
    BY <1>1, <1>2, <1>3, <2>1, ActsAlone, AnswersLoad DEF Returns
<1>4. CASE call[c].op # "load"
  BY <1>1, <1>2, <1>4, ReturnsAlone
<1> QED
  BY <1>3, <1>4

LEMMA LaunchStep == ASSUME AInv, NEW c \in Calls, Launch(c) PROVE AInv'
<1> DEFINE i == call[c].object
<1>0. /\ call[c] \in CallRecords /\ HandOK(c) /\ LoadOK(c) /\ ObjectsOK
      /\ call[c].pc = "launch" /\ i \in 1 .. made /\ i \in Objects
  <2>1. call[c] \in CallRecords /\ HandOK(c) /\ LoadOK(c) /\ ObjectsOK /\ call[c].pc = "launch"
    BY DEF AInv, CallOK, Launch
  <2>2. i \in 1 .. made
    BY <2>1 DEF HandOK
  <2>3. made \in 0 .. MaxObjects /\ MaxObjects \in Nat
    BY <2>1, ApiAssumption DEF ObjectsOK
  <2> QED
    BY <2>1, <2>2, <2>3 DEF Objects
<1>1. PICK a \in {"ok", "error"} : Returns(c, a) /\ (a = "ok" => i \in launched')
  BY DEF Launch
<1>2. a \in Answers /\ call'[c] = Returned(c, a) /\ Becomes(c, Returned(c, a))
  BY <1>1 DEF Answers, AInv, Returns, Becomes
<1>3. /\ UNCHANGED registry /\ launched \subseteq launched' /\ launched' \in SUBSET Objects
      /\ status' = status \/ (status' = [status EXCEPT ![i] = "starting"] /\ i \in launched')
  BY <1>0 DEF Launch, objects, ObjectsOK
<1>4. ObjectsOK' /\ made <= made'
  BY <1>0, <1>3 DEF ObjectsOK, registry, Live
<1>5. \A d \in Calls : Spared(d)
  BY <1>3 DEF Spared, registry
<1>6. Returned(c, a) \in CallRecords /\ CallOK(c)'
  <2>1. CASE call[c].op = "load"
    <3>1. \A n \in Names : Runs(n) => Runs(n)'
      BY <1>3 DEF registry, Runs
    <3>2. a = "ok" /\ ~call[c].crossed /\ ~call[c].hasError =>
             processes'[call[c].name] # 0 /\ processes'[call[c].name] \in launched'
      <4>1. call[c].name # None
        BY <1>0, <2>1, ApiAssumption DEF HandOK, SpecMap
      <4> QED
        BY <1>0, <1>1, <1>3, <2>1, <4>1 DEF LoadOK, registry
    <3> QED
      BY <1>0, <1>2, <2>1, <3>1, <3>2, LoadAnswer, AnswersLoad
  <2>2. CASE call[c].op # "load"
    BY <1>2, <2>2, AnswersCall, Ended
  <2> QED
    BY <2>1, <2>2
<1> QED
  BY <1>2, <1>4, <1>5, <1>6, Acts

LEMMA UpdateComparesStep == ASSUME AInv, NEW c \in Calls, UpdateCompares(c) PROVE AInv'
<1>0. /\ call[c] \in CallRecords /\ HandOK(c) /\ call[c].pc = "list" /\ call[c].op = "Update"
      /\ call[c].name \in Names /\ UNCHANGED <<registry, objects>>
  BY DEF AInv, CallOK, HandOK, UpdateCompares
<1>1. PICK l \in {"start", "replace"} :
         /\ Goes(c, l)
         /\ l = "start" => call[c].name \in Registered /\ Tunnels[call[c].name] = call[c].spec
  BY DEF UpdateCompares
<1> DEFINE k == [call[c] EXCEPT !.pc = l]
<1>2. /\ k \in CallRecords /\ k.pc = l /\ Keeps(k, call[c])
      /\ k.object = call[c].object /\ k.crossed = call[c].crossed
  <2>1. l \in Labels
    BY DEF Labels
  <2> QED
    BY <1>0, <2>1, GoesTo
<1>3. call'[c] = k /\ Becomes(c, k)
  BY <1>1 DEF Goes, Becomes, AInv
<1> HIDE DEF k
<1>4. HandOK(c)'
  BY <1>0, <1>2, <1>3 DEF HandOK, Keeps
<1>5. UpdateOK(c)'
  <2>1. l = "start" => processes[call[c].name] # 0 /\ spec[processes[call[c].name]] = call[c].spec
    BY <1>1 DEF Registered, Tunnels
  <2> QED
    BY <1>0, <1>2, <1>3, <2>1 DEF UpdateOK, Keeps, registry
<1>6. LoadOK(c)'
  BY <1>0, <1>2, <1>3 DEF LoadOK, Keeps
<1> QED
  BY <1>0, <1>2, <1>3, <1>4, <1>5, <1>6, ActsAlone DEF CallOK

(* A registered tunnel is stopped and removed: no other name has its       *)
(* object, and every call about it is told.                                *)
LEMMA StopsStep ==
  ASSUME AInv, NEW c \in Calls, NEW n \in Names, processes[n] # 0, Stops(processes[n]), NEW k,
         Crosses(c, n, k), UNCHANGED <<made, spec>>, processes' = [processes EXCEPT ![n] = 0]
  PROVE  ObjectsOK' /\ \A d \in Calls \ {c} : Spared(d)
<1> DEFINE i == processes[n]
<1>0. ObjectsOK /\ i \in 0 .. MaxObjects /\ i \in Objects /\ call \in [Calls -> CallRecords]
  BY ApiAssumption DEF AInv, ObjectsOK, Objects
<1>1. \A m \in Names : m # n => processes'[m] = processes[m] /\ processes[m] # i
  BY <1>0 DEF ObjectsOK
<1>2. launched' = launched /\ status' \in [Objects -> {"stopped", "starting", "running", "failed"}]
      /\ \A j \in Objects : Live(j)' => Live(j)
  BY <1>0 DEF Stops, ObjectsOK, Live
<1>3. ObjectsOK'
  <2>1. processes' \in [Names -> 0 .. MaxObjects] /\ \A m \in Names : processes'[m] \in {0, processes[m]}
    <3>1. 0 \in 0 .. MaxObjects
      BY ApiAssumption
    <3> QED
      BY <1>0, <3>1 DEF ObjectsOK
  <2>2. \A m \in Names : processes'[m] <= made'
    <3>1. made \in 0 .. MaxObjects /\ \A m \in Names : processes[m] <= made
      BY <1>0 DEF ObjectsOK
    <3> QED
      BY <2>1, <3>1
  <2>3. \A l, m \in Names : processes'[l] # 0 /\ processes'[l] = processes'[m] => l = m
    BY <1>0, <2>1 DEF ObjectsOK
  <2>4. launched' \in SUBSET Objects /\ \A j \in Objects : Live(j)' => j \in launched'
    BY <1>0, <1>2 DEF ObjectsOK
  <2> QED
    BY <1>0, <1>2, <2>1, <2>2, <2>3, <2>4 DEF ObjectsOK
<1>4. ASSUME NEW d \in Calls \ {c} PROVE Spared(d)
  <2>1. Concerns(d, n) => call'[d].crossed
    <3>1. call[d] \in CallRecords
      BY <1>0
    <3>2. Concerns(d, n) => call'[d] = [call[d] EXCEPT !.crossed = TRUE]
      BY DEF Crosses
    <3> QED
      BY <3>1, <3>2, Touched
  <2> QED
    BY <1>1, <1>2, <2>1 DEF Spared
<1> QED
  BY <1>3, <1>4

LEMMA RemoveTunnelStep == ASSUME AInv, NEW c \in Calls, RemoveTunnel(c) PROVE AInv'
<1> DEFINE n == call[c].name
<1>0. /\ call[c] \in CallRecords /\ HandOK(c) /\ call[c].pc \in {"replace", "remove"} /\ n \in Names
      /\ call[c].pc = "replace" => call[c].op = "Update" /\ call[c].spec \in Specs
      /\ call[c].op # "load"
  BY DEF AInv, CallOK, HandOK, RemoveTunnel
<1>1. PICK a \in {"ok", "error"} :
         LET k == IF call[c].pc = "replace" THEN [call[c] EXCEPT !.pc = "add"] ELSE Returned(c, a)
         IN  \/ /\ n \in Registered /\ processes' = [processes EXCEPT ![n] = 0]
                /\ Stops(processes[n]) /\ Crosses(c, n, k) /\ UNCHANGED <<made, spec>>
             \/ n \notin Registered /\ Becomes(c, k) /\ UNCHANGED <<registry, objects>>
  BY DEF RemoveTunnel
<1> DEFINE k == IF call[c].pc = "replace" THEN [call[c] EXCEPT !.pc = "add"] ELSE Returned(c, a)
<1>2. call'[c] = k
  BY <1>1 DEF Crosses, Becomes, AInv
<1>3. k \in CallRecords /\ CallOK(c)'
  <2>1. CASE call[c].pc = "replace"
    <3>1. k = [call[c] EXCEPT !.pc = "add"] /\ "add" \in Labels
      BY <2>1 DEF Labels
    <3>2. k \in CallRecords /\ k.pc = "add" /\ Keeps(k, call[c])
      <4>1. LET q == [call[c] EXCEPT !.pc = "add"]
            IN  q \in CallRecords /\ q.pc = "add" /\ Keeps(q, call[c])
        BY <1>0, <3>1, GoesTo
      <4> HIDE DEF k
      <4> QED
        BY <3>1, <4>1
    <3> HIDE DEF k
    <3>3. HandOK(c)'
      BY <1>0, <1>2, <2>1, <3>2 DEF HandOK, Keeps
    <3> QED
      BY <1>0, <1>2, <2>1, <3>2, <3>3 DEF CallOK, UpdateOK, LoadOK, Keeps
  <2>2. CASE call[c].pc # "replace"
    <3>1. a \in Answers /\ k = Returned(c, a)
      BY <2>2 DEF Answers
    <3> HIDE DEF k
    <3> QED
      BY <1>0, <1>2, <3>1, AnswersCall, Ended
  <2> QED
    BY <2>1, <2>2
<1> HIDE DEF k
<1>4. CASE /\ n \in Registered /\ processes' = [processes EXCEPT ![n] = 0]
           /\ Stops(processes[n]) /\ Crosses(c, n, k) /\ UNCHANGED <<made, spec>>
  <2>1. processes[n] # 0 /\ made <= made'
    BY <1>4 DEF Registered, AInv, ObjectsOK
  <2>2. ObjectsOK' /\ \A d \in Calls \ {c} : Spared(d)
    BY <1>0, <1>4, <2>1, StopsStep
  <2> QED
    BY <1>0, <1>3, <1>4, <2>1, <2>2, Acts
<1>5. CASE Becomes(c, k) /\ UNCHANGED <<registry, objects>>
  BY <1>3, <1>5, ActsAlone
<1> QED
  BY <1>1, <1>4, <1>5 DEF k

LEMMA StopTunnelStep == ASSUME AInv, NEW c \in Calls, StopTunnel(c) PROVE AInv'
<1> DEFINE n == call[c].name
<1>0. call[c].op # "load" /\ n \in Names /\ UNCHANGED registry /\ "ok" \in Answers /\ "error" \in Answers
  BY DEF AInv, CallOK, HandOK, StopTunnel, Answers
<1>1. CASE Returns(c, "error") /\ UNCHANGED objects
  BY <1>0, <1>1, ReturnsAlone
<1>2. CASE processes[n] # 0 /\ Stops(processes[n]) /\ Returns(c, "ok")
  <2>1. call'[c] = Returned(c, "ok") /\ Becomes(c, Returned(c, "ok"))
    BY <1>2 DEF Returns, Becomes, AInv
  <2>2. Returned(c, "ok") \in CallRecords /\ CallOK(c)'
    BY <1>0, <2>1, AnswersCall, Ended
  <2>3. ObjectsOK'
    <3>1. ObjectsOK /\ processes[n] \in Objects
      BY <1>0, <1>2, ApiAssumption DEF AInv, ObjectsOK, Objects
    <3>2. /\ launched' = launched /\ status' \in [Objects -> {"stopped", "starting", "running", "failed"}]
          /\ \A j \in Objects : Live(j)' => Live(j)
      BY <1>2, <3>1 DEF Stops, ObjectsOK, Live
    <3> QED
      BY <1>0, <3>1, <3>2 DEF ObjectsOK, registry
  <2>4. made <= made' /\ \A d \in Calls \ {c} : Spared(d)
    BY <1>0, <1>2 DEF Stops, Spared, registry, AInv, ObjectsOK
  <2> QED
    BY <2>1, <2>2, <2>3, <2>4, Acts
<1> QED
  BY <1>1, <1>2 DEF StopTunnel

LEMMA StartTunnelStep == ASSUME AInv, NEW c \in Calls, StartTunnel(c) PROVE AInv'
<1> DEFINE n == call[c].name
           i == processes[n]
<1>0. /\ call[c] \in CallRecords /\ HandOK(c) /\ UpdateOK(c) /\ LoadOK(c) /\ ObjectsOK
      /\ call[c].pc = "start" /\ n \in Names /\ UNCHANGED <<registry, objects>>
      /\ "ok" \in Answers /\ "error" \in Answers
  BY DEF AInv, CallOK, HandOK, StartTunnel, Answers
<1>1. ASSUME NEW a \in {"ok", "error"}, Returns(c, a), a = "ok" => i # 0 /\ Live(i) PROVE AInv'
  <2>1. CASE call[c].op = "load"
    <3>1. call'[c] = Returned(c, a) /\ \A m \in Names : Runs(m) => Runs(m)'
      BY <1>0, <1>1 DEF Returns, Becomes, AInv, Runs, registry, objects
    <3>2. a = "ok" => processes'[n] # 0 /\ processes'[n] \in launched'
      <4>1. i # 0 => i \in Objects
        BY <1>0, ApiAssumption DEF ObjectsOK, Objects
      <4> QED
        BY <1>0, <1>1, <4>1 DEF ObjectsOK, registry, objects
    <3>3. CallOK(c)'
      BY <1>0, <2>1, <3>1, <3>2, LoadAnswer
    <3> QED
      BY <1>0, <1>1, <2>1, <3>3, AnswersLoad, ActsAlone DEF Returns
  <2>2. CASE call[c].op # "load"
    BY <1>0, <1>1, <2>2, ReturnsAlone
  <2> QED
    BY <2>1, <2>2
<1>2. CASE i # 0 /\ Becomes(c, [call[c] EXCEPT !.pc = "launch", !.object = i])
  <2> DEFINE k == [call[c] EXCEPT !.pc = "launch", !.object = i]
  <2>1. i \in 0 .. MaxObjects /\ i \in 1 .. made
    BY <1>0, <1>2 DEF ObjectsOK
  <2>2. /\ k \in CallRecords /\ k.pc = "launch" /\ Keeps(k, call[c])
        /\ k.object = i /\ k.answer = call[c].answer /\ k.crossed = call[c].crossed
    <3>1. "launch" \in Labels
      BY DEF Labels
    <3> QED
      BY <1>0, <2>1, <3>1, Holds, ZenonT(60)
  <2>3. call'[c] = k /\ Becomes(c, k)
    BY <1>2 DEF Becomes, AInv
  <2> HIDE DEF k
  <2>4. HandOK(c)'
    BY <1>0, <2>1, <2>2, <2>3 DEF HandOK, Keeps, registry
  <2>5. UpdateOK(c)' /\ LoadOK(c)'
    BY <1>0, <1>2, <2>2, <2>3 DEF UpdateOK, LoadOK, Keeps, Awaits, Runs, registry, objects
  <2> QED
    BY <1>0, <2>2, <2>3, <2>4, <2>5, ActsAlone DEF CallOK
<1> QED
  BY <1>1, <1>2 DEF StartTunnel

LEMMA ObjectChangesStep == ASSUME AInv, NEW i \in Objects, ObjectChanges(i) PROVE AInv'
<1>1. /\ UNCHANGED <<registry, launched, call>> /\ ObjectsOK
      /\ status' \in [Objects -> {"stopped", "starting", "running", "failed"}]
      /\ \A j \in Objects : Live(j)' => Live(j) \/ j \in launched
  BY DEF ObjectChanges, AInv, ObjectsOK, Live
<1>2. ObjectsOK'
  BY <1>1 DEF ObjectsOK, registry
<1>3. \A c \in Calls : CallOK(c)'
  BY <1>1 DEF AInv, CallOK, HandOK, UpdateOK, LoadOK, Runs, Awaits, registry
<1> QED
  BY <1>1, <1>2, <1>3 DEF AInv

-----------------------------------------------------------------------------
(* The orders Plan returns hold every tunnel once.                         *)
LEMMA PlanOrdersComplete ==
  ASSUME NEW m, IsFiniteSet(DOMAIN m), NEW o \in PlanOrders(m)
  PROVE  /\ Cardinality(DOMAIN m) \in Nat /\ o \in Seq(DOMAIN m) /\ Len(o) = Cardinality(DOMAIN m)
         /\ DOMAIN o = 1 .. Len(o)
         /\ \A n \in DOMAIN m : \E k \in 1 .. Len(o) : o[k] = n
         /\ \A j, k \in 1 .. Len(o) : o[j] = o[k] => j = k
<1> DEFINE N == Cardinality(DOMAIN m)
<1>1. N \in Nat
  BY FS_CardinalityType
<1>2. o \in [1 .. N -> DOMAIN m] /\ \A i, j \in 1 .. N : o[i] = o[j] => i = j
  BY DEF PlanOrders
<1>3. o \in Injection(1 .. N, DOMAIN m)
  BY <1>2 DEF Injection, IsInjective
<1>4. Cardinality(1 .. N) = N
  BY <1>1, FS_Interval
<1>5. o \in Surjection(1 .. N, DOMAIN m)
  BY <1>1, <1>3, <1>4, FS_Injection
<1>6. \A n \in DOMAIN m : \E k \in 1 .. N : o[k] = n
  BY <1>5 DEF Surjection
<1> HIDE DEF N
<1>7. o \in Seq(DOMAIN m) /\ Len(o) = N /\ DOMAIN o = 1 .. N
  BY <1>1, <1>2
<1> QED
  BY <1>1, <1>2, <1>6, <1>7 DEF N

LEMMA LoadBeginsStep == ASSUME AInv, NEW c \in Calls, NEW f \in Loads, LoadBegins(c, f) PROVE AInv'
<1>0. /\ call[c].op = "none" /\ UNCHANGED <<registry, objects>> /\ "error" \in Answers
      /\ SpecMap(f) /\ DOMAIN f \subseteq Names /\ IsFiniteSet(DOMAIN f)
  BY ApiAssumption DEF LoadBegins, AInv, CallOK, HandOK, Answers, SpecMap
<1>1. CASE Returns(c, "error")
  BY <1>0, <1>1, ReturnsAlone
<1>2. ASSUME NEW o \in PlanOrders(f),
             Becomes(c, [Unmade EXCEPT !.op = "load", !.file = f, !.rest = o, !.persistent = TRUE, !.pc = "next"])
      PROVE  AInv'
  <2> DEFINE k == [Unmade EXCEPT !.op = "load", !.file = f, !.rest = o, !.persistent = TRUE, !.pc = "next"]
  <2>1. /\ o \in Seq(DOMAIN f) /\ o \in Seq(Names)
        /\ \A n \in DOMAIN f : \E i \in 1 .. Len(o) : o[i] = n
    BY <1>0, PlanOrdersComplete, SeqMonotonic
  <2>2. /\ k \in CallRecords /\ k.op = "load" /\ k.file = f /\ k.rest = o /\ k.pc = "next"
        /\ k.name = None /\ k.answer = "none"
    <3>1. Unmade \in CallRecords /\ "next" \in Labels /\ Unmade.name = None /\ Unmade.answer = "none"
      BY UnmadeType DEF Labels, Unmade
    <3> QED
      BY <2>1, <3>1 DEF CallRecords
  <2>3. call'[c] = k /\ Becomes(c, k)
    BY <1>2 DEF Becomes, AInv
  <2> HIDE DEF k
  <2>4. HandOK(c)'
    BY <2>1, <2>2, <2>3 DEF HandOK
  <2>5. UpdateOK(c)' /\ LoadOK(c)'
    BY <2>1, <2>2, <2>3 DEF UpdateOK, LoadOK, Awaits
  <2> QED
    BY <1>0, <2>2, <2>3, <2>4, <2>5, ActsAlone DEF CallOK
<1> QED
  BY <1>1, <1>2 DEF LoadBegins

LEMMA LoadStartsStep == ASSUME AInv, NEW c \in Calls, LoadStarts(c) PROVE AInv'
<1> DEFINE k == [call[c] EXCEPT !.pc = "start", !.spec = None]
<1>0. /\ call[c] \in CallRecords /\ HandOK(c) /\ LoadOK(c) /\ call[c].pc = "next" /\ call[c].op = "load"
      /\ call[c].answer = "ok" /\ call[c].spec # None /\ call[c].name # None
      /\ call[c].name \in DOMAIN call[c].file /\ DOMAIN call[c].file \subseteq Names
      /\ UNCHANGED <<registry, objects>>
  BY ApiAssumption DEF LoadStarts, Created, AInv, CallOK, HandOK, SpecMap
<1>1. /\ k \in CallRecords /\ k.pc = "start" /\ k.op = call[c].op /\ k.name = call[c].name
      /\ k.file = call[c].file /\ k.rest = call[c].rest /\ k.hasError = call[c].hasError
      /\ k.crossed = call[c].crossed
  BY <1>0 DEF CallRecords, Labels
<1>2. call'[c] = k /\ Becomes(c, k)
  BY DEF LoadStarts, Becomes, AInv
<1> HIDE DEF k
<1>3. HandOK(c)'
  BY <1>0, <1>1, <1>2 DEF HandOK
<1>4. LoadOK(c)'
  BY <1>0, <1>1, <1>2 DEF LoadOK, Awaits, Runs, registry, objects
<1>5. UpdateOK(c)'
  BY <1>0, <1>1, <1>2 DEF UpdateOK
<1> QED
  BY <1>0, <1>1, <1>2, <1>3, <1>4, <1>5, ActsAlone DEF CallOK

LEMMA FrontOff ==
  ASSUME NEW S, NEW s \in Seq(S), s # <<>>
  PROVE  /\ Head(s) \in S /\ Head(s) = s[1] /\ Tail(s) \in Seq(S) /\ Len(s) \in Nat \ {0}
         /\ Len(Tail(s)) = Len(s) - 1 /\ \A i \in 1 .. Len(Tail(s)) : Tail(s)[i] = s[i + 1]
  BY HeadTailProperties, EmptySeq, LenProperties

LEMMA LoadCreatesStep == ASSUME AInv, NEW c \in Calls, LoadCreates(c) PROVE AInv'
<1> DEFINE n == Head(call[c].rest)
           q == [call[c] EXCEPT !.rest = Tail(@), !.answer = "none", !.name = n]
           x == [q EXCEPT !.pc = "add", !.spec = call[c].file[n], !.hasError = Failed(c)]
           z == [q EXCEPT !.hasError = TRUE]
<1>a. Becomes(c, x) \/ Becomes(c, z)
  BY Zenon DEF LoadCreates
<1>0. /\ call[c] \in CallRecords /\ HandOK(c) /\ LoadOK(c) /\ call[c].pc = "next" /\ call[c].op = "load"
      /\ ~Created(c) /\ call[c].rest # <<>> /\ UNCHANGED <<registry, objects>>
  <2>1. call[c].pc = "next" /\ ~Created(c) /\ call[c].rest # <<>> /\ UNCHANGED <<registry, objects>>
    BY Zenon DEF LoadCreates
  <2> HIDE DEF x, z, q
  <2> QED
    BY <2>1 DEF AInv, CallOK, HandOK
<1>1. /\ call[c].file \in Loads /\ SpecMap(call[c].file) /\ DOMAIN call[c].file \subseteq Names
      /\ call[c].rest \in Seq(DOMAIN call[c].file)
  BY <1>0, ApiAssumption DEF HandOK, SpecMap
<1>2. /\ n \in DOMAIN call[c].file /\ Tail(call[c].rest) \in Seq(DOMAIN call[c].file)
      /\ Len(Tail(call[c].rest)) = Len(call[c].rest) - 1
      /\ \A i \in 1 .. Len(Tail(call[c].rest)) : Tail(call[c].rest)[i] = call[c].rest[i + 1]
      /\ Len(call[c].rest) \in Nat \ {0} /\ n = call[c].rest[1]
  <2> HIDE DEF x, z, q
  <2>1. call[c].rest # <<>> /\ call[c].rest \in Seq(DOMAIN call[c].file)
    BY <1>0, <1>1
  <2> QED
    BY <2>1, FrontOff
<1>3. /\ n \in Names /\ call[c].file[n] \in Specs /\ Failed(c) \in BOOLEAN
      /\ call[c].rest \in Seq(Names) /\ Tail(call[c].rest) \in Seq(Names)
  <2> HIDE DEF x, z, q, n
  <2>1. n \in Names /\ call[c].file[n] \in Specs
    BY <1>1, <1>2 DEF SpecMap
  <2>2. Failed(c) \in BOOLEAN
    BY <1>0 DEF Failed, CallRecords
  <2>3. call[c].rest \in Seq(Names) /\ Tail(call[c].rest) \in Seq(Names)
    BY <1>1, <1>2, SeqMonotonic
  <2> QED
    BY <2>1, <2>2, <2>3
<1>4. /\ x \in CallRecords /\ x.pc = "add" /\ x.op = "load" /\ x.name = n /\ x.spec = call[c].file[n]
      /\ x.file = call[c].file /\ x.rest = Tail(call[c].rest) /\ x.hasError = Failed(c)
      /\ x.crossed = call[c].crossed
      /\ z \in CallRecords /\ z.pc = "next" /\ z.op = "load" /\ z.name = n
      /\ z.file = call[c].file /\ z.rest = Tail(call[c].rest) /\ z.hasError
  <2> DEFINE sp == call[c].file[n]
             e == Failed(c)
  <2>1. /\ call[c] \in CallRecords /\ n \in Names /\ sp \in Specs /\ e \in BOOLEAN
        /\ call[c].rest \in Seq(Names) /\ Tail(call[c].rest) \in Seq(Names)
        /\ call[c].op = "load" /\ call[c].pc = "next"
    <3> HIDE DEF x, z, q, n
    <3> QED
      BY <1>0, <1>3
  <2> HIDE DEF sp, e, n
  <2>2. /\ q = [call[c] EXCEPT !.rest = Tail(@), !.answer = "none", !.name = n]
        /\ x = [q EXCEPT !.pc = "add", !.spec = sp, !.hasError = e]
        /\ z = [q EXCEPT !.hasError = TRUE]
    BY DEF sp, e
  <2> HIDE DEF x, z, q
  <2>3. {"add", "next"} \subseteq Labels /\ "none" \in Answers
    BY DEF Labels, Answers
  <2>4. /\ q \in CallRecords /\ q.pc = "next" /\ q.op = "load" /\ q.name = n /\ q.file = call[c].file
        /\ q.rest = Tail(call[c].rest) /\ q.crossed = call[c].crossed
    BY <2>1, <2>2, <2>3 DEF CallRecords
  <2>5. /\ x \in CallRecords /\ x.pc = "add" /\ x.op = q.op /\ x.name = q.name /\ x.spec = sp
        /\ x.file = q.file /\ x.rest = q.rest /\ x.hasError = e /\ x.crossed = q.crossed
    BY <2>1, <2>2, <2>3, <2>4, ZenonT(60) DEF CallRecords
  <2>6. /\ z \in CallRecords /\ z.pc = q.pc /\ z.op = q.op /\ z.name = q.name
        /\ z.file = q.file /\ z.rest = q.rest /\ z.hasError
    BY <2>2, <2>4, ZenonT(60) DEF CallRecords
  <2>7. sp = call[c].file[n] /\ e = Failed(c)
    BY DEF sp, e
  <2> HIDE DEF sp, e
  <2> QED
    BY <2>4, <2>5, <2>6, <2>7
<1> HIDE DEF x, z, q
<1>5. \A m \in DOMAIN call[c].file : Awaits(c, m) => m = n \/ \E i \in 1 .. Len(Tail(call[c].rest)) : Tail(call[c].rest)[i] = m
  <2> SUFFICES ASSUME NEW m \in DOMAIN call[c].file, NEW k \in 1 .. Len(call[c].rest), call[c].rest[k] = m, m # n
               PROVE  \E i \in 1 .. Len(Tail(call[c].rest)) : Tail(call[c].rest)[i] = m
    BY DEF Awaits
  <2>1. k - 1 \in 1 .. Len(Tail(call[c].rest)) /\ (k - 1) + 1 = k
    BY <1>2
  <2> QED
    BY <1>2, <2>1
<1>6. CASE Becomes(c, x)
  <2>1. call'[c] = x
    BY <1>6 DEF Becomes, AInv
  <2>2. HandOK(c)' /\ UpdateOK(c)'
    BY <1>1, <1>2, <1>3, <1>4, <2>1 DEF HandOK, UpdateOK
  <2>3. LoadOK(c)'
    <3> SUFFICES ASSUME ~call[c].crossed, ~Failed(c) PROVE LoadOK(c)'
      BY <1>4, <2>1 DEF LoadOK
    <3>1. ~call[c].hasError /\ call[c].answer # "error" /\ ~(call[c].answer = "ok" /\ call[c].spec # None)
      BY <1>0 DEF Failed, Created
    <3>2. \A m \in DOMAIN call[c].file : Awaits(c, m) \/ Runs(m)
      <4>1. \A m \in DOMAIN call[c].file : m # call[c].name => Awaits(c, m) \/ Runs(m)
        BY <1>0, <3>1 DEF LoadOK
      <4>2. call[c].name # None => Runs(call[c].name)
        BY <1>0, <3>1 DEF LoadOK
      <4>3. None \notin DOMAIN call[c].file
        BY <1>1, ApiAssumption
      <4> QED
        BY <4>1, <4>2, <4>3
    <3>3. \A m \in DOMAIN call[c].file : m # n =>
             Runs(m)' \/ \E i \in 1 .. Len(Tail(call[c].rest)) : Tail(call[c].rest)[i] = m
      BY <1>0, <1>5, <3>2 DEF Runs, registry, objects
    <3> QED
      BY <1>4, <2>1, <3>3, ZenonT(60) DEF LoadOK, Awaits
  <2> QED
    BY <1>0, <1>4, <1>6, <2>2, <2>3, ActsAlone DEF CallOK
<1>7. CASE Becomes(c, z)
  <2>1. call'[c] = z
    BY <1>7 DEF Becomes, AInv
  <2>2. CallOK(c)'
    BY <1>1, <1>2, <1>3, <1>4, <2>1 DEF CallOK, HandOK, UpdateOK, LoadOK
  <2> QED
    BY <1>0, <1>4, <1>7, <2>2, ActsAlone
<1> QED
  BY <1>a, <1>6, <1>7

LEMMA LoadEndsStep == ASSUME AInv, NEW c \in Calls, LoadEnds(c) PROVE AInv'
<1>1. PICK a \in {"error", "ok"} : Becomes(c, [Unmade EXCEPT !.pc = "done", !.answer = a])
  BY DEF LoadEnds
<1> DEFINE k == [Unmade EXCEPT !.pc = "done", !.answer = a]
<1>2. a \in Answers
  BY DEF Answers
<1>3. k \in CallRecords /\ k.op = "none" /\ k.pc = "done"
  BY <1>2, UnmadeType
<1>4. call'[c] = k /\ Becomes(c, k) /\ UNCHANGED <<registry, objects>>
  BY <1>1 DEF Becomes, AInv, LoadEnds
<1> HIDE DEF k
<1> QED
  BY <1>3, <1>4, Ended, ActsAlone

LEMMA ApiInit == Init => AInv
<1> SUFFICES ASSUME Init PROVE AInv
  OBVIOUS
<1>1. PICK o \in PlanOrders(Initial) :
         /\ made = Len(o)
         /\ processes = [n \in Names |-> IF n \in DOMAIN Initial THEN CHOOSE k \in DOMAIN o : o[k] = n ELSE 0]
         /\ spec = [i \in Objects |-> IF i <= Len(o) THEN Initial[o[i]] ELSE NoSpec]
         /\ status = [i \in Objects |-> IF i <= Len(o) THEN "starting" ELSE "stopped"]
         /\ launched = DOMAIN o
  BY DEF Init
<1>2. /\ DOMAIN Initial \subseteq Names /\ \A n \in DOMAIN Initial : Initial[n] \in Specs
      /\ IsFiniteSet(DOMAIN Initial) /\ MaxObjects \in Nat /\ Cardinality(DOMAIN Initial) <= MaxObjects
  BY ApiAssumption DEF SpecMap
<1>3. /\ Len(o) \in 0 .. MaxObjects /\ DOMAIN o = 1 .. Len(o) /\ DOMAIN o \subseteq Objects
      /\ \A i \in 1 .. Len(o) : o[i] \in DOMAIN Initial
      /\ \A n \in DOMAIN Initial : \E k \in 1 .. Len(o) : o[k] = n
  <2>1. /\ o \in Seq(DOMAIN Initial) /\ Len(o) = Cardinality(DOMAIN Initial) /\ Len(o) \in Nat
        /\ DOMAIN o = 1 .. Len(o)
        /\ \A n \in DOMAIN Initial : \E k \in 1 .. Len(o) : o[k] = n
    BY <1>2, PlanOrdersComplete
  <2>2. Len(o) \in 0 .. MaxObjects /\ DOMAIN o \subseteq Objects
    BY <1>2, <2>1 DEF Objects
  <2>3. \A i \in 1 .. Len(o) : o[i] \in DOMAIN Initial
    BY <2>1, ElementOfSeq
  <2> QED
    BY <2>1, <2>2, <2>3
<1>4. \A n \in Names : IF n \in DOMAIN Initial THEN processes[n] \in 1 .. Len(o) /\ o[processes[n]] = n
                       ELSE processes[n] = 0
  BY <1>1, <1>3
<1>5. ObjectsOK
  <2>1. NoSpec \in Specs
    BY DEF NoSpec, Specs
  <2>2. spec \in [Objects -> Specs]
    <3>1. \A i \in Objects : i <= Len(o) => i \in 1 .. Len(o)
      BY <1>2, <1>3 DEF Objects
    <3> QED
      BY <1>1, <1>2, <1>3, <2>1, <3>1
  <2>3. /\ processes \in [Names -> 0 .. MaxObjects] /\ made \in 0 .. MaxObjects
        /\ \A n \in Names : processes[n] <= made
    <3>1. \A n \in Names : processes[n] \in 0 .. MaxObjects /\ processes[n] <= Len(o)
      BY <1>2, <1>3, <1>4
    <3> QED
      BY <1>1, <1>3, <3>1
  <2>4. \A m, n \in Names : processes[m] # 0 /\ processes[m] = processes[n] => m = n
    BY <1>4
  <2>5. /\ status \in [Objects -> {"stopped", "starting", "running", "failed"}]
        /\ launched \in SUBSET Objects /\ \A i \in Objects : Live(i) => i \in launched
    <3>1. \A i \in Objects : i <= Len(o) => i \in DOMAIN o
      BY <1>2, <1>3 DEF Objects
    <3> QED
      BY <1>1, <1>3, <3>1 DEF Live
  <2> QED
    BY <2>2, <2>3, <2>4, <2>5 DEF ObjectsOK
<1>6. call = [c \in Calls |-> Unmade]
  BY DEF Init
<1>7. \A c \in Calls : CallOK(c)
  BY <1>6, UnmadeType DEF CallOK, HandOK, UpdateOK, LoadOK
<1> QED
  BY <1>5, <1>6, <1>7, UnmadeType DEF AInv

LEMMA ApiNext == AInv /\ [Next]_vars => AInv'
<1> SUFFICES ASSUME AInv, [Next]_vars PROVE AInv'
  OBVIOUS
<1>1. CASE UNCHANGED vars
  BY <1>1 DEF vars, registry, objects, AInv, ObjectsOK, Live, CallOK, HandOK, UpdateOK, LoadOK, Runs, Awaits
<1>2. ASSUME NEW c \in Calls, Handler(c) \/ Disconnect(c) PROVE AInv'
  BY <1>2, AddTunnelStep, AddTunnelRefusedStep, LaunchStep, UpdateComparesStep, RemoveTunnelStep,
     StartTunnelStep, StopTunnelStep, WaitsAndWatches DEF Handler
<1>3. ASSUME NEW c \in Calls, Loader(c) PROVE AInv'
  BY <1>3, LoadStartsStep, LoadCreatesStep, LoadEndsStep DEF Loader
<1> QED
  BY <1>1, <1>2, <1>3, CallStep, LoadBeginsStep, LogGrowsStep, ObjectChangesStep DEF Next

LEMMA ApiInvariant == Spec => []AInv
  BY ApiInit, ApiNext, PTL DEF Spec
(* Types of the registry, the objects and the calls; a handler that is     *)
(* about to launch a child holds an object, though the name it looked up   *)
(* may have been removed since (supervisor.go:237).                        *)
THEOREM ApiTypeCorrect == Spec => []TypeOK
<1>1. AInv => TypeOK
  <2> SUFFICES ASSUME AInv PROVE TypeOK
    OBVIOUS
  <2>1. \A c \in Calls : call[c] \in CallRecords /\ (call[c].pc = "launch" => call[c].object # 0)
    BY DEF AInv, CallOK, HandOK
  <2> QED
    BY <2>1 DEF AInv, ObjectsOK, TypeOK, CallRecords
<1> QED
  BY <1>1, ApiInvariant, PTL

-----------------------------------------------------------------------------
(* Which steps end a call.                                                 *)

(* What the goroutine of d may do to the records: its own becomes another, *)
(* and others are told that they were crossed.                             *)
Moves(d) == \E k : Becomes(d, k) \/ \E n : Crosses(d, n, k)

LEMMA MovesOnlyItself ==
  ASSUME AInv, NEW c \in Calls, NEW d \in Calls, c # d, Moves(d) PROVE call'[c].pc = call[c].pc
<1>1. PICK k : Becomes(d, k) \/ \E n : Crosses(d, n, k)
  BY DEF Moves
<1>2. call'[c] = call[c] \/ call'[c] = [call[c] EXCEPT !.crossed = TRUE]
  BY <1>1 DEF AInv, Becomes, Crosses
<1>3. call[c] \in CallRecords
  BY DEF AInv
<1> QED
  BY <1>2, <1>3, Touched

LEMMA HandlerMoves == ASSUME NEW d \in Calls, Handler(d) PROVE Moves(d)
<1> USE DEF Moves
<1>1. AddTunnel(d) => Moves(d)
  BY Zenon DEF AddTunnel
<1>2. AddTunnelRefused(d) => Moves(d)
  BY Zenon DEF AddTunnelRefused, Returns
<1>3. Launch(d) => Moves(d)
  BY Zenon DEF Launch, Returns
<1>4. UpdateCompares(d) => Moves(d)
  BY Zenon DEF UpdateCompares, Goes
<1>5. RemoveTunnel(d) => Moves(d)
  BY Zenon DEF RemoveTunnel
<1>6. StartTunnel(d) => Moves(d)
  BY Zenon DEF StartTunnel, Returns
<1>7. StopTunnel(d) => Moves(d)
  BY Zenon DEF StopTunnel, Returns
<1>8. WaitLooksUp(d) => Moves(d)
  BY DEF WaitLooksUp, Returns
<1>9. WaitDeadline(d) \/ WaitPolls(d) \/ WaitCancelled(d) \/ WaitAnswers(d) => Moves(d)
  BY Zenon DEF WaitDeadline, WaitPolls, WaitCancelled, WaitAnswers, Returns, Goes
<1>10. StatusAnswers(d) \/ WatchSends(d) \/ WatchTicks(d) \/ WatchDone(d) => Moves(d)
  BY Zenon DEF StatusAnswers, WatchSends, WatchTicks, WatchDone, Returns, Goes
<1>11. LogsOpens(d) \/ LogsEnds(d) => Moves(d)
  BY Zenon DEF LogsOpens, LogsEnds, Returns
<1>12. LogsReads(d) => Moves(d)
  BY DEF LogsReads, Returns
<1> QED
  BY <1>1, <1>2, <1>3, <1>4, <1>5, <1>6, <1>7, <1>8, <1>9, <1>10, <1>11, <1>12 DEF Handler

LEMMA ClientMoves ==
  ASSUME NEW d \in Calls,
         Loader(d) \/ Disconnect(d) \/ (\E r \in Requests : Call(d, r)) \/ (\E f \in Loads : LoadBegins(d, f))
  PROVE  Moves(d)
<1> USE DEF Moves
<1>1. LoadStarts(d) \/ LoadEnds(d) \/ Disconnect(d) => Moves(d)
  BY Zenon DEF LoadStarts, LoadEnds, Disconnect
<1>2. LoadCreates(d) => Moves(d)
  BY Zenon DEF LoadCreates
<1>3. ASSUME NEW r \in Requests, Call(d, r) PROVE Moves(d)
  BY <1>3 DEF Call, Returns
<1>4. ASSUME NEW f \in Loads, LoadBegins(d, f) PROVE Moves(d)
  BY <1>4, Zenon DEF LoadBegins, Returns
<1> QED
  BY <1>1, <1>2, <1>3, <1>4 DEF Loader

(* A call that is neither before its first step nor at its end is brought  *)
(* to its end by a step of its own.                                        *)
LEMMA EndsItself ==
  ASSUME AInv, [Next]_vars, NEW c \in Calls, call[c].pc \notin {"idle", "done"}, call'[c].pc = "done"
  PROVE  Handler(c) \/ Loader(c) \/ Disconnect(c)
<1>0. call[c] \in CallRecords
  BY DEF AInv
<1>1. CASE UNCHANGED call
  BY <1>1
<1>2. ASSUME NEW d \in Calls, Handler(d) \/ Loader(d) \/ Disconnect(d) PROVE Handler(c) \/ Loader(c) \/ Disconnect(c)
  BY <1>2, HandlerMoves, ClientMoves, MovesOnlyItself
<1>3. ASSUME NEW d \in Calls, (\E r \in Requests : Call(d, r)) \/ (\E f \in Loads : LoadBegins(d, f)) PROVE FALSE
  <2>1. d # c
    BY <1>3 DEF Call, LoadBegins
  <2> QED
    BY <1>3, <2>1, ClientMoves, MovesOnlyItself
<1>4. ASSUME NEW n \in Names, LogGrows(n) PROVE FALSE
  <2>1. call'[c] = call[c] \/ call'[c] = [call[c] EXCEPT !.unread = TRUE]
    BY <1>4 DEF LogGrows
  <2> QED
    BY <1>0, <2>1, Observed
<1>5. (\E i \in Objects : ObjectChanges(i)) \/ UNCHANGED vars => UNCHANGED call
  BY DEF ObjectChanges, vars
<1> QED
  BY <1>1, <1>2, <1>3, <1>4, <1>5 DEF Next

LEMMA UpdateEnds ==
  ASSUME AInv, [Next]_vars, NEW c \in Calls, call[c].op = "Update", call'[c].pc = "done"
  PROVE  StartTunnel(c) \/ Launch(c) \/ AddTunnelRefused(c)
<1>0. /\ call[c] \in CallRecords /\ HandOK(c)
      /\ call[c].pc \in {"list", "replace", "add", "start", "launch"}
  BY DEF AInv, CallOK, HandOK
<1>1. Handler(c) \/ Loader(c) \/ Disconnect(c)
  BY <1>0, EndsItself
<1>2. ~Loader(c) /\ ~Disconnect(c)
  BY <1>0, Zenon DEF Loader, LoadStarts, LoadCreates, LoadEnds, Disconnect
<1>3. ~AddTunnel(c)
  <2>1. \A i \in 0 .. MaxObjects : [call[c] EXCEPT !.pc = "launch", !.object = i].pc = "launch"
    BY <1>0 DEF CallRecords
  <2>2. SUFFICES ASSUME AddTunnel(c) PROVE FALSE
    OBVIOUS
  <2>3. made + 1 \in 0 .. MaxObjects
    BY <2>2, ApiAssumption DEF AddTunnel, AInv, ObjectsOK
  <2>4. call'[c] = [call[c] EXCEPT !.pc = "launch", !.object = made + 1]
    BY <2>2 DEF AddTunnel, Crosses
  <2> QED
    BY <2>1, <2>3, <2>4
<1>4. ~UpdateCompares(c)
  <2>1. \A l \in {"start", "replace"} : [call[c] EXCEPT !.pc = l].pc = l
    BY <1>0 DEF CallRecords
  <2>2. UpdateCompares(c) => \E l \in {"start", "replace"} : call'[c] = [call[c] EXCEPT !.pc = l]
    BY DEF UpdateCompares, Goes, Becomes, AInv
  <2> QED
    BY <2>1, <2>2
<1>5. ~RemoveTunnel(c)
  <2>1. [call[c] EXCEPT !.pc = "add"].pc = "add"
    BY <1>0 DEF CallRecords
  <2>2. RemoveTunnel(c) => call'[c] = [call[c] EXCEPT !.pc = "add"]
    BY <1>0 DEF RemoveTunnel, Becomes, Crosses, AInv
  <2> QED
    BY <2>1, <2>2
<1>6. /\ ~StopTunnel(c) /\ ~WaitLooksUp(c) /\ ~WaitDeadline(c) /\ ~WaitPolls(c) /\ ~WaitCancelled(c)
      /\ ~WaitAnswers(c) /\ ~StatusAnswers(c) /\ ~WatchSends(c) /\ ~WatchTicks(c) /\ ~WatchDone(c)
      /\ ~LogsOpens(c) /\ ~LogsReads(c) /\ ~LogsEnds(c)
  BY <1>0 DEF StopTunnel, WaitLooksUp, WaitDeadline, WaitPolls, WaitCancelled, WaitAnswers, StatusAnswers,
     WatchSends, WatchTicks, WatchDone, LogsOpens, LogsReads, LogsEnds
<1> QED
  BY <1>1, <1>2, <1>3, <1>4, <1>5, <1>6 DEF Handler

(* How an Update that nobody crossed ends: its tunnel is there as it was   *)
(* asked for, or its file was not written, or it was refused by a          *)
(* supervisor that has not changed since.                                  *)
LEMMA UpdateOutcome ==
  ASSUME AInv, [Next]_vars, NEW c \in Calls, call[c].op = "Update", ~call[c].crossed, call'[c].pc = "done"
  PROVE  \/ /\ call[c].name \in Registered' /\ Tunnels'[call[c].name] = call[c].spec
         \/ /\ call'[c].answer = "error"
            /\ call[c].persistent \/ ~Promise!Acceptable(Tunnels', call[c].name, call[c].spec)
<1>0. call[c] \in CallRecords /\ HandOK(c) /\ UpdateOK(c) /\ call[c].name \in Names
  BY DEF AInv, CallOK, HandOK
<1>1. CASE StartTunnel(c) \/ Launch(c)
  <2>1. call[c].pc \in {"start", "launch"} /\ UNCHANGED registry
    BY <1>1 DEF StartTunnel, Launch
  <2>2. processes'[call[c].name] # 0 /\ spec'[processes'[call[c].name]] = call[c].spec
    BY <1>0, <2>1 DEF UpdateOK, registry
  <2> QED
    BY <1>0, <2>2 DEF Registered, Tunnels
<1>2. CASE AddTunnelRefused(c)
  <2>1. UNCHANGED Tunnels
    BY <1>2 DEF AddTunnelRefused, Tunnels, Registered, registry
  <2>2. call[c].persistent \/ ~Promise!Acceptable(Tunnels, call[c].name, call[c].spec)
    BY <1>2 DEF AddTunnelRefused, MayAdd, WriteFails
  <2>3. call'[c] = Returned(c, "error") /\ "error" \in Answers
    BY <1>2 DEF AddTunnelRefused, Returns, Becomes, AInv, Answers
  <2>4. call'[c].answer = "error"
    BY <2>3, AnswersCall
  <2> QED
    BY <2>1, <2>2, <2>4
<1> QED
  BY <1>1, <1>2, UpdateEnds

(* An Update that returns success and that no other call about the tunnel  *)
(* crossed leaves the tunnel registered with the spec it was given,        *)
(* whichever of its two ways it took (grpc_server.go:245), whatever other  *)
(* calls are in progress about other tunnels.                              *)
THEOREM UpdateTakesEffect == Spec => UpdateInEffect
<1>1. AInv /\ [Next]_vars =>
         [\A c \in Calls : Ends(c, "Update", "ok") =>
             LET n == call[c].name IN n \in Registered' /\ Tunnels'[n] = call[c].spec]_vars
  <2> SUFFICES ASSUME AInv, [Next]_vars, NEW c \in Calls, Ends(c, "Update", "ok")
               PROVE  call[c].name \in Registered' /\ Tunnels'[call[c].name] = call[c].spec
    OBVIOUS
  <2> QED
    BY UpdateOutcome DEF Ends
<1> QED
  BY <1>1, ApiInvariant, PTL DEF Spec, UpdateInEffect

(* Update removes the old tunnel before it adds the new one.  When it      *)
(* fails and leaves no tunnel, though no other call was about it, its file *)
(* was to be written and was not, or the supervisor refuses what it was    *)
(* given even without the old tunnel: the old tunnel's own ports are never *)
(* the reason (grpc_server.go:272, supervisor.go:139).                     *)
THEOREM UpdateLosesNothingElse == Spec => UpdateLosesOnlyRefused
<1>1. AInv /\ [Next]_vars =>
         [\A c \in Calls : Ends(c, "Update", "error") /\ call[c].name \notin Registered' =>
             call[c].persistent \/ ~Promise!Acceptable(Tunnels', call[c].name, call[c].spec)]_vars
  <2> SUFFICES ASSUME AInv, [Next]_vars, NEW c \in Calls, Ends(c, "Update", "error"),
                      call[c].name \notin Registered'
               PROVE  call[c].persistent \/ ~Promise!Acceptable(Tunnels', call[c].name, call[c].spec)
    OBVIOUS
  <2> QED
    BY UpdateOutcome DEF Ends
<1> QED
  BY <1>1, ApiInvariant, PTL DEF Spec, UpdateLosesOnlyRefused

(* Only the last step of tunnelctl load ends it.                           *)
LEMMA LoadIsOver ==
  ASSUME AInv, [Next]_vars, NEW c \in Calls, call[c].op = "load", call'[c].pc = "done"
  PROVE  LoadEnds(c)
<1>0. /\ call[c] \in CallRecords /\ HandOK(c) /\ call[c].pc \in {"next", "add", "start", "launch"}
  BY DEF AInv, CallOK, HandOK
<1>1. Handler(c) \/ Loader(c) \/ Disconnect(c)
  BY <1>0, EndsItself
<1>2. ~Disconnect(c)
  BY <1>0, Zenon DEF Disconnect
<1>3. \A a \in Answers : Returned(c, a).pc = "next"
  BY AnswersLoad
<1>4. \A i \in 0 .. MaxObjects : [call[c] EXCEPT !.pc = "launch", !.object = i].pc = "launch"
  BY <1>0 DEF CallRecords
<1>5. ~AddTunnel(c)
  <2>1. SUFFICES ASSUME AddTunnel(c) PROVE FALSE
    OBVIOUS
  <2>2. made + 1 \in 0 .. MaxObjects
    BY <2>1, ApiAssumption DEF AddTunnel, AInv, ObjectsOK
  <2>3. call'[c] = [call[c] EXCEPT !.pc = "launch", !.object = made + 1]
    BY <2>1 DEF AddTunnel, Crosses
  <2> QED
    BY <1>4, <2>2, <2>3
<1>6. ~AddTunnelRefused(c)
  <2>1. AddTunnelRefused(c) => \E a \in {"ok", "error"} : call'[c] = Returned(c, a)
    BY DEF AddTunnelRefused, Returns, Becomes, AInv
  <2> QED
    BY <1>3, <2>1 DEF Answers
<1>7. ~Launch(c)
  <2>1. Launch(c) => \E a \in {"ok", "error"} : call'[c] = Returned(c, a)
    BY DEF Launch, Returns, Becomes, AInv
  <2> QED
    BY <1>3, <2>1 DEF Answers
<1>8. ~StartTunnel(c)
  <2>1. SUFFICES ASSUME StartTunnel(c) PROVE FALSE
    OBVIOUS
  <2>2. processes[call[c].name] \in 0 .. MaxObjects
    BY <1>0, <2>1 DEF StartTunnel, HandOK, AInv, ObjectsOK
  <2>3. \/ \E a \in {"ok", "error"} : call'[c] = Returned(c, a)
        \/ call'[c] = [call[c] EXCEPT !.pc = "launch", !.object = processes[call[c].name]]
    BY <2>1 DEF StartTunnel, Returns, Becomes, AInv
  <2> QED
    BY <1>3, <1>4, <2>2, <2>3 DEF Answers
<1>9. ~LoadStarts(c)
  <2>1. [call[c] EXCEPT !.pc = "start", !.spec = None].pc = "start"
    BY <1>0 DEF CallRecords
  <2>2. LoadStarts(c) => call'[c] = [call[c] EXCEPT !.pc = "start", !.spec = None]
    BY DEF LoadStarts, Becomes, AInv
  <2> QED
    BY <2>1, <2>2
<1>10. ~LoadCreates(c)
  <2>1. SUFFICES ASSUME LoadCreates(c) PROVE FALSE
    OBVIOUS
  <2> DEFINE n == Head(call[c].rest)
             q == [call[c] EXCEPT !.rest = Tail(@), !.answer = "none", !.name = n]
             x == [q EXCEPT !.pc = "add", !.spec = call[c].file[n], !.hasError = Failed(c)]
             z == [q EXCEPT !.hasError = TRUE]
  <2>2. (Becomes(c, x) \/ Becomes(c, z)) /\ call[c].pc = "next"
    BY <2>1, Zenon DEF LoadCreates
  <2>3. DOMAIN call[c] = {"op", "name", "spec", "pc", "object", "answer", "gone", "late", "unread", "file",
                          "persistent", "rest", "hasError", "crossed"}
    BY <1>0 DEF CallRecords
  <2>4. q.pc = "next" /\ DOMAIN q = DOMAIN call[c]
    BY <2>2, <2>3
  <2> HIDE DEF q
  <2>5. x.pc = "add" /\ z.pc = "next"
    BY <2>3, <2>4
  <2> HIDE DEF x, z
  <2> QED
    BY <2>2, <2>5 DEF Becomes, AInv
<1>11. /\ ~StopTunnel(c) /\ ~WaitLooksUp(c) /\ ~WaitDeadline(c) /\ ~WaitPolls(c) /\ ~WaitCancelled(c)
       /\ ~WaitAnswers(c) /\ ~StatusAnswers(c) /\ ~WatchSends(c) /\ ~WatchTicks(c) /\ ~WatchDone(c)
       /\ ~LogsOpens(c) /\ ~LogsReads(c) /\ ~LogsEnds(c) /\ ~UpdateCompares(c) /\ ~RemoveTunnel(c)
  BY <1>0 DEF StopTunnel, WaitLooksUp, WaitDeadline, WaitPolls, WaitCancelled, WaitAnswers, StatusAnswers,
     WatchSends, WatchTicks, WatchDone, LogsOpens, LogsReads, LogsEnds, UpdateCompares, RemoveTunnel
<1> QED
  BY <1>1, <1>2, <1>5, <1>6, <1>7, <1>8, <1>9, <1>10, <1>11 DEF Handler, Loader

(* When tunnelctl load exits with success every tunnel of its file is      *)
(* registered and has been launched, unless another call added or removed  *)
(* one of them meanwhile: a tunnel that was there already is started with  *)
(* the rest (load.go:43), whatever monitors and children do in between.    *)
THEOREM LoadIsComplete == Spec => LoadComplete
<1>1. AInv /\ [Next]_vars =>
         [\A c \in Calls : Ends(c, "load", "ok") =>
             \A n \in DOMAIN call[c].file : n \in Registered' /\ processes'[n] \in launched']_vars
  <2> SUFFICES ASSUME AInv, [Next]_vars, NEW c \in Calls, Ends(c, "load", "ok"), NEW n \in DOMAIN call[c].file
               PROVE  n \in Registered' /\ processes'[n] \in launched'
    OBVIOUS
  <2>1. /\ call[c].op = "load" /\ ~call[c].crossed /\ call'[c].answer = "ok" /\ LoadEnds(c)
        /\ HandOK(c) /\ LoadOK(c)
    BY LoadIsOver DEF Ends, AInv, CallOK
  <2>2. ~Failed(c) /\ ~Created(c) /\ call[c].rest = <<>> /\ call[c].pc = "next" /\ UNCHANGED <<registry, objects>>
    <3>1. call'[c].answer = IF Failed(c) THEN "error" ELSE "ok"
      <4>1. \A a \in {"error", "ok"} : [Unmade EXCEPT !.pc = "done", !.answer = a].answer = a
        BY UnmadeType DEF Answers
      <4>2. call'[c] = [Unmade EXCEPT !.pc = "done", !.answer = IF Failed(c) THEN "error" ELSE "ok"]
        BY <2>1, Zenon DEF LoadEnds, Becomes, AInv
      <4> QED
        BY <4>1, <4>2
    <3> QED
      BY <2>1, <3>1 DEF LoadEnds
  <2>3. ~call[c].hasError /\ call[c].answer # "error" /\ ~(call[c].answer = "ok" /\ call[c].spec # None)
    BY <2>2 DEF Failed, Created
  <2>4. DOMAIN call[c].file \subseteq Names /\ None \notin DOMAIN call[c].file
    BY <2>1, ApiAssumption DEF HandOK, SpecMap
  <2>5. ~Awaits(c, n)
    BY <2>2 DEF Awaits
  <2>6. Runs(n)
    BY <2>1, <2>2, <2>3, <2>4, <2>5 DEF LoadOK
  <2> QED
    BY <2>2, <2>4, <2>6 DEF Runs, Registered, registry, objects
<1> QED
  BY <1>1, ApiInvariant, PTL DEF Spec, LoadComplete
=============================================================================
