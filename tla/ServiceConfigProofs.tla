------------------------- MODULE ServiceConfigProofs -------------------------
(***************************************************************************)
(* Proofs about ServiceConfig for any edits, tuners, processes and         *)
(* clusters, with or without faults.                                       *)
(***************************************************************************)
EXTENDS ServiceConfig, TLAPS

USE ActorsAssumption, NothingAssumption, DraftsAssumption

Pcs == {"idle", "read", "insert", "update", "redis", "memory", "done"}
Acts == [pc : Pcs, val : Cached]

-----------------------------------------------------------------------------
(* Type correctness.                                                       *)

\* Whoever is about to write holds a document, and only tuners update.
Holding(a) ==
  /\ act[a].pc \in {"insert", "update"} => act[a].val \in Values
  /\ act[a].pc = "update" => a \in Tuners

TypeInv == TypeOK /\ \A a \in Actors : Holding(a)

\* The actor that moved holds what Holding asks, the others have not moved.
LEMMA OneMoves ==
  ASSUME TypeInv, NEW a \in Actors, NEW r \in Acts,
         act' = [act EXCEPT ![a] = r],
         r.pc \in {"insert", "update"} => r.val \in Values,
         r.pc = "update" => a \in Tuners
  PROVE  act' \in [Actors -> Acts] /\ \A b \in Actors : Holding(b)'
<1>1. act \in [Actors -> Acts]
  BY DEF TypeInv, TypeOK, Acts, Pcs
<1>2. act' \in [Actors -> Acts] /\ act'[a] = r
      /\ \A b \in Actors \ {a} : act'[b] = act[b]
  BY <1>1
<1> QED
  BY <1>2 DEF TypeInv, Holding

\* Going on to a step that writes nothing keeps what is to be written.
LEMMA GotoMoves ==
  ASSUME TypeInv, NEW a \in Actors, NEW pc \in Pcs \ {"insert", "update"}, Goto(a, pc)
  PROVE  act' \in [Actors -> Acts] /\ \A b \in Actors : Holding(b)'
<1>1. act \in [Actors -> Acts]
  BY DEF TypeInv, TypeOK, Acts, Pcs
<1>2. [act[a] EXCEPT !.pc = pc] \in Acts
  BY <1>1 DEF Acts
<1>3. act' = [act EXCEPT ![a] = [act[a] EXCEPT !.pc = pc]]
  BY <1>1 DEF Goto
<1>4. [act[a] EXCEPT !.pc = pc].pc = pc
  BY <1>1 DEF Acts
<1> QED
  BY <1>2, <1>3, <1>4, OneMoves

LEMMA FinishMoves ==
  ASSUME TypeInv, NEW a \in Actors, Finish(a)
  PROVE  act' \in [Actors -> Acts] /\ \A b \in Actors : Holding(b)'
<1>1. [Idle EXCEPT !.pc = "done"] \in Acts /\ [Idle EXCEPT !.pc = "done"].pc = "done"
  BY DEF Idle, Acts, Pcs, Cached
<1> QED
  BY <1>1, OneMoves DEF Finish

LEMMA PrepareMoves ==
  ASSUME TypeInv, NEW a \in Actors, NEW pc \in Pcs, NEW v \in Cached, Prepare(a, pc, v),
         pc \in {"insert", "update"} => v \in Values,
         pc = "update" => a \in Tuners
  PROVE  act' \in [Actors -> Acts] /\ \A b \in Actors : Holding(b)'
<1>1. [pc |-> pc, val |-> v] \in Acts
  BY DEF Acts
<1> QED
  BY <1>1, OneMoves DEF Prepare

\* What the actors write are documents.
LEMMA Documents ==
  /\ \A e \in Edits, f \in Drafts : Document(e, f) \in Values
  /\ Blank \in Values
  /\ \A v \in Values, busy \in SUBSET Segments :
       [v EXCEPT !.entry = Tuned(v.entry, busy)] \in Values
  /\ \A v \in Values : [v EXCEPT !.entry = Untuned(v.entry)] \in Values
<1>1. \A f \in [Segments -> Owners], busy \in SUBSET Segments :
        /\ Tuned(f, busy) \in [Segments -> Owners]
        /\ Untuned(f) \in [Segments -> Owners]
  BY DEF Tuned, Untuned, Owners
<1>2. NoEntries \in [Segments -> Owners]
  BY DEF NoEntries, Owners
<1> QED
  BY <1>1, <1>2 DEF Document, Blank, Values, Authors

\* The types of the rest.
Rest == /\ rows \subseteq Rows /\ redis \subseteq Cached
        /\ mem \in [Nodes -> SUBSET Cached] /\ lock \in BOOLEAN
        /\ look \in [Nodes -> [pc : {"idle", "table", "share", "remember"},
                               val : Cached]]
        /\ misled \subseteq Actors /\ doubled \in BOOLEAN

LEMMA TypeParts == TypeOK <=> Rest /\ act \in [Actors -> Acts]
BY DEF TypeOK, Rest, Acts, Pcs

LEMMA TypesAfter ==
  ASSUME Rest', act' \in [Actors -> Acts], \A b \in Actors : Holding(b)'
  PROVE  TypeInv'
BY DEF TypeInv, TypeOK, Rest, Acts, Pcs

LEMMA OverwriteTypes ==
  ASSUME TypeInv, NEW a \in Actors, NEW v \in Values, Overwrite(a, v),
         UNCHANGED <<caches, lock, look, doubled>>
  PROVE  TypeInv'
<1>1. Rest
  BY TypeParts DEF TypeInv
<1>2. CASE rows = {}
  <2>1. act' \in [Actors -> Acts] /\ \A b \in Actors : Holding(b)'
    BY <1>2, FinishMoves DEF Overwrite
  <2> QED
    BY <1>1, <1>2, <2>1, TypesAfter DEF Overwrite, Rest, caches
<1>3. CASE rows # {}
  <2>1. Prepare(a, "redis", v) /\ v \in Cached
    BY <1>3 DEF Overwrite, Cached
  <2>2. act' \in [Actors -> Acts] /\ \A b \in Actors : Holding(b)'
    BY <2>1, PrepareMoves DEF Pcs
  <2>3. rows' \subseteq Rows /\ misled' \subseteq Actors
    BY <1>1, <1>3 DEF Overwrite, Rest, Rows, Change, Reading
  <2> QED
    BY <1>1, <2>2, <2>3, TypesAfter DEF Rest, caches
<1> QED
  BY <1>2, <1>3

LEMMA WriteTypes ==
  ASSUME TypeInv, NEW a \in Actors, Write(a) \/ Abandon(a) PROVE TypeInv'
<1>1. Rest /\ act \in [Actors -> Acts] /\ act[a].val \in Cached
  BY TypeParts DEF TypeInv, Acts
<1>2. CASE Insert(a)
  <2>1. act' \in [Actors -> Acts] /\ \A b \in Actors : Holding(b)'
    BY <1>2, GotoMoves DEF Insert, Pcs
  <2>2. act[a].val \in Values
    BY <1>2 DEF Insert, TypeInv, Holding
  <2>3. rows' \subseteq Rows /\ misled' \subseteq Actors /\ doubled' \in BOOLEAN
    BY <1>1, <1>2, <2>2 DEF Insert, Rest, Rows, Change, Reading
  <2> QED
    BY <1>1, <1>2, <2>1, <2>3, TypesAfter DEF Insert, Rest, caches
<1>3. CASE Update(a)
  <2>1. act[a].val \in Values
    BY <1>3 DEF Update, TypeInv, Holding
  <2> QED
    BY <1>3, <2>1, OverwriteTypes DEF Update
<1>4. CASE PutRedis(a)
  <2>1. act' \in [Actors -> Acts] /\ \A b \in Actors : Holding(b)'
    BY <1>4, GotoMoves DEF PutRedis, Pcs
  <2> QED
    BY <1>1, <1>4, <2>1, TypesAfter DEF PutRedis, Rest, table
<1>5. CASE PutMemory(a)
  <2>1. act' \in [Actors -> Acts] /\ \A b \in Actors : Holding(b)'
    BY <1>5, FinishMoves DEF PutMemory
  <2>2. mem' \in [Nodes -> SUBSET Cached]
    BY <1>1, <1>5 DEF PutMemory, Rest
  <2> QED
    BY <1>1, <1>5, <2>1, <2>2, TypesAfter DEF PutMemory, Rest, table
<1>6. CASE Abandon(a)
  <2>1. act' \in [Actors -> Acts] /\ \A b \in Actors : Holding(b)'
    BY <1>6, FinishMoves DEF Abandon
  <2> QED
    BY <1>1, <1>6, <2>1, TypesAfter DEF Abandon, Rest, table, caches
<1> QED
  BY <1>2, <1>3, <1>4, <1>5, <1>6 DEF Write

LEMMA EditTypes ==
  ASSUME TypeInv, NEW e \in Edits, Edit(e) PROVE TypeInv'
<1>0. Rest /\ e \in Actors
  BY TypeParts DEF TypeInv, Actors
<1>1. CASE Create(e)
  <2>1. act' \in [Actors -> Acts] /\ \A b \in Actors : Holding(b)'
    <3>1. CASE \E f \in Drafts : Prepare(e, "insert", Document(e, f))
      BY <1>0, <3>1, PrepareMoves, Documents DEF Pcs, Cached
    <3>2. CASE Finish(e)
      BY <1>0, <3>2, FinishMoves
    <3> QED
      BY <1>1, <3>1, <3>2 DEF Create
  <2> QED
    BY <1>0, <1>1, <2>1, TypesAfter DEF Create, Rest, table, caches
<1>2. CASE Replace(e)
  BY <1>0, <1>2, OverwriteTypes, Documents DEF Replace
<1>3. CASE Delete(e)
  <2>1. act' \in [Actors -> Acts] /\ \A b \in Actors : Holding(b)'
    <3>1. CASE Prepare(e, "redis", Nothing)
      BY <1>0, <3>1, PrepareMoves DEF Pcs, Cached
    <3>2. CASE Finish(e)
      BY <1>0, <3>2, FinishMoves
    <3> QED
      BY <1>3, <3>1, <3>2 DEF Delete
  <2>2. rows' = {} /\ misled' \subseteq Actors
    BY <1>0, <1>3 DEF Delete, Rest, Change, Reading
  <2> QED
    BY <1>0, <1>3, <2>1, <2>2, TypesAfter DEF Delete, Rest, caches
<1> QED
  BY <1>1, <1>2, <1>3 DEF Edit

LEMMA TunerTypes ==
  ASSUME TypeInv, NEW k \in Tuners, TakeLock(k) \/ ReadConfig(k) \/ Clear(k)
  PROVE  TypeInv'
<1>0. Rest /\ k \in Actors /\ Stored \subseteq Values
  BY TypeParts DEF TypeInv, Actors, Stored, Rest, Rows
<1>1. CASE TakeLock(k)
  <2>1. act' \in [Actors -> Acts] /\ \A b \in Actors : Holding(b)'
    <3>1. Goto(k, "read") \/ Finish(k)
      BY <1>1 DEF TakeLock
    <3> QED
      BY <1>0, <3>1, GotoMoves, FinishMoves DEF Pcs
  <2>2. lock' \in BOOLEAN
    BY <1>0, <1>1 DEF TakeLock, Rest
  <2> QED
    BY <1>0, <1>1, <2>1, <2>2, TypesAfter DEF TakeLock, Rest, table, caches
<1>a. ASSUME NEW v \in Values, NEW busy \in SUBSET Segments,
             NEW pc \in {"insert", "update"}, Retune(k, v, busy, pc)
      PROVE  act' \in [Actors -> Acts] /\ \A b \in Actors : Holding(b)'
  <2>1. CASE Prepare(k, pc, [v EXCEPT !.entry = Tuned(v.entry, busy)])
    <3>1. [v EXCEPT !.entry = Tuned(v.entry, busy)] \in Values
      BY Documents
    <3> QED
      BY <1>0, <2>1, <3>1, PrepareMoves DEF Pcs, Cached
  <2>2. CASE Finish(k)
    BY <1>0, <2>2, FinishMoves
  <2> QED
    BY <1>a, <2>1, <2>2 DEF Retune
<1>2. CASE ReadConfig(k)
  <2>1. CASE Finish(k) /\ UNCHANGED misled
    <3>1. act' \in [Actors -> Acts] /\ \A b \in Actors : Holding(b)'
      BY <1>0, <2>1, FinishMoves
    <3> QED
      BY <1>0, <1>2, <2>1, <3>1, TypesAfter DEF ReadConfig, Rest, caches
  <2>2. CASE \E busy \in (SUBSET Segments) \ {{}} :
               /\ \/ \E v \in Stored : Retune(k, v, busy, "update")
                  \/ Retune(k, Blank, busy, "insert")
               /\ UNCHANGED misled \/ misled' = misled \cup {k}
    <3>1. act' \in [Actors -> Acts] /\ \A b \in Actors : Holding(b)'
      BY <1>0, <1>a, <2>2, Documents
    <3>2. misled' \subseteq Actors
      BY <1>0, <2>2 DEF Rest
    <3> QED
      BY <1>0, <1>2, <3>1, <3>2, TypesAfter DEF ReadConfig, Rest, caches
  <2> QED
    BY <1>2, <2>1, <2>2 DEF ReadConfig
<1>3. CASE Clear(k)
  <2>1. act' \in [Actors -> Acts] /\ \A b \in Actors : Holding(b)'
    <3>1. CASE Finish(k)
      BY <1>0, <3>1, FinishMoves
    <3>2. CASE \E v \in Stored :
                 Prepare(k, "update", [v EXCEPT !.entry = Untuned(v.entry)])
      BY <1>0, <3>2, PrepareMoves, Documents DEF Pcs, Cached
    <3> QED
      BY <1>3, <3>1, <3>2 DEF Clear
  <2> QED
    BY <1>0, <1>3, <2>1, TypesAfter DEF Clear, Rest, table, caches
<1> QED
  BY <1>1, <1>2, <1>3

\* Lookups, expiries and steps of no one leave the actors alone.
LEMMA OtherTypes ==
  ASSUME TypeInv,
         \/ \E n \in Nodes : LookRedis(n) \/ Answer(n) \/ Forget(n)
         \/ Expire
         \/ UNCHANGED vars
  PROVE  TypeInv' /\ UNCHANGED table /\ UNCHANGED act
<1>0. Rest /\ act \in [Actors -> Acts] /\ Stored \subseteq Values
      /\ \A a \in Actors : Holding(a)
  BY TypeParts DEF TypeInv, Stored, Rest, Rows
<1>1. UNCHANGED table /\ UNCHANGED act /\ UNCHANGED lock
  BY DEF LookRedis, Answer, LookTable, Share, Remember, Forget, Expire, vars, table
<1>2. (\A a \in Actors : Holding(a))'
  BY <1>0, <1>1 DEF Holding
<1>3. ASSUME NEW n \in Nodes, LookRedis(n) \/ Answer(n) \/ Forget(n) PROVE Rest'
  <2>0. look[n].val \in Cached
    BY <1>0 DEF Rest
  <2>1. CASE LookRedis(n) \/ LookTable(n)
    <3>1. PICK pc \in {"idle", "table", "share", "remember"}, v \in Cached :
            Looking(n, pc, v)
      BY <1>0, <2>1 DEF LookRedis, LookTable, Rest, Cached
    <3>2. look' \in [Nodes -> [pc : {"idle", "table", "share", "remember"},
                               val : Cached]]
      BY <1>0, <3>1 DEF Looking, Rest
    <3> QED
      BY <1>0, <1>1, <2>1, <3>2 DEF LookRedis, LookTable, Rest, table, caches
  <2>2. CASE Share(n)
    BY <1>0, <1>1, <2>0, <2>2 DEF Share, Looking, Rest, table
  <2>3. CASE Remember(n)
    BY <1>0, <1>1, <2>0, <2>3 DEF Remember, Looking, Rest, table, Cached
  <2>4. CASE Forget(n)
    BY <1>0, <1>1, <2>4 DEF Forget, Rest, table
  <2> QED
    BY <1>3, <2>1, <2>2, <2>3, <2>4 DEF Answer
<1>4. ASSUME Expire PROVE Rest'
  BY <1>0, <1>1, <1>4 DEF Expire, Rest, table
<1>5. ASSUME UNCHANGED vars PROVE Rest'
  BY <1>0, <1>5 DEF vars, Rest
<1>6. Rest'
  BY <1>3, <1>4, <1>5
<1>7. act' \in [Actors -> Acts]
  BY <1>0, <1>1
<1> QED
  BY <1>1, <1>2, <1>6, <1>7, TypesAfter

LEMMA InitTypes == Init => TypeInv
<1> SUFFICES ASSUME Init PROVE TypeInv
  OBVIOUS
<1>1. rows \subseteq Rows
  BY DEF Init, Rows, Values, Authors, Owners
<1>2. act \in [Actors -> Acts] /\ \A a \in Actors : act[a].pc = "idle"
  BY DEF Init, Idle, Acts, Pcs, Cached
<1>3. Rest
  BY <1>1 DEF Init, Rest, Idle, Cached
<1> QED
  BY <1>2, <1>3, TypeParts DEF TypeInv, Holding

LEMMA NextTypes == TypeInv /\ [Next]_vars => TypeInv'
BY WriteTypes, EditTypes, TunerTypes, OtherTypes DEF Next

\* Every variable keeps its type, in every instance (the whole module).
THEOREM TypesHold == Spec => []TypeOK
<1>1. TypeInv => TypeOK
  BY DEF TypeInv
<1> QED
  BY <1>1, InitTypes, NextTypes, PTL DEF Spec

-----------------------------------------------------------------------------
(* What an actor that is not misled is about to write fits the rows.       *)

\* An insert finds no row, and an update carries the operators' part of one.
Fitting(a) ==
  a \notin misled =>
    /\ act[a].pc = "insert" => rows = {}
    /\ act[a].pc = "update" =>
         \E q \in rows : OperatorsPart(act[a].val) = OperatorsPart(q.val)

IInv == TypeInv /\ (\A a \in Actors : Fitting(a)) /\ OneRowUnlessRaced

\* Whoever changes the rows misleads everybody else who is about to write.
LEMMA ChangeMisleads ==
  ASSUME TypeInv, NEW a \in Actors, Change(a), NEW r, act' = [act EXCEPT ![a] = r],
         r.pc \notin {"insert", "update"}
  PROVE  \A b \in Actors : Fitting(b)'
<1> SUFFICES ASSUME NEW b \in Actors PROVE Fitting(b)'
  OBVIOUS
<1>0. act \in [Actors -> Acts]
  BY TypeParts DEF TypeInv
<1>1. CASE b = a
  BY <1>0, <1>1 DEF Fitting
<1>2. CASE b # a
  BY <1>0, <1>2 DEF Fitting, Change, Reading
<1> QED
  BY <1>1, <1>2

\* Who leaves the rows alone and takes up nothing to write disturbs nobody.
LEMMA QuietStep ==
  ASSUME IInv, NEW a \in Actors, NEW r, act' = [act EXCEPT ![a] = r],
         r.pc \notin {"insert", "update"}, UNCHANGED table
  PROVE  (\A b \in Actors : Fitting(b)') /\ OneRowUnlessRaced'
<1>0. act \in [Actors -> Acts]
  BY TypeParts DEF IInv, TypeInv
<1>1. ASSUME NEW b \in Actors PROVE Fitting(b)'
  BY <1>0 DEF IInv, Fitting, table, OperatorsPart
<1> QED
  BY <1>1 DEF IInv, OneRowUnlessRaced, table

\* Who takes up something to write that fits disturbs nobody either.
LEMMA TakingUp ==
  ASSUME IInv, NEW a \in Actors, NEW pc, NEW v, Prepare(a, pc, v),
         UNCHANGED <<rows, doubled>>, misled' \in {misled, misled \cup {a}},
         a \notin misled' =>
           /\ pc = "insert" => rows = {}
           /\ pc = "update" =>
                \E q \in rows : OperatorsPart(v) = OperatorsPart(q.val)
  PROVE  (\A b \in Actors : Fitting(b)') /\ OneRowUnlessRaced'
<1>0. act \in [Actors -> Acts]
  BY TypeParts DEF IInv, TypeInv
<1>1. ASSUME NEW b \in Actors PROVE Fitting(b)'
  <2>1. CASE b = a
    <3>1. act'[b] = [pc |-> pc, val |-> v]
      BY <1>0, <2>1 DEF Prepare
    <3> QED
      BY <2>1, <3>1 DEF Fitting, OperatorsPart
  <2>2. CASE b # a
    <3>1. act'[b] = act[b] /\ Fitting(b)
      BY <1>0, <2>2 DEF Prepare, IInv
    <3> QED
      BY <2>2, <3>1 DEF Fitting, OperatorsPart
  <2> QED
    BY <2>1, <2>2
<1> QED
  BY <1>1 DEF IInv, OneRowUnlessRaced

LEMMA FinishQuiet ==
  ASSUME IInv, NEW a \in Actors, Finish(a), UNCHANGED table
  PROVE  (\A b \in Actors : Fitting(b)') /\ OneRowUnlessRaced'
<1>1. [Idle EXCEPT !.pc = "done"].pc = "done"
  BY DEF Idle
<1> QED
  BY <1>1, QuietStep DEF Finish

LEMMA GotoQuiet ==
  ASSUME IInv, NEW a \in Actors, NEW pc \in Pcs \ {"insert", "update"}, Goto(a, pc),
         UNCHANGED table
  PROVE  (\A b \in Actors : Fitting(b)') /\ OneRowUnlessRaced'
<1>0. act \in [Actors -> Acts]
  BY TypeParts DEF IInv, TypeInv
<1>1. [act[a] EXCEPT !.pc = pc].pc = pc
  BY <1>0 DEF Acts
<1>2. act' = [act EXCEPT ![a] = [act[a] EXCEPT !.pc = pc]]
  BY <1>0 DEF Goto
<1> QED
  BY <1>1, <1>2, QuietStep

\* All rows get one value: they stay one if they were one.
LEMMA OverwriteFits ==
  ASSUME IInv, NEW a \in Actors, NEW v, Overwrite(a, v), UNCHANGED doubled
  PROVE  (\A b \in Actors : Fitting(b)') /\ OneRowUnlessRaced'
<1>1. CASE rows = {}
  BY <1>1, FinishQuiet DEF Overwrite, table
<1>2. CASE rows # {}
  <2>1. \A b \in Actors : Fitting(b)'
    BY <1>2, ChangeMisleads DEF Overwrite, Prepare, IInv
  <2>2. OneRowUnlessRaced'
    BY <1>2 DEF Overwrite, OneRowUnlessRaced, IInv
  <2> QED
    BY <2>1, <2>2
<1> QED
  BY <1>1, <1>2

LEMMA WriteFits ==
  ASSUME IInv, NEW a \in Actors, Write(a) \/ Abandon(a)
  PROVE  (\A b \in Actors : Fitting(b)') /\ OneRowUnlessRaced'
<1>0. act \in [Actors -> Acts] /\ Fitting(a)
  BY TypeParts DEF IInv, TypeInv
<1>1. CASE Insert(a)
  <2>1. act' = [act EXCEPT ![a] = [act[a] EXCEPT !.pc = "redis"]]
        /\ [act[a] EXCEPT !.pc = "redis"].pc = "redis"
    BY <1>0, <1>1 DEF Insert, Goto, Acts
  <2>2. \A b \in Actors : Fitting(b)'
    BY <1>1, <2>1, ChangeMisleads DEF Insert, IInv
  <2>3. ~doubled' => rows = {}
    BY <1>0, <1>1 DEF Insert, Fitting
  <2>4. OneRowUnlessRaced'
    BY <1>1, <2>3 DEF Insert, OneRowUnlessRaced
  <2> QED
    BY <2>2, <2>4
<1>2. CASE Update(a)
  BY <1>2, OverwriteFits DEF Update
<1>3. CASE PutRedis(a)
  BY <1>3, GotoQuiet DEF PutRedis, Pcs
<1>4. CASE PutMemory(a) \/ Abandon(a)
  BY <1>4, FinishQuiet DEF PutMemory, Abandon
<1> QED
  BY <1>1, <1>2, <1>3, <1>4 DEF Write

LEMMA EditFits ==
  ASSUME IInv, NEW e \in Edits, Edit(e)
  PROVE  (\A b \in Actors : Fitting(b)') /\ OneRowUnlessRaced'
<1>0. e \in Actors
  BY DEF Actors
<1>1. CASE Create(e)
  <2>1. CASE rows = {}
    <3>1. PICK f \in Drafts : Prepare(e, "insert", Document(e, f))
      BY <1>1, <2>1 DEF Create
    <3> QED
      BY <1>0, <1>1, <2>1, <3>1, TakingUp DEF Create, table
  <2>2. CASE rows # {}
    BY <1>0, <1>1, <2>2, FinishQuiet DEF Create
  <2> QED
    BY <2>1, <2>2
<1>2. CASE Replace(e)
  BY <1>0, <1>2, OverwriteFits DEF Replace
<1>3. CASE Delete(e)
  <2>1. CASE rows = {}
    BY <1>0, <1>3, <2>1, FinishQuiet DEF Delete, table
  <2>2. CASE rows # {}
    <3>1. \A b \in Actors : Fitting(b)'
      BY <1>0, <1>3, <2>2, ChangeMisleads DEF Delete, Prepare, IInv
    <3>2. OneRowUnlessRaced'
      BY <1>3 DEF Delete, OneRowUnlessRaced
    <3> QED
      BY <3>1, <3>2
  <2> QED
    BY <2>1, <2>2
<1> QED
  BY <1>1, <1>2, <1>3 DEF Edit

\* The calibrator's changes are not of the operators' part.
LEMMA PartKept ==
  \A v \in Values, busy \in SUBSET Segments :
    /\ OperatorsPart([v EXCEPT !.entry = Tuned(v.entry, busy)]) = OperatorsPart(v)
    /\ OperatorsPart([v EXCEPT !.entry = Untuned(v.entry)]) = OperatorsPart(v)
<1> SUFFICES ASSUME NEW v \in Values, NEW busy \in SUBSET Segments
             PROVE  /\ OperatorsPart([v EXCEPT !.entry = Tuned(v.entry, busy)])
                         = OperatorsPart(v)
                    /\ OperatorsPart([v EXCEPT !.entry = Untuned(v.entry)])
                         = OperatorsPart(v)
  OBVIOUS
<1>1. \A s \in Segments :
        /\ Tuned(v.entry, busy)[s] = "human" <=> v.entry[s] = "human"
        /\ Untuned(v.entry)[s] = "human" <=> v.entry[s] = "human"
  BY DEF Tuned, Managed, Untuned
<1>2. /\ [v EXCEPT !.entry = Tuned(v.entry, busy)].entry = Tuned(v.entry, busy)
      /\ [v EXCEPT !.entry = Untuned(v.entry)].entry = Untuned(v.entry)
      /\ [v EXCEPT !.entry = Tuned(v.entry, busy)].op = v.op
      /\ [v EXCEPT !.entry = Untuned(v.entry)].op = v.op
  BY DEF Values
<1> QED
  BY <1>1, <1>2 DEF OperatorsPart

LEMMA TunerFits ==
  ASSUME IInv, NEW k \in Tuners, TakeLock(k) \/ ReadConfig(k) \/ Clear(k)
  PROVE  (\A b \in Actors : Fitting(b)') /\ OneRowUnlessRaced'
<1>0. /\ k \in Actors
      /\ \A v \in Stored : v \in Values /\ \E q \in rows : q.val = v
  BY TypeParts DEF IInv, TypeInv, Actors, Stored, Rest, Rows
<1>1. CASE TakeLock(k)
  <2>1. Goto(k, "read") \/ Finish(k)
    BY <1>1 DEF TakeLock
  <2> QED
    BY <1>0, <1>1, <2>1, GotoQuiet, FinishQuiet DEF TakeLock, Pcs
<1>2. CASE ReadConfig(k)
  <2>1. CASE Finish(k) /\ UNCHANGED misled
    BY <1>0, <1>2, <2>1, FinishQuiet DEF ReadConfig, table
  <2>2. ASSUME NEW busy \in SUBSET Segments, NEW v \in Stored,
               Retune(k, v, busy, "update"), UNCHANGED misled
        PROVE  (\A b \in Actors : Fitting(b)') /\ OneRowUnlessRaced'
    <3>1. CASE Finish(k)
      BY <1>0, <1>2, <2>2, <3>1, FinishQuiet DEF ReadConfig, table
    <3>2. CASE Prepare(k, "update", [v EXCEPT !.entry = Tuned(v.entry, busy)])
      <4>1. \E q \in rows : OperatorsPart([v EXCEPT !.entry = Tuned(v.entry, busy)])
                              = OperatorsPart(q.val)
        <5>1. PICK q \in rows : q.val = v
          BY <1>0
        <5>2. OperatorsPart([v EXCEPT !.entry = Tuned(v.entry, busy)])
                = OperatorsPart(v)
          BY <1>0, PartKept
        <5> QED
          BY <5>1, <5>2 DEF OperatorsPart
      <4> QED
        BY <1>0, <1>2, <2>2, <3>2, <4>1, TakingUp DEF ReadConfig
    <3> QED
      BY <2>2, <3>1, <3>2 DEF Retune
  <2>3. ASSUME NEW busy \in SUBSET Segments, Retune(k, Blank, busy, "insert"),
               (rows = {} /\ UNCHANGED misled) \/ misled' = misled \cup {k}
        PROVE  (\A b \in Actors : Fitting(b)') /\ OneRowUnlessRaced'
    <3>1. CASE Finish(k)
      <4>1. [Idle EXCEPT !.pc = "done"] = [pc |-> "done", val |-> Nothing]
        BY DEF Idle
      <4>2. Prepare(k, "done", Nothing)
        BY <3>1, <4>1 DEF Finish, Prepare
      <4> QED
        BY <1>0, <1>2, <2>3, <4>2, TakingUp DEF ReadConfig
    <3>2. CASE Prepare(k, "insert", [Blank EXCEPT !.entry = Tuned(Blank.entry, busy)])
      BY <1>0, <1>2, <2>3, <3>2, TakingUp DEF ReadConfig
    <3> QED
      BY <2>3, <3>1, <3>2 DEF Retune
  <2> QED
    BY <1>2, <2>1, <2>2, <2>3 DEF ReadConfig
<1>3. CASE Clear(k)
  <2>1. CASE Finish(k)
    BY <1>0, <1>3, <2>1, FinishQuiet DEF Clear
  <2>2. CASE \E v \in Stored :
               Prepare(k, "update", [v EXCEPT !.entry = Untuned(v.entry)])
    <3>1. PICK v \in Stored :
            Prepare(k, "update", [v EXCEPT !.entry = Untuned(v.entry)])
      BY <2>2
    <3>2. \E q \in rows : OperatorsPart([v EXCEPT !.entry = Untuned(v.entry)])
                            = OperatorsPart(q.val)
      <4>1. PICK q \in rows : q.val = v
        BY <1>0
      <4>2. OperatorsPart([v EXCEPT !.entry = Untuned(v.entry)]) = OperatorsPart(v)
        BY <1>0, PartKept
      <4> QED
        BY <4>1, <4>2 DEF OperatorsPart
    <3> QED
      BY <1>0, <1>3, <3>1, <3>2, TakingUp DEF Clear, table
  <2> QED
    BY <1>3, <2>1, <2>2 DEF Clear
<1> QED
  BY <1>1, <1>2, <1>3

LEMMA InitFits == Init => IInv
<1> SUFFICES ASSUME Init PROVE IInv
  OBVIOUS
<1>1. \A a \in Actors : Fitting(a)
  BY DEF Init, Idle, Fitting
<1>2. OneRowUnlessRaced
  BY DEF Init, OneRowUnlessRaced
<1> QED
  BY <1>1, <1>2, InitTypes DEF IInv

LEMMA NextFits == IInv /\ [Next]_vars => IInv'
<1> SUFFICES ASSUME IInv, [Next]_vars PROVE IInv'
  OBVIOUS
<1>1. TypeInv'
  BY NextTypes DEF IInv
<1>2. ASSUME \/ \E n \in Nodes : LookRedis(n) \/ Answer(n) \/ Forget(n)
             \/ Expire
             \/ UNCHANGED vars
      PROVE  (\A b \in Actors : Fitting(b)') /\ OneRowUnlessRaced'
  <2>1. UNCHANGED table /\ UNCHANGED act
    BY <1>2, OtherTypes DEF IInv
  <2> QED
    BY <2>1 DEF IInv, Fitting, OneRowUnlessRaced, table, OperatorsPart
<1>3. (\A b \in Actors : Fitting(b)') /\ OneRowUnlessRaced'
  BY <1>2, WriteFits, EditFits, TunerFits DEF Next
<1> QED
  BY <1>1, <1>3 DEF IInv

\* The name has one row, unless two actors that found none, or could not read,
\* both inserted: in every instance.
THEOREM OneRow == Spec => []OneRowUnlessRaced
<1>1. IInv => OneRowUnlessRaced
  BY DEF IInv
<1> QED
  BY <1>1, InitFits, NextFits, PTL DEF Spec

-----------------------------------------------------------------------------
(* What operators wrote survives tuning.                                   *)

\* An actor that goes from a write to Redis has taken that write.
LEMMA WhoWrites ==
  ASSUME IInv, [Next]_vars, NEW a \in Actors, Writes(a)
  PROVE  Insert(a) \/ Update(a)
<1>0. act \in [Actors -> Acts] /\ act[a].pc \in {"insert", "update"}
      /\ act'[a] # act[a]
  BY TypeParts DEF IInv, TypeInv, Writes
<1>1. ASSUME NEW b \in Actors, NEW r, act' = [act EXCEPT ![b] = r] PROVE b = a
  BY <1>0, <1>1
<1>2. ASSUME NEW b \in Actors, Write(b) \/ Abandon(b) PROVE Insert(a) \/ Update(a)
  <2>1. b = a
    BY <1>1, <1>2
       DEF Write, Abandon, Insert, Update, PutRedis, PutMemory, Goto, Finish,
           Overwrite, Prepare
  <2>2. ~PutRedis(a) /\ ~PutMemory(a)
    BY <1>0 DEF PutRedis, PutMemory
  <2>3. ~Abandon(a)
    BY <1>0 DEF Abandon, Finish, Idle, Writes
  <2> QED
    BY <1>2, <2>1, <2>2, <2>3 DEF Write
<1>3. ASSUME NEW e \in Edits, Edit(e) PROVE FALSE
  <2>1. e \in Actors /\ act[e].pc = "idle"
    BY <1>3 DEF Actors, Edit, Create, Replace, Delete
  <2>2. e = a
    BY <1>1, <1>3, <2>1
       DEF Edit, Create, Replace, Delete, Finish, Overwrite, Prepare
  <2> QED
    BY <1>0, <2>1, <2>2
<1>4. ASSUME NEW k \in Tuners, TakeLock(k) \/ ReadConfig(k) \/ Clear(k) PROVE FALSE
  <2>1. k \in Actors /\ act[k].pc \in {"idle", "read"}
    BY <1>4 DEF Actors, TakeLock, ReadConfig, Clear
  <2>2. k = a
    BY <1>1, <1>4, <2>1
       DEF TakeLock, ReadConfig, Clear, Retune, Finish, Goto, Prepare
  <2> QED
    BY <1>0, <2>1, <2>2
<1>5. ASSUME \/ \E n \in Nodes : LookRedis(n) \/ Answer(n) \/ Forget(n)
             \/ Expire
             \/ UNCHANGED vars
      PROVE  FALSE
  BY <1>0, <1>5, OtherTypes DEF IInv
<1> QED
  BY <1>2, <1>3, <1>4, <1>5 DEF Next

\* Calibrations and hard refreshes leave what operators wrote as it is, unless it was
\* written since they read it or that read failed: in every instance.
THEOREM OperatorsKept == Spec => TuningKeepsOperatorsPart
<1>1. ASSUME IInv, [Next]_vars, NEW a \in Tuners, Writes(a), a \notin misled
      PROVE  OperatorsPartKept
  <2>0. a \in Actors /\ Fitting(a)
    BY <1>1 DEF IInv, Actors
  <2>1. CASE Insert(a)
    BY <1>1, <2>0, <2>1 DEF Insert, Fitting, OperatorsPartKept
  <2>2. CASE Update(a)
    <3>1. CASE rows = {}
      BY <3>1 DEF OperatorsPartKept
    <3>2. CASE rows # {}
      <4>1. PICK q \in rows : OperatorsPart(act[a].val) = OperatorsPart(q.val)
        BY <1>1, <2>0, <2>2 DEF Update, Fitting
      <4>2. rows' = {[r EXCEPT !.val = act[a].val] : r \in rows}
        BY <2>2, <3>2 DEF Update, Overwrite
      <4>3. \A r \in rows : [r EXCEPT !.val = act[a].val].val = act[a].val
        BY TypeParts, <1>1 DEF IInv, TypeInv, Rest, Rows
      <4>4. \A r \in rows' : r.val = act[a].val
        BY <4>2, <4>3
      <4> QED
        BY <4>1, <4>4 DEF OperatorsPartKept, OperatorsPart
    <3> QED
      BY <3>1, <3>2
  <2> QED
    BY <1>1, <2>0, <2>1, <2>2, WhoWrites
<1>2. IInv /\ [Next]_vars
        => [\A a \in Tuners : Writes(a) => a \in misled \/ OperatorsPartKept]_vars
  BY <1>1
<1> QED
  BY <1>2, InitFits, NextFits, PTL DEF Spec, TuningKeepsOperatorsPart
=============================================================================
