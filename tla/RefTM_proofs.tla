---------------------------- MODULE RefTM_proofs ----------------------------
(***************************************************************************)
(* For any threads, words and segments: the lock of the reference keeps a  *)
(* writer alone, and therefore changing the memory in place implements the *)
(* serial memory of module SerialTM; its list of segments is intact.       *)
(***************************************************************************)
EXTENDS RefTM, Sequences, TLAPS, SequenceTheorems, FiniteSetTheorems, WellFoundedInduction

\* Who is inside tm_alloc or tm_free: a writer, with a segment of its own.
CallsOfWriters ==
    \A t \in Threads : pc[t] # "client" => tx[t] = "rw" /\ seg[t] \in live

\* Without a writer the memory is the committed one, until tm_destroy.
CommittedInPlace ==
    /\ (up = "up" /\ writer = None) => committed = Contents
    /\ up # "up" => \A t \in Threads : tx[t] = "none"

IInv == TypeOK /\ Exclusion /\ CallsOfWriters /\ CommittedInPlace

USE ConstantsOk

LEMMA ContentsType ==
    ASSUME TypeOK
    PROVE  /\ Contents \in [Words \cup Usable -> Values]
           /\ Contents \in UNION {[Words \cup S -> Values] : S \in SUBSET Segments}
<1>1. Usable \subseteq Segments
  BY DEF TypeOK, Usable
<1>2. Contents \in [Words \cup Usable -> Values]
  BY <1>1 DEF TypeOK, Contents
<1> QED
  BY <1>1, <1>2

LEMMA InitInv == Init => IInv
<1> SUFFICES ASSUME Init PROVE IInv
  OBVIOUS
<1>1. /\ TypeOK!1 /\ TypeOK!2 /\ TypeOK!3 /\ TypeOK!4 /\ TypeOK!5 /\ TypeOK!6
      /\ TypeOK!7 /\ TypeOK!8 /\ TypeOK!9 /\ TypeOK!10
  BY DEF Init
<1>2. committed \in [Words \cup {} -> Values]
  BY DEF Init
<1>3. committed \in UNION {[Words \cup S -> Values] : S \in SUBSET Segments}
  BY <1>2
<1>4. Usable = {}
  BY DEF Init, Usable
<1>5. committed = Contents
  BY <1>4 DEF Init, Contents
<1>6. Exclusion /\ CallsOfWriters /\ CommittedInPlace
  BY <1>5 DEF Init, Exclusion, CallsOfWriters, CommittedInPlace
<1> QED
  BY <1>1, <1>3, <1>6 DEF IInv, TypeOK

\* Each step keeps the types.
LEMMA TypeNext == IInv /\ [Next]_vars => TypeOK'
<1> SUFFICES ASSUME IInv, [Next]_vars PROVE TypeOK'
  OBVIOUS
<1> USE DEF IInv, TypeOK
<1>1. ASSUME NEW t \in Threads, NEW is_ro \in BOOLEAN, tm_begin(t, is_ro)
      PROVE  TypeOK'
  BY <1>1 DEF Handle, tm_begin, list
<1>2. ASSUME NEW t \in Threads, tm_end(t)
      PROVE  TypeOK'
  <2>1. committed' \in UNION {[Words \cup S -> Values] : S \in SUBSET Segments}
    BY <1>2, ContentsType DEF tm_end
  <2> QED
    BY <1>2, <2>1 DEF tm_end, list
<1>3. ASSUME NEW t \in Threads, NEW a \in Words \cup Segments, tm_read(t, a)
      PROVE  TypeOK'
  BY <1>3 DEF tm_read, list, lock
<1>4. ASSUME NEW t \in Threads, NEW a \in Words \cup Segments, NEW v \in Values,
             tm_write(t, a, v)
      PROVE  TypeOK'
  BY <1>4 DEF tm_write, list, lock
<1>5. ASSUME NEW t \in Threads, NEW s \in Segments, tm_alloc(t, s)
      PROVE  TypeOK'
  BY <1>5 DEF tm_alloc, list, lock
<1>6. ASSUME NEW t \in Threads, tm_alloc_link(t)
      PROVE  TypeOK'
  <2>1. seg[t] \in Segments
    BY <1>6 DEF tm_alloc_link, CallsOfWriters
  <2> QED
    BY <1>6, <2>1 DEF tm_alloc_link, Prepended, lock
<1>7. ASSUME NEW t \in Threads, NEW s \in Segments, tm_free(t, s)
      PROVE  TypeOK'
  BY <1>7 DEF tm_free, lock
<1>8. ASSUME NEW t \in Threads, tm_free_unlink(t)
      PROVE  TypeOK'
  <2>1. seg[t] \in Segments
    BY <1>8 DEF tm_free_unlink, CallsOfWriters
  <2> QED
    BY <1>8, <2>1 DEF tm_free_unlink, Bypassed, lock
<1>9. CASE tm_destroy
  <2>1. CASE allocs = None
    BY <1>9, <2>1 DEF tm_destroy, list, lock
  <2>2. CASE allocs # None
    <3>1. /\ live' = live \ {allocs} /\ allocs' = next[allocs] /\ up' = "destroying"
          /\ prev' = [prev EXCEPT ![allocs] = None] /\ next' = [next EXCEPT ![allocs] = None]
          /\ UNCHANGED <<readers, writer, tx, mem, pc, seg, result, committed>>
      BY <1>9, <2>2 DEF tm_destroy, AfterFirst, lock
    <3>2. allocs' \in Segments \cup {None}
      BY <2>2, <3>1
    <3> QED
      BY <3>1, <3>2
  <2> QED
    BY <2>1, <2>2
<1>10. CASE UNCHANGED vars
  BY <1>10 DEF vars, list, lock
<1> HIDE DEF IInv, TypeOK
<1> QED
  BY <1>1, <1>2, <1>3, <1>4, <1>5, <1>6, <1>7, <1>8, <1>9, <1>10 DEF Next, Done

\* Each step keeps the lock and the handles in agreement.
LEMMA ExclusionNext == IInv /\ [Next]_vars => Exclusion'
<1> SUFFICES ASSUME IInv, [Next]_vars PROVE Exclusion'
  OBVIOUS
<1> USE DEF IInv, TypeOK, Exclusion
<1>1. ASSUME NEW t \in Threads, NEW is_ro \in BOOLEAN, tm_begin(t, is_ro)
      PROVE  Exclusion'
  BY <1>1 DEF Handle, tm_begin, CanShare, CanOwn
<1>2. ASSUME NEW t \in Threads, tm_end(t)
      PROVE  Exclusion'
  <2>1. CASE tx[t] = "ro"
    BY <1>2, <2>1 DEF tm_end
  <2>2. CASE tx[t] = "rw"
    BY <1>2, <2>2 DEF tm_end
  <2> QED
    BY <1>2, <2>1, <2>2 DEF tm_end
<1>3. CASE UNCHANGED <<lock, tx>>
  BY <1>3 DEF lock
<1> HIDE DEF IInv, TypeOK, Exclusion
<1> QED
  BY <1>1, <1>2, <1>3 DEF Next, Done, vars, tm_read, tm_write, tm_alloc, tm_alloc_link,
     tm_free, tm_free_unlink, tm_destroy

\* A writer is alone, so all other threads are out of every call.
LEMMA WriterAlone ==
    ASSUME IInv, NEW t \in Threads, tx[t] = "rw"
    PROVE  /\ writer = t /\ up = "up"
           /\ \A u \in Threads \ {t} : tx[u] = "none" /\ pc[u] = "client"
BY DEF IInv, Exclusion, CallsOfWriters, CommittedInPlace, TypeOK

LEMMA ContentsDomain == DOMAIN Contents = Words \cup Usable
BY DEF Contents

\* What the steps of a writer do to the memory clients see.
LEMMA ContentsSteps ==
    ASSUME IInv, NEW t \in Threads
    PROVE  /\ \A a \in Words \cup Segments, v \in Values :
                tm_write(t, a, v) => Contents' = [Contents EXCEPT ![a] = v]
           /\ \A s \in Segments : tm_alloc(t, s) => Contents' = Contents
           /\ tm_alloc_link(t) =>
                /\ seg[t] \in Segments \ DOMAIN Contents
                /\ Contents' = [a \in DOMAIN Contents \cup {seg[t]} |->
                                  IF a = seg[t] THEN Zero ELSE Contents[a]]
           /\ \A s \in Segments : tm_free(t, s) =>
                /\ s \in DOMAIN Contents
                /\ Contents' = [a \in DOMAIN Contents \ {s} |-> Contents[a]]
           /\ tm_free_unlink(t) => Contents' = Contents
<1> USE DEF IInv
<1>1. ASSUME NEW a \in Words \cup Segments, NEW v \in Values, tm_write(t, a, v)
      PROVE  Contents' = [Contents EXCEPT ![a] = v]
  <2>1. Usable' = Usable
    BY <1>1 DEF tm_write, Usable, list
  <2>2. Usable \subseteq Segments /\ mem' = [mem EXCEPT ![a] = v]
    BY <1>1 DEF tm_write, Usable, TypeOK
  <2>3. \A b \in Words \cup Usable : mem'[b] = IF b = a THEN v ELSE mem[b]
    BY <2>2 DEF TypeOK
  <2> QED
    BY <2>1, <2>3 DEF Contents
<1>2. ASSUME NEW s \in Segments, tm_alloc(t, s)
      PROVE  Contents' = Contents
  <2>1. Usable' = Usable
    <3>1. \A u \in Threads \ {t} : pc[u] = "client"
      BY <1>2, WriterAlone DEF tm_alloc, Writing
    <3> QED
      BY <1>2, <3>1 DEF tm_alloc, Writing, Usable, TypeOK
  <2> QED
    BY <1>2, <2>1 DEF tm_alloc, Contents
<1>3. ASSUME tm_alloc_link(t)
      PROVE  /\ seg[t] \in Segments \ DOMAIN Contents
             /\ Contents' = [a \in DOMAIN Contents \cup {seg[t]} |->
                               IF a = seg[t] THEN Zero ELSE Contents[a]]
  <2>1. /\ pc[t] # "client" /\ tx[t] = "rw" /\ seg[t] \in live
        /\ \A u \in Threads \ {t} : pc[u] = "client"
    BY <1>3, WriterAlone DEF tm_alloc_link, CallsOfWriters
  <2>2. seg[t] \notin Usable /\ Usable' = Usable \cup {seg[t]}
    BY <1>3, <2>1 DEF tm_alloc_link, Usable, TypeOK
  <2>3. seg[t] \in Segments /\ seg[t] \notin DOMAIN Contents
    BY <2>1, <2>2, ContentsDomain DEF TypeOK
  <2> QED
    BY <1>3, <2>2, <2>3 DEF tm_alloc_link, Contents, TypeOK
<1>4. ASSUME NEW s \in Segments, tm_free(t, s)
      PROVE  /\ s \in DOMAIN Contents
             /\ Contents' = [a \in DOMAIN Contents \ {s} |-> Contents[a]]
  <2>1. Usable' = Usable \ {s} /\ s \in Usable
    <3>1. \A u \in Threads \ {t} : pc[u] = "client"
      BY <1>4, WriterAlone DEF tm_free, Writing
    <3> QED
      BY <1>4, <3>1 DEF tm_free, Writing, Usable, TypeOK
  <2> QED
    BY <1>4, <2>1 DEF tm_free, Contents
<1>5. ASSUME tm_free_unlink(t)
      PROVE  Contents' = Contents
  <2>1. pc[t] # "client" /\ \A u \in Threads \ {t} : pc[u] = "client"
    BY <1>5, WriterAlone DEF tm_free_unlink, CallsOfWriters
  <2>2. Usable' = Usable
    BY <1>5, <2>1 DEF tm_free_unlink, Usable, TypeOK
  <2> QED
    BY <1>5, <2>2 DEF tm_free_unlink, Contents
<1> QED
  BY <1>1, <1>2, <1>3, <1>4, <1>5

\* Steps inside tm_alloc and tm_free belong to writers.
LEMMA CallsNext == IInv /\ [Next]_vars => CallsOfWriters'
<1> SUFFICES ASSUME IInv, [Next]_vars PROVE CallsOfWriters'
  OBVIOUS
<1> USE DEF IInv, TypeOK, CallsOfWriters
<1>1. ASSUME NEW t \in Threads, NEW is_ro \in BOOLEAN, tm_begin(t, is_ro)
      PROVE  CallsOfWriters'
  BY <1>1 DEF Handle, tm_begin, list
<1>2. ASSUME NEW t \in Threads, tm_end(t)
      PROVE  CallsOfWriters'
  BY <1>2 DEF tm_end, list
<1>3. ASSUME NEW t \in Threads, NEW s \in Segments, tm_alloc(t, s)
      PROVE  CallsOfWriters'
  BY <1>3 DEF tm_alloc, Writing
<1>4. ASSUME NEW t \in Threads, tm_alloc_link(t)
      PROVE  CallsOfWriters'
  BY <1>4 DEF tm_alloc_link
<1>5. ASSUME NEW t \in Threads, NEW s \in Segments, tm_free(t, s)
      PROVE  CallsOfWriters'
  BY <1>5 DEF tm_free, Writing, Usable
<1>6. ASSUME NEW t \in Threads, tm_free_unlink(t)
      PROVE  CallsOfWriters'
  <2>1. \A u \in Threads \ {t} : pc[u] = "client"
    BY <1>6, WriterAlone DEF tm_free_unlink
  <2> QED
    BY <1>6, <2>1 DEF tm_free_unlink
<1>7. CASE tm_destroy
  BY <1>7 DEF tm_destroy
<1>8. CASE UNCHANGED <<tx, list, pc, seg>>
  BY <1>8 DEF list
<1> HIDE DEF IInv, TypeOK, CallsOfWriters
<1> QED
  BY <1>1, <1>2, <1>3, <1>4, <1>5, <1>6, <1>7, <1>8
     DEF Next, Done, vars, tm_read, tm_write

\* Without a writer nothing changes the memory; tm_end makes the writer's
\* memory the committed one.
LEMMA CommittedNext == IInv /\ [Next]_vars => CommittedInPlace'
<1> SUFFICES ASSUME IInv, [Next]_vars PROVE CommittedInPlace'
  OBVIOUS
<1> USE DEF IInv, CommittedInPlace
<1>1. ASSUME NEW t \in Threads, NEW is_ro \in BOOLEAN, tm_begin(t, is_ro)
      PROVE  CommittedInPlace'
  <2>1. Contents' = Contents
    BY <1>1 DEF Handle, tm_begin, Contents, Usable, list
  <2> QED
    BY <1>1, <2>1 DEF Handle, tm_begin, CanShare, CanOwn
<1>2. ASSUME NEW t \in Threads, tm_end(t)
      PROVE  CommittedInPlace'
  <2>1. Contents' = Contents
    BY <1>2 DEF tm_end, Contents, Usable, list
  <2>2. up = "up"
    BY <1>2 DEF tm_end
  <2>3. tx[t] # "ro" => tx[t] = "rw"
    BY <1>2 DEF tm_end, TypeOK
  <2> QED
    BY <1>2, <2>1, <2>2, <2>3 DEF tm_end
<1>3. ASSUME NEW t \in Threads, tx[t] = "rw", UNCHANGED <<writer, tx, up>>
      PROVE  CommittedInPlace'
  BY <1>3, WriterAlone
<1>4. ASSUME NEW t \in Threads, NEW a \in Words \cup Segments, NEW v \in Values,
             \/ tm_write(t, a, v)
             \/ a \in Segments /\ (tm_alloc(t, a) \/ tm_free(t, a))
             \/ tm_alloc_link(t) \/ tm_free_unlink(t)
      PROVE  CommittedInPlace'
  <2>1. tx[t] = "rw"
    BY <1>4 DEF tm_write, tm_alloc, tm_free, tm_alloc_link, tm_free_unlink, Writing,
       CallsOfWriters
  <2>2. UNCHANGED <<writer, tx, up>>
    BY <1>4 DEF tm_write, tm_alloc, tm_free, tm_alloc_link, tm_free_unlink, lock
  <2> QED
    BY <1>3, <2>1, <2>2
<1>5. CASE tm_destroy
  BY <1>5 DEF tm_destroy
<1>6. CASE UNCHANGED <<lock, tx, mem, list, pc, seg, up, committed>>
  <2>1. Contents' = Contents
    BY <1>6 DEF Contents, Usable, list
  <2> QED
    BY <1>6, <2>1 DEF lock
<1> HIDE DEF IInv, CommittedInPlace
<1>7. ASSUME NEW t \in Threads, tm_alloc_link(t) \/ tm_free_unlink(t)
      PROVE  CommittedInPlace'
  <2>1. PICK s \in Segments : s = seg[t]
    BY <1>7 DEF tm_alloc_link, tm_free_unlink, IInv, CallsOfWriters, TypeOK
  <2> QED
    BY <1>4, <1>7, <2>1
<1> QED
  BY <1>1, <1>2, <1>4, <1>5, <1>6, <1>7 DEF Next, Done, vars, tm_read

-----------------------------------------------------------------------------

\* The inductive invariant of the reference.
THEOREM Invariance == Spec => []IInv
<1>1. IInv /\ [Next]_vars => IInv'
  BY TypeNext, ExclusionNext, CallsNext, CommittedNext DEF IInv
<1> QED
  BY <1>1, InitInv, PTL DEF Spec

\* The state of the reference is well typed (TypeOK).
THEOREM TypeCorrect == Spec => []TypeOK
BY Invariance, PTL DEF IInv

\* The handles agree with the lock, and a read-write transaction is alone
\* (tm_begin and tm_end of reference/tm.c).
THEOREM WriterExcludes == Spec => []Exclusion
BY Invariance, PTL DEF IInv

-----------------------------------------------------------------------------

\* A step that touches nothing the mapping looks at.
LEMMA Stutter ==
    ASSUME Contents' = Contents, UNCHANGED <<tx, result, committed>>
    PROVE  UNCHANGED Serial!vars
BY DEF Serial!vars, SerialBase, SerialView

\* A change of the memory by its writer is a change of that writer's view.
LEMMA WriterChanges ==
    ASSUME IInv, NEW t \in Threads, tx[t] = "rw", UNCHANGED <<tx, result, committed>>
    PROVE  Serial!Change(t, Contents')
<1>1. SerialBase' = SerialBase
  BY DEF SerialBase
<1>2. SerialView' = [SerialView EXCEPT ![t] = Contents']
  <2>1. \A u \in Threads \ {t} : tx[u] = "none"
    BY WriterAlone
  <2> QED
    BY <2>1 DEF SerialView
<1> QED
  BY <1>1, <1>2 DEF Serial!Change

\* Every step of the reference is a step of the serial memory, or none.
LEMMA StepRefines == IInv /\ [Next]_vars => [Serial!Next]_(Serial!vars)
<1> SUFFICES ASSUME IInv, [Next]_vars PROVE Serial!Next \/ UNCHANGED Serial!vars
  OBVIOUS
<1>0. \A t \in Threads : tx[t] # "none" => SerialView[t] = Contents
  BY DEF SerialView
<1>1. ASSUME NEW t \in Threads, NEW is_ro \in BOOLEAN, tm_begin(t, is_ro)
      PROVE  Serial!Next
  <2>1. Contents' = Contents
    BY <1>1 DEF Handle, tm_begin, Contents, Usable, list
  <2>2. committed = Contents
    BY <1>1 DEF Handle, tm_begin, CanShare, CanOwn, IInv, CommittedInPlace
  <2> DEFINE m == Handle(is_ro)
  <2>3. /\ tx[t] = "none" /\ tx' = [tx EXCEPT ![t] = m]
        /\ UNCHANGED <<committed, result>>
    BY <1>1 DEF tm_begin
  <2>4. m \in {"ro", "rw"}
    BY DEF Handle
  <2> HIDE DEF m
  <2>5. SerialBase' = [SerialBase EXCEPT ![t] = committed]
    BY <2>3, <2>4 DEF SerialBase, IInv, TypeOK
  <2>6. SerialView' = [SerialView EXCEPT ![t] = committed]
    BY <2>1, <2>2, <2>3, <2>4 DEF SerialView, IInv, TypeOK
  <2>7. Serial!Begin(t, m)
    BY <2>3, <2>5, <2>6 DEF Serial!Begin
  <2> QED
    BY <2>4, <2>7 DEF Serial!Next
<1>2. ASSUME NEW t \in Threads, tm_end(t)
      PROVE  Serial!Next
  <2>1. Contents' = Contents
    BY <1>2 DEF tm_end, Contents, Usable, list
  <2>2. tx[t] # "none" /\ tx' = [tx EXCEPT ![t] = "none"] /\ result' = result
    BY <1>2 DEF tm_end
  <2>3. committed' = IF tx[t] = "rw" THEN Contents ELSE committed
    BY <1>2 DEF tm_end, IInv, TypeOK
  <2>4. tx[t] = "rw" => \A u \in Threads \ {t} : tx[u] = "none"
    BY WriterAlone
  <2>5. SerialBase' = [SerialBase EXCEPT ![t] = None]
    BY <2>2, <2>3, <2>4 DEF SerialBase, IInv, TypeOK
  <2>6. SerialView' = [SerialView EXCEPT ![t] = None]
    BY <2>1, <2>2 DEF SerialView, IInv, TypeOK
  <2>7. SerialBase[t] = committed
    BY <2>2 DEF SerialBase
  <2>8. Serial!End(t)
    BY <1>0, <2>2, <2>3, <2>5, <2>6, <2>7 DEF Serial!End
  <2> QED
    BY <2>8 DEF Serial!Next
<1>3. ASSUME NEW t \in Threads, NEW a \in Words \cup Segments, tm_read(t, a)
      PROVE  Serial!Next
  <2>1. Contents' = Contents
    BY <1>3 DEF tm_read, Contents, Usable, list
  <2>2. tx[t] # "none" /\ a \in DOMAIN Contents /\ UNCHANGED <<tx, committed>>
    BY <1>3 DEF tm_read, Contents
  <2>3. result' = [result EXCEPT ![t] = Contents[a]]
    BY <1>3 DEF tm_read, Contents
  <2>4. Serial!Read(t, a)
    BY <1>0, <2>1, <2>2, <2>3 DEF Serial!Read, SerialBase, SerialView
  <2> QED
    BY <2>4 DEF Serial!Next
<1>4. ASSUME NEW t \in Threads, NEW a \in Words \cup Segments, NEW v \in Values,
             tm_write(t, a, v)
      PROVE  Serial!Next
  <2>1. tx[t] = "rw" /\ a \in DOMAIN Contents /\ UNCHANGED <<tx, committed, result>>
    BY <1>4 DEF tm_write, Writing, Contents
  <2>2. Contents' = [Contents EXCEPT ![a] = v]
    BY <1>4, ContentsSteps
  <2>3. Serial!Write(t, a, v)
    BY <1>0, <2>1, <2>2, WriterChanges DEF Serial!Write
  <2> QED
    BY <2>1, <2>3 DEF Serial!Next
<1>5. ASSUME NEW t \in Threads, NEW s \in Segments, tm_alloc(t, s)
      PROVE  UNCHANGED Serial!vars
  <2>1. Contents' = Contents
    BY <1>5, ContentsSteps
  <2> QED
    BY <1>5, <2>1, Stutter DEF tm_alloc
<1>6. ASSUME NEW t \in Threads, tm_alloc_link(t)
      PROVE  Serial!Next
  <2>1. tx[t] = "rw" /\ UNCHANGED <<tx, committed, result>>
    BY <1>6 DEF tm_alloc_link, IInv, CallsOfWriters
  <2>2. seg[t] \in Segments \ DOMAIN Contents
    BY <1>6, ContentsSteps
  <2>3. Contents' = [a \in DOMAIN Contents \cup {seg[t]} |->
                       IF a = seg[t] THEN Zero ELSE Contents[a]]
    BY <1>6, ContentsSteps
  <2>4. Serial!Alloc(t, seg[t])
    BY <1>0, <2>1, <2>2, <2>3, WriterChanges DEF Serial!Alloc
  <2> QED
    BY <2>1, <2>2, <2>4 DEF Serial!Next
<1>7. ASSUME NEW t \in Threads, NEW s \in Segments, tm_free(t, s)
      PROVE  Serial!Next
  <2>1. tx[t] = "rw" /\ UNCHANGED <<tx, committed, result>>
    BY <1>7 DEF tm_free, Writing
  <2>2. s \in DOMAIN Contents /\ Contents' = [a \in DOMAIN Contents \ {s} |-> Contents[a]]
    BY <1>7, ContentsSteps
  <2>3. Serial!Free(t, s)
    BY <1>0, <2>1, <2>2, WriterChanges DEF Serial!Free
  <2> QED
    BY <2>1, <2>3 DEF Serial!Next
<1>8. ASSUME NEW t \in Threads, tm_free_unlink(t)
      PROVE  UNCHANGED Serial!vars
  <2>1. Contents' = Contents
    BY <1>8, ContentsSteps
  <2> QED
    BY <1>8, <2>1, Stutter DEF tm_free_unlink
<1>9. CASE tm_destroy
  <2>1. \A t \in Threads : tx[t] = "none"
    BY <1>9 DEF tm_destroy
  <2>2. UNCHANGED <<tx, result, committed>>
    BY <1>9 DEF tm_destroy
  <2> QED
    BY <2>1, <2>2 DEF Serial!vars, SerialBase, SerialView
<1>10. CASE UNCHANGED vars
  <2>1. Contents' = Contents
    BY <1>10 DEF vars, list, Contents, Usable
  <2> QED
    BY <1>10, <2>1, Stutter DEF vars
<1> QED
  BY <1>1, <1>2, <1>3, <1>4, <1>5, <1>6, <1>7, <1>8, <1>9, <1>10 DEF Next, Done

\* The reference implements the serial memory (ImplementsSerial): whatever the
\* threads do, transactions read and write as if each ran alone.
THEOREM ReferenceIsSerial == Spec => ImplementsSerial
<1>1. Init => Serial!Init
  <2> SUFFICES ASSUME Init PROVE Serial!Init
    OBVIOUS
  <2>1. SerialBase = [t \in Threads |-> None] /\ SerialView = [t \in Threads |-> None]
    BY DEF Init, SerialBase, SerialView
  <2> QED
    BY <2>1 DEF Init, Serial!Init
<1>2. IInv /\ [Next]_vars => [Serial!Next]_(Serial!vars)
  BY StepRefines
<1> QED
  BY <1>1, <1>2, Invariance, PTL DEF Spec, ImplementsSerial, Serial!Spec

-----------------------------------------------------------------------------
(* The list of segments *)

\* The i-th segment of s, None before the first and after the last.
At(s, i) == IF i \in 1..Len(s) THEN s[i] ELSE None

Elems(s) == {s[i] : i \in 1..Len(s)}

Distinct(s) == \A i, j \in 1..Len(s) : s[i] = s[j] => i = j

\* s is the list: its segments, in this order, are linked from allocs on.
Forward(s) ==
    /\ s \in Seq(Segments)
    /\ Distinct(s)
    /\ allocs = At(s, 1)
    /\ \A i \in 1..Len(s) : next[s[i]] = At(s, i + 1)

Backward(s) == \A i \in 1..Len(s) : prev[s[i]] = At(s, i - 1)

\* Segment x has left the list before its i-th segment, which points to it still.
Leaving(s, x, i) ==
    /\ next[x] = At(s, i)
    /\ prev[x] = At(s, i - 1)
    /\ \A j \in 1..Len(s) : prev[s[j]] = IF j = i THEN x ELSE At(s, j - 1)

\* The segments clients may name are the list, which a call of tm_alloc is
\* about to extend, and whose back pointers one of tm_free is about to repair.
Listed(s) ==
    /\ Forward(s)
    /\ Elems(s) = Usable
    /\ \A t \in Threads : pc[t] = "alloc" => next[seg[t]] = allocs /\ prev[seg[t]] = None
    /\ (up = "up" /\ \A t \in Threads : pc[t] # "free") => Backward(s)
    /\ \A t \in Threads : pc[t] = "free" => \E i \in 1..(Len(s) + 1) : Leaving(s, seg[t], i)
    /\ up = "down" => live = {}

ListInv == \E s \in Seq(Segments) : Listed(s)

\* What membership in Seq says.
LEMMA SeqFacts ==
    ASSUME NEW s \in Seq(Segments)
    PROVE  /\ Len(s) \in Nat
           /\ \A i \in 1..Len(s) : s[i] \in Segments /\ s[i] # None /\ s[i] \in Elems(s)
           /\ \A i : At(s, i) \in Segments \cup {None}
           /\ \A i \in 1..Len(s) : At(s, i) = s[i]
           /\ At(s, 0) = None /\ At(s, Len(s) + 1) = None
           /\ At(s, 1) = None <=> Len(s) = 0
           /\ Elems(s) \subseteq Segments
<1>1. Len(s) \in Nat /\ \A i \in 1..Len(s) : s[i] \in Segments
  BY LenProperties, ElementOfSeq
<1>2. \A i \in 1..Len(s) : s[i] \in Segments /\ s[i] # None
  BY <1>1, ConstantsOk
<1>3. \A i \in 1..Len(s) : s[i] \in Elems(s) /\ At(s, i) = s[i]
  BY DEF At, Elems
<1>4. \A i : At(s, i) \in Segments \cup {None}
  <2>1. ASSUME NEW i PROVE At(s, i) \in Segments \cup {None}
    <3>1. CASE i \in 1..Len(s)
      BY <1>2, <3>1 DEF At
    <3>2. CASE i \notin 1..Len(s)
      BY <3>2 DEF At
    <3>. QED
      BY <3>1, <3>2
  <2>. QED
    BY <2>1
<1>5. At(s, 0) = None /\ At(s, Len(s) + 1) = None
  <2>1. 0 \notin 1..Len(s) /\ Len(s) + 1 \notin 1..Len(s)
    BY <1>1
  <2>. QED
    BY <2>1 DEF At
<1>6. At(s, 1) = None <=> Len(s) = 0
  <2>1. CASE Len(s) = 0
    <3>1. 1 \notin 1..Len(s)
      BY <2>1
    <3>. QED
      BY <2>1, <3>1 DEF At
  <2>2. CASE Len(s) # 0
    <3>1. 1 \in 1..Len(s)
      BY <1>1, <2>2
    <3>. QED
      BY <1>2, <2>2, <3>1 DEF At
  <2>. QED
    BY <2>1, <2>2
<1>7. Elems(s) \subseteq Segments
  BY <1>2 DEF Elems
<1>. QED
  BY <1>1, <1>2, <1>3, <1>4, <1>5, <1>6, <1>7

\* A step that leaves the list, the calls and the region alone.
LEMMA ListSame ==
    ASSUME NEW s, Listed(s), UNCHANGED <<list, pc, seg, up>>
    PROVE  Listed(s)'
BY DEF Listed, Forward, Distinct, Backward, Leaving, Usable, list, At

\* The thread inside a call is alone.
LEMMA InCall ==
    ASSUME IInv, NEW t \in Threads, pc[t] # "client"
    PROVE  /\ up = "up"
           /\ seg[t] \in live /\ seg[t] \in Segments /\ seg[t] # None
           /\ \A u \in Threads \ {t} : pc[u] = "client"
           /\ Usable = live \ {seg[t]}
<1>1. /\ seg[t] \in live /\ tx[t] = "rw" /\ live \subseteq Segments
  BY DEF IInv, CallsOfWriters, TypeOK
<1>2. up = "up" /\ \A u \in Threads \ {t} : pc[u] = "client"
  BY <1>1, WriterAlone
<1>3. seg[t] \in Segments /\ seg[t] # None
  BY <1>1, ConstantsOk
<1>4. {seg[u] : u \in {v \in Threads : pc[v] # "client"}} = {seg[t]}
  <2>1. {v \in Threads : pc[v] # "client"} = {t}
    BY <1>2
  <2>. QED
    BY <2>1
<1>. QED
  BY <1>1, <1>2, <1>3, <1>4 DEF Usable

\* tm_alloc: the new node points to the first one; nothing points to it yet.
LEMMA AllocListed ==
    ASSUME IInv, NEW s \in Seq(Segments), Listed(s), NEW t \in Threads, NEW x \in Segments,
           tm_alloc(t, x)
    PROVE  Listed(s)'
<1>1. /\ tx[t] = "rw" /\ pc[t] = "client" /\ x \notin live /\ x # None
      /\ live' = live \cup {x}
      /\ prev' = [prev EXCEPT ![x] = None]
      /\ next' = [next EXCEPT ![x] = allocs]
      /\ pc' = [pc EXCEPT ![t] = "alloc"] /\ seg' = [seg EXCEPT ![t] = x]
      /\ UNCHANGED <<allocs, up>>
  BY ConstantsOk DEF tm_alloc, Writing, list
<1>2. \A u \in Threads : pc[u] = "client"
  BY <1>1, WriterAlone
<1>3. /\ \A u \in Threads : pc'[u] = IF u = t THEN "alloc" ELSE "client"
      /\ seg'[t] = x
      /\ next'[x] = allocs /\ prev'[x] = None
      /\ \A y \in Segments \ {x} : next'[y] = next[y] /\ prev'[y] = prev[y]
      /\ up = "up"
  BY <1>1, <1>2, WriterAlone DEF IInv, TypeOK
<1>4. Usable = live /\ Usable' = live
  BY <1>1, <1>2, <1>3 DEF Usable
<1>5. \A i \in 1..Len(s) : s[i] \in Segments \ {x}
  BY <1>1, <1>4, SeqFacts DEF Listed
<1>6. Forward(s)'
  BY <1>1, <1>3, <1>5 DEF Listed, Forward, Distinct, At
<1>7. Backward(s)'
  BY <1>2, <1>3, <1>5 DEF Listed, Backward, At
<1>. QED
  BY <1>1, <1>3, <1>4, <1>6, <1>7 DEF Listed

\* tm_alloc_link: the new node is the first one.
LEMMA LinkListed ==
    ASSUME IInv, NEW s \in Seq(Segments), Listed(s), NEW t \in Threads, tm_alloc_link(t)
    PROVE  \E r \in Seq(Segments) : Listed(r)'
<1>0. PICK x : x = seg[t]
  OBVIOUS
<1>. DEFINE r == [i \in 1..(Len(s) + 1) |-> IF i = 1 THEN x ELSE s[i - 1]]
<1>1. /\ pc[t] = "alloc"
      /\ prev' = IF next[x] = None THEN prev ELSE [prev EXCEPT ![next[x]] = x]
      /\ allocs' = x
      /\ pc' = [pc EXCEPT ![t] = "client"] /\ seg' = [seg EXCEPT ![t] = None]
      /\ UNCHANGED <<live, next, up>>
  BY <1>0 DEF tm_alloc_link, Prepended
<1>2. /\ x \in live /\ x \in Segments /\ x # None /\ up = "up"
      /\ Usable = live \ {x}
      /\ \A u \in Threads \ {t} : pc[u] = "client"
  BY <1>0, <1>1, InCall
<1>3. /\ next[x] = allocs /\ prev[x] = None /\ allocs = At(s, 1)
      /\ Backward(s) /\ Elems(s) = live \ {x}
  BY <1>0, <1>1, <1>2 DEF Listed, Forward, Distinct
<1>4. /\ Len(s) \in Nat
      /\ \A i \in 1..Len(s) : s[i] \in Segments /\ s[i] # x
      /\ \A i \in 1..Len(s) : next[s[i]] = At(s, i + 1) /\ prev[s[i]] = At(s, i - 1)
      /\ \A i, j \in 1..Len(s) : s[i] = s[j] => i = j
  BY <1>3, SeqFacts DEF Listed, Forward, Distinct, Backward
<1>5. r \in Seq(Segments) /\ Len(r) = Len(s) + 1
  <2>1. \A i \in 1..(Len(s) + 1) : r[i] \in Segments
    BY <1>2, <1>4
  <2>. QED
    BY <1>4, <2>1
<1>6. r[1] = x /\ \A i \in 1..Len(s) : r[i + 1] = s[i]
  BY <1>4
<1>7. \A i \in 1..Len(r) : i = 1 \/ (i - 1 \in 1..Len(s) /\ r[i] = s[i - 1])
  BY <1>4, <1>5
<1>. HIDE DEF r
<1>8. At(r, 1) = x /\ \A i \in Nat : At(r, i + 2) = At(s, i + 1)
  <2>1. 1 \in 1..Len(r)
    BY <1>4, <1>5
  <2>2. ASSUME NEW i \in Nat PROVE At(r, i + 2) = At(s, i + 1)
    <3>1. i + 2 \in 1..Len(r) <=> i + 1 \in 1..Len(s)
      BY <1>4, <1>5
    <3>2. i + 1 \in 1..Len(s) => r[i + 2] = s[i + 1]
      BY <1>6
    <3>. QED
      BY <3>1, <3>2 DEF At
  <2>. QED
    BY <1>6, <2>1, <2>2 DEF At
<1>9. \A i, j \in 1..Len(r) : r[i] = r[j] => i = j
  <2>1. ASSUME NEW i \in 1..Len(r), NEW j \in 1..Len(r), r[i] = r[j] PROVE i = j
    <3>1. i = 1 \/ (i - 1 \in 1..Len(s) /\ r[i] = s[i - 1])
      BY <1>7
    <3>2. j = 1 \/ (j - 1 \in 1..Len(s) /\ r[j] = s[j - 1])
      BY <1>7
    <3>3. \A k \in 1..Len(s) : s[k] # x
      BY <1>4
    <3>4. CASE i = 1
      BY <1>6, <2>1, <3>2, <3>3, <3>4
    <3>5. CASE j = 1
      BY <1>6, <2>1, <3>1, <3>3, <3>5
    <3>6. CASE i # 1 /\ j # 1
      <4>1. i - 1 \in 1..Len(s) /\ j - 1 \in 1..Len(s) /\ s[i - 1] = s[j - 1]
        BY <2>1, <3>1, <3>2, <3>6
      <4>2. i - 1 = j - 1
        BY <1>4, <4>1
      <4>. QED
        BY <1>5, <1>4, <4>2
    <3>. QED
      BY <3>4, <3>5, <3>6
  <2>. QED
    BY <2>1
<1>10. ASSUME NEW i \in 1..Len(r)
       PROVE  next'[r[i]] = At(r, i + 1) /\ prev'[r[i]] = At(r, i - 1)
  <2>1. CASE i = 1
    <3>1. At(r, 2) = At(s, 1)
      <4>1. At(r, 0 + 2) = At(s, 0 + 1)
        BY <1>8, Zenon
      <4>. QED
        BY <4>1
    <3>2. At(r, 0) = None
      BY DEF At
    <3>3. next'[x] = At(s, 1)
      BY <1>1, <1>3
    <3>4. prev'[x] = prev[x]
      <4>1. next[x] # x
        <5>1. CASE Len(s) = 0
          BY <1>2, <1>3, <5>1, SeqFacts
        <5>2. CASE Len(s) # 0
          BY <1>3, <1>4, <5>2, SeqFacts
        <5>. QED
          BY <5>1, <5>2
      <4>. QED
        BY <1>1, <1>2, <4>1 DEF IInv, TypeOK
    <3>. QED
      BY <1>3, <1>6, <2>1, <3>1, <3>2, <3>3, <3>4
  <2>2. CASE i # 1
    <3>. DEFINE k == i - 1
    <3>1. k \in 1..Len(s) /\ i = k + 1 /\ r[i] = s[k]
      BY <1>7, <2>2
    <3>2. At(r, i + 1) = At(s, k + 1)
      <4>0. k \in Nat
        BY <1>4, <3>1
      <4>. HIDE DEF k
      <4>1. At(r, k + 2) = At(s, k + 1)
        BY <1>8, <4>0, Zenon
      <4>2. i + 1 = k + 2
        BY <3>1
      <4>. QED
        BY <4>1, <4>2
    <3>3. next'[s[k]] = At(s, k + 1)
      BY <1>1, <1>4, <3>1
    <3>4. prev'[s[k]] = At(r, k)
      <4>1. CASE k = 1
        <5>1. next[x] = s[1] /\ s[1] \in Segments /\ s[1] # None
          BY <1>3, <3>1, <4>1, SeqFacts
        <5>2. prev'[s[1]] = x
          BY <1>1, <5>1 DEF IInv, TypeOK
        <5>. QED
          BY <1>8, <4>1, <5>2
      <4>2. CASE k # 1
        <5>1. s[k] # s[1] /\ 1 \in 1..Len(s)
          BY <1>4, <3>1, <4>2
        <5>2. next[x] # s[k]
          BY <1>3, <5>1, SeqFacts
        <5>3. prev'[s[k]] = prev[s[k]]
          BY <1>1, <5>2 DEF IInv, TypeOK
        <5>4. prev[s[k]] = At(s, k - 1)
          BY <1>4, <3>1
        <5>5. At(r, k) = At(s, k - 1)
          <6>1. k - 2 \in Nat
            BY <3>1, <4>2
          <6>2. At(r, (k - 2) + 2) = At(s, (k - 2) + 1)
            BY <1>8, <6>1
          <6>3. (k - 2) + 2 = k /\ (k - 2) + 1 = k - 1
            BY <3>1
          <6>. QED
            BY <6>2, <6>3
        <5>. QED
          BY <5>3, <5>4, <5>5
      <4>. QED
        BY <4>1, <4>2
    <3>. QED
      BY <3>1, <3>2, <3>3, <3>4
  <2>. QED
    BY <2>1, <2>2
<1>11. Elems(r) = live
  <2>1. \A y : y \in Elems(r) <=> y = x \/ y \in Elems(s)
    <3>1. ASSUME NEW y \in Elems(r) PROVE y = x \/ y \in Elems(s)
      <4>1. PICK i \in 1..Len(r) : y = r[i]
        BY <3>1 DEF Elems
      <4>. QED
        BY <1>6, <1>7, <4>1 DEF Elems
    <3>2. x \in Elems(r)
      BY <1>4, <1>5, <1>6 DEF Elems
    <3>3. ASSUME NEW i \in 1..Len(s) PROVE s[i] \in Elems(r)
      <4>1. i + 1 \in 1..Len(r) /\ r[i + 1] = s[i]
        BY <1>4, <1>5, <1>6
      <4>. QED
        BY <4>1 DEF Elems
    <3>. QED
      BY <3>1, <3>2, <3>3 DEF Elems
  <2>. QED
    BY <1>2, <1>3, <2>1
<1>12. /\ \A u \in Threads : pc'[u] = "client"
       /\ Usable' = live
  <2>1. \A u \in Threads : pc'[u] = "client"
    BY <1>1, <1>2 DEF IInv, TypeOK
  <2>. QED
    BY <1>1, <2>1 DEF Usable
<1>13. Forward(r)' /\ Backward(r)'
  <2>1. allocs' = At(r, 1)
    BY <1>1, <1>8
  <2>. QED
    BY <1>5, <1>9, <1>10, <2>1 DEF Forward, Distinct, Backward, At
<1>14. Listed(r)'
  <2>1. Elems(r)' = Usable'
    BY <1>11, <1>12 DEF Elems
  <2>2. up' = "up"
    BY <1>1, <1>2
  <2>. QED
    BY <1>12, <1>13, <2>1, <2>2 DEF Listed
<1>. QED
  BY <1>5, <1>14

\* s without its n-th segment.
Without(s, n) == [i \in 1..(Len(s) - 1) |-> IF i < n THEN s[i] ELSE s[i + 1]]

\* What r keeps of s when the n-th segment of s is left out.
Remains(r, s, n) ==
    /\ r \in Seq(Segments) /\ Len(r) = Len(s) - 1
    /\ \A i \in 1..Len(r) :
          \/ i < n /\ r[i] = s[i] /\ i \in 1..Len(s)
          \/ n <= i /\ r[i] = s[i + 1] /\ i + 1 \in 1..Len(s)
    /\ \A k \in Nat : k < n => At(r, k) = At(s, k)
    /\ \A k \in Nat : n <= k => At(r, k) = At(s, k + 1)
    /\ \A i, j \in 1..Len(r) : r[i] = r[j] => i = j
    /\ Elems(r) = Elems(s) \ {s[n]}

LEMMA WithoutRemains ==
    ASSUME NEW s \in Seq(Segments), NEW n \in 1..Len(s), Distinct(s)
    PROVE  Remains(Without(s, n), s, n)
<1>. PICK r : r = Without(s, n)
  OBVIOUS
<1>1. /\ Len(s) \in Nat /\ n \in Nat /\ 1 <= n /\ n <= Len(s)
      /\ \A i \in 1..Len(s) : s[i] \in Segments
  BY SeqFacts
<1>. \A i, j \in 1..Len(s) : s[i] = s[j] => i = j
  BY DEF Distinct
<1>2. Len(s) - 1 \in Nat
  BY <1>1
<1>3. \A i \in 1..(Len(s) - 1) : r[i] = IF i < n THEN s[i] ELSE s[i + 1]
  BY DEF Without
<1>4. r \in Seq(Segments) /\ Len(r) = Len(s) - 1
  <2>1. ASSUME NEW i \in 1..(Len(s) - 1)
        PROVE  (IF i < n THEN s[i] ELSE s[i + 1]) \in Segments
    <3>1. i \in 1..Len(s) /\ i + 1 \in 1..Len(s)
      BY <1>1
    <3>. QED
      BY <1>1, <3>1
  <2>. QED
    BY <1>2, <2>1 DEF Without
<1>5. \A i \in 1..Len(r) :
         \/ i < n /\ r[i] = s[i] /\ i \in 1..Len(s)
         \/ n <= i /\ r[i] = s[i + 1] /\ i + 1 \in 1..Len(s)
  BY <1>1, <1>3, <1>4
<1>6. \A k \in Nat : k < n => At(r, k) = At(s, k)
  <2>1. ASSUME NEW k \in Nat, k < n PROVE At(r, k) = At(s, k)
    <3>1. k \in 1..Len(r) <=> k \in 1..Len(s) /\ k # 0
      BY <1>1, <1>4, <2>1
    <3>2. k \in 1..Len(r) => r[k] = s[k]
      BY <1>1, <1>5, <2>1
    <3>3. k \in 1..Len(s) => k # 0
      OBVIOUS
    <3>. QED
      BY <3>1, <3>2, <3>3 DEF At
  <2>. QED
    BY <2>1
<1>7. \A k \in Nat : n <= k => At(r, k) = At(s, k + 1)
  <2>1. ASSUME NEW k \in Nat, n <= k PROVE At(r, k) = At(s, k + 1)
    <3>1. k \in 1..Len(r) <=> k + 1 \in 1..Len(s)
      BY <1>1, <1>4, <2>1
    <3>2. k \in 1..Len(r) => r[k] = s[k + 1]
      BY <1>1, <1>5, <2>1
    <3>. QED
      BY <3>1, <3>2 DEF At
  <2>. QED
    BY <2>1
<1>8. \A i, j \in 1..Len(r) : r[i] = r[j] => i = j
  <2>1. ASSUME NEW i \in 1..Len(r), NEW j \in 1..Len(r), r[i] = r[j] PROVE i = j
    <3>1. \/ i < n /\ r[i] = s[i] /\ i \in 1..Len(s)
          \/ n <= i /\ r[i] = s[i + 1] /\ i + 1 \in 1..Len(s)
      BY <1>5
    <3>2. \/ j < n /\ r[j] = s[j] /\ j \in 1..Len(s)
          \/ n <= j /\ r[j] = s[j + 1] /\ j + 1 \in 1..Len(s)
      BY <1>5
    <3>. QED
      BY <1>1, <1>4, <2>1, <3>1, <3>2
  <2>. QED
    BY <2>1
<1>9. \A y : y \in Elems(r) <=> y \in Elems(s) /\ y # s[n]
  <2>1. ASSUME NEW y \in Elems(r) PROVE y \in Elems(s) /\ y # s[n]
    <3>1. PICK i \in 1..Len(r) : y = r[i]
      BY <2>1 DEF Elems
    <3>2. \/ i < n /\ y = s[i] /\ i \in 1..Len(s)
          \/ n <= i /\ y = s[i + 1] /\ i + 1 \in 1..Len(s)
      BY <1>5, <3>1
    <3>3. PICK k \in 1..Len(s) : y = s[k] /\ k # n
      BY <1>1, <1>4, <3>2
    <3>. QED
      BY <3>3 DEF Elems
  <2>2. ASSUME NEW y \in Elems(s), y # s[n] PROVE y \in Elems(r)
    <3>1. PICK k \in 1..Len(s) : y = s[k]
      BY <2>2 DEF Elems
    <3>2. k < n \/ n < k
      BY <1>1, <2>2, <3>1
    <3>3. CASE k < n
      <4>1. k \in 1..Len(r) /\ r[k] = s[k]
        BY <1>1, <1>3, <1>4, <3>3
      <4>. QED
        BY <3>1, <4>1 DEF Elems
    <3>4. CASE n < k
      <4>1. k - 1 \in 1..Len(r) /\ ~ (k - 1 < n) /\ (k - 1) + 1 = k
        BY <1>1, <1>4, <3>4
      <4>2. r[k - 1] = s[k]
        BY <1>3, <1>4, <4>1
      <4>. QED
        BY <3>1, <4>1, <4>2 DEF Elems
    <3>. QED
      BY <3>2, <3>3, <3>4
  <2>. QED
    BY <2>1, <2>2
<1>10. Elems(r) = Elems(s) \ {s[n]}
  BY <1>9
<1>. QED
  BY <1>4, <1>5, <1>6, <1>7, <1>8, <1>10 DEF Remains

\* tm_free: the list continues behind the segment.
LEMMA FreeListed ==
    ASSUME IInv, NEW s \in Seq(Segments), Listed(s), NEW t \in Threads, NEW x \in Segments,
           tm_free(t, x)
    PROVE  \E r \in Seq(Segments) : Listed(r)'
<1>1. /\ tx[t] = "rw" /\ pc[t] = "client" /\ x \in Usable
      /\ IF prev[x] # None
         THEN next' = [next EXCEPT ![prev[x]] = next[x]] /\ allocs' = allocs
         ELSE allocs' = next[x] /\ next' = next
      /\ pc' = [pc EXCEPT ![t] = "free"] /\ seg' = [seg EXCEPT ![t] = x]
      /\ UNCHANGED <<live, prev, up>>
  BY DEF tm_free, Writing
<1>2. /\ \A u \in Threads : pc[u] = "client"
      /\ up = "up"
  BY <1>1, WriterAlone
<1>3. /\ \A u \in Threads : pc'[u] = IF u = t THEN "free" ELSE "client"
      /\ seg'[t] = x
  BY <1>1, <1>2 DEF IInv, TypeOK
<1>4. Usable = live /\ Usable' = live \ {x}
  <2>1. {v \in Threads : pc'[v] # "client"} = {t}
    BY <1>3
  <2>2. {seg'[v] : v \in {w \in Threads : pc'[w] # "client"}} = {x}
    BY <1>3, <2>1
  <2>3. {v \in Threads : pc[v] # "client"} = {}
    BY <1>2
  <2>. QED
    BY <1>1, <2>2, <2>3 DEF Usable
<1>5. /\ \A i, j \in 1..Len(s) : s[i] = s[j] => i = j
      /\ allocs = At(s, 1)
      /\ \A i \in 1..Len(s) : next[s[i]] = At(s, i + 1)
      /\ \A i \in 1..Len(s) : prev[s[i]] = At(s, i - 1)
      /\ Elems(s) = live
  BY <1>2, <1>4 DEF Listed, Forward, Distinct, Backward
<1>6. PICK n \in 1..Len(s) : x = s[n]
  BY <1>1, <1>4, <1>5 DEF Elems
<1>7. PICK r : r = Without(s, n)
  OBVIOUS
<1>8. /\ r \in Seq(Segments) /\ Len(r) = Len(s) - 1
      /\ \A i \in 1..Len(r) :
            \/ i < n /\ r[i] = s[i] /\ i \in 1..Len(s)
            \/ n <= i /\ r[i] = s[i + 1] /\ i + 1 \in 1..Len(s)
      /\ \A k \in Nat : k < n => At(r, k) = At(s, k)
      /\ \A k \in Nat : n <= k => At(r, k) = At(s, k + 1)
      /\ \A i, j \in 1..Len(r) : r[i] = r[j] => i = j
      /\ Elems(r) = Elems(s) \ {x}
  <2>1. Distinct(s)
    BY DEF Listed, Forward
  <2>2. Remains(r, s, n)
    BY <1>7, <2>1, WithoutRemains
  <2>. QED
    BY <1>6, <2>2 DEF Remains
<1>9. /\ Len(s) \in Nat /\ n \in Nat /\ 1 <= n /\ n <= Len(s)
      /\ \A i \in 1..Len(s) : s[i] \in Segments /\ s[i] # None
  BY SeqFacts
<1>10. /\ next[x] = At(s, n + 1) /\ prev[x] = At(s, n - 1)
       /\ prev[x] = None <=> n = 1
       /\ n # 1 => prev[x] = s[n - 1] /\ n - 1 \in 1..Len(s)
  <2>1. next[x] = At(s, n + 1) /\ prev[x] = At(s, n - 1)
    BY <1>5, <1>6
  <2>2. CASE n = 1
    BY <2>1, <2>2, SeqFacts
  <2>3. CASE n # 1
    <3>1. n - 1 \in 1..Len(s)
      BY <1>9, <2>3
    <3>2. At(s, n - 1) = s[n - 1] /\ s[n - 1] # None
      BY <1>9, <3>1, SeqFacts
    <3>. QED
      BY <2>1, <2>3, <3>1, <3>2
  <2>. QED
    BY <2>2, <2>3
<1>11. allocs' = At(r, 1)
  <2>1. CASE n = 1
    <3>1. At(r, 1) = At(s, 1 + 1)
      BY <1>8, <2>1
    <3>. QED
      BY <1>1, <1>10, <2>1, <3>1
  <2>2. CASE n # 1
    <3>1. At(r, 1) = At(s, 1)
      BY <1>8, <1>9, <2>2
    <3>. QED
      BY <1>1, <1>5, <1>10, <2>2, <3>1
  <2>. QED
    BY <2>1, <2>2
<1>12. /\ \A i \in 1..Len(s) : i # n - 1 => next'[s[i]] = At(s, i + 1)
       /\ n # 1 => next'[s[n - 1]] = At(s, n + 1)
  <2>1. CASE n = 1
    BY <1>1, <1>5, <1>10, <2>1
  <2>2. CASE n # 1
    <3>1. next' = [next EXCEPT ![s[n - 1]] = next[x]]
      BY <1>1, <1>10, <2>2
    <3>2. \A i \in 1..Len(s) : i # n - 1 => s[i] # s[n - 1]
      BY <1>5, <1>10, <2>2
    <3>3. s[n - 1] \in Segments /\ next \in [Segments -> Segments \cup {None}]
      BY <1>9, <1>10, <2>2 DEF IInv, TypeOK
    <3>4. \A i \in 1..Len(s) : i # n - 1 => next'[s[i]] = next[s[i]]
      BY <1>9, <3>1, <3>2, <3>3
    <3>. QED
      BY <1>5, <1>10, <3>1, <3>3, <3>4
  <2>. QED
    BY <2>1, <2>2
<1>13. \A i \in 1..Len(r) : next'[r[i]] = At(r, i + 1)
  <2>1. ASSUME NEW i \in 1..Len(r) PROVE next'[r[i]] = At(r, i + 1)
    <3>1. \/ i < n /\ r[i] = s[i] /\ i \in 1..Len(s)
          \/ n <= i /\ r[i] = s[i + 1] /\ i + 1 \in 1..Len(s)
      BY <1>8
    <3>2. CASE i < n /\ r[i] = s[i] /\ i \in 1..Len(s) /\ i # n - 1
      <4>1. i + 1 \in Nat /\ i + 1 < n
        BY <1>9, <3>2
      <4>2. At(r, i + 1) = At(s, i + 1)
        BY <1>8, <4>1, Zenon
      <4>. QED
        BY <1>12, <3>2, <4>2
    <3>3. CASE i < n /\ r[i] = s[i] /\ i \in 1..Len(s) /\ i = n - 1
      <4>1. n # 1 /\ i + 1 = n /\ i = n - 1
        BY <1>9, <3>3
      <4>2. At(r, n) = At(s, n + 1)
        BY <1>8, <1>9
      <4>. QED
        BY <1>12, <3>3, <4>1, <4>2
    <3>4. CASE n <= i /\ r[i] = s[i + 1] /\ i + 1 \in 1..Len(s)
      <4>1. i + 1 \in Nat /\ n <= i + 1 /\ i + 1 # n - 1
        BY <1>9, <3>4
      <4>2. At(r, i + 1) = At(s, (i + 1) + 1)
        BY <1>8, <4>1, Zenon
      <4>3. next'[s[i + 1]] = At(s, (i + 1) + 1)
        BY <1>12, <3>4, <4>1
      <4>. QED
        BY <3>4, <4>2, <4>3
    <3>. QED
      BY <3>1, <3>2, <3>3, <3>4
  <2>. QED
    BY <2>1
<1>14. next'[x] = At(r, n)
  <2>1. At(r, n) = At(s, n + 1)
    BY <1>8, <1>9
  <2>2. n # n - 1
    BY <1>9
  <2>. QED
    BY <1>6, <1>12, <2>1, <2>2
<1>15. prev'[x] = At(r, n - 1)
  <2>1. n - 1 \in Nat /\ n - 1 < n
    BY <1>9
  <2>2. At(r, n - 1) = At(s, n - 1)
    BY <1>8, <2>1, Zenon
  <2>. QED
    BY <1>1, <1>10, <2>2
<1>16. \A j \in 1..Len(r) : prev'[r[j]] = IF j = n THEN x ELSE At(r, j - 1)
  <2>1. ASSUME NEW j \in 1..Len(r) PROVE prev[r[j]] = IF j = n THEN x ELSE At(r, j - 1)
    <3>1. \/ j < n /\ r[j] = s[j] /\ j \in 1..Len(s)
          \/ n <= j /\ r[j] = s[j + 1] /\ j + 1 \in 1..Len(s)
      BY <1>8
    <3>2. CASE j < n /\ r[j] = s[j] /\ j \in 1..Len(s)
      <4>1. j - 1 \in Nat /\ j - 1 < n /\ j # n
        BY <1>9, <3>2
      <4>2. At(r, j - 1) = At(s, j - 1)
        BY <1>8, <4>1, Zenon
      <4>. QED
        BY <1>5, <3>2, <4>1, <4>2
    <3>3. CASE n <= j /\ r[j] = s[j + 1] /\ j + 1 \in 1..Len(s)
      <4>1. prev[s[j + 1]] = At(s, j)
        <5>1. (j + 1) - 1 = j
          OBVIOUS
        <5>. QED
          BY <1>5, <3>3, <5>1
      <4>2. CASE j = n
        <5>1. At(s, n) = s[n]
          BY SeqFacts
        <5>. QED
          BY <1>6, <3>3, <4>1, <4>2, <5>1
      <4>3. CASE j # n
        <5>1. j - 1 \in Nat /\ n <= j - 1 /\ (j - 1) + 1 = j
          BY <1>9, <3>3, <4>3
        <5>2. At(r, j - 1) = At(s, (j - 1) + 1)
          BY <1>8, <5>1, Zenon
        <5>. QED
          BY <3>3, <4>1, <4>3, <5>1, <5>2
      <4>. QED
        BY <4>2, <4>3
    <3>. QED
      BY <3>1, <3>2, <3>3
  <2>. QED
    BY <1>1, <2>1
<1>17. Leaving(r, x, n)'
  BY <1>14, <1>15, <1>16 DEF Leaving, At
<1>18. Forward(r)'
  BY <1>8, <1>11, <1>13 DEF Forward, Distinct, At
<1>19. n \in 1..(Len(r) + 1)
  BY <1>8, <1>9
<1>20. Elems(r)' = Usable'
  BY <1>4, <1>5, <1>8 DEF Elems
<1>21. Listed(r)'
  <2>1. up' # "down"
    BY <1>1, <1>2
  <2>2. \A u \in Threads : pc'[u] # "client" => u = t /\ pc'[u] = "free"
    BY <1>3
  <2>. QED
    BY <1>3, <1>17, <1>18, <1>19, <1>20, <2>1, <2>2 DEF Listed
<1>. QED
  BY <1>8, <1>21

\* tm_free_unlink: the successor of the segment points before it again.
LEMMA UnlinkListed ==
    ASSUME IInv, NEW s \in Seq(Segments), Listed(s), NEW t \in Threads, tm_free_unlink(t)
    PROVE  Listed(s)'
<1>0. PICK x : x = seg[t]
  OBVIOUS
<1>1. /\ pc[t] = "free"
      /\ prev' = [(IF next[x] = None THEN prev ELSE [prev EXCEPT ![next[x]] = prev[x]])
                     EXCEPT ![x] = None]
      /\ next' = [next EXCEPT ![x] = None]
      /\ live' = live \ {x}
      /\ pc' = [pc EXCEPT ![t] = "client"] /\ seg' = [seg EXCEPT ![t] = None]
      /\ UNCHANGED <<allocs, up>>
  BY <1>0 DEF tm_free_unlink, Bypassed
<1>2. /\ x \in live /\ x \in Segments /\ up = "up"
      /\ Usable = live \ {x}
      /\ \A u \in Threads \ {t} : pc[u] = "client"
  BY <1>0, <1>1, InCall
<1>3. /\ Elems(s) = live \ {x} /\ Distinct(s) /\ allocs = At(s, 1)
      /\ \A i \in 1..Len(s) : next[s[i]] = At(s, i + 1)
  BY <1>2 DEF Listed, Forward
<1>4. PICK i \in 1..(Len(s) + 1) :
         /\ next[x] = At(s, i)
         /\ prev[x] = At(s, i - 1)
         /\ \A j \in 1..Len(s) : prev[s[j]] = IF j = i THEN x ELSE At(s, j - 1)
  BY <1>0, <1>1 DEF Listed, Leaving
<1>5. /\ Len(s) \in Nat
      /\ \A j \in 1..Len(s) : s[j] \in Segments /\ s[j] # None /\ s[j] # x
  BY <1>3, SeqFacts
<1>6. \A j \in 1..Len(s) : next'[s[j]] = At(s, j + 1)
  BY <1>1, <1>3, <1>5 DEF IInv, TypeOK
<1>7. \A j \in 1..Len(s) : prev'[s[j]] = At(s, j - 1)
  <2>0. prev \in [Segments -> Segments \cup {None}]
    BY DEF IInv, TypeOK
  <2>1. CASE i = Len(s) + 1
    <3>1. next[x] = None
      BY <1>4, <2>1, SeqFacts
    <3>2. \A j \in 1..Len(s) : prev'[s[j]] = prev[s[j]]
      BY <1>1, <1>5, <2>0, <3>1
    <3>3. \A j \in 1..Len(s) : j # i
      BY <1>5, <2>1
    <3>. QED
      BY <1>4, <3>2, <3>3
  <2>2. CASE i \in 1..Len(s)
    <3>1. next[x] = s[i] /\ s[i] # None
      BY <1>4, <1>5, <2>2, SeqFacts
    <3>2. prev' = [[prev EXCEPT ![s[i]] = prev[x]] EXCEPT ![x] = None]
      BY <1>1, <3>1
    <3>3. \A j \in 1..Len(s) : s[j] = s[i] <=> j = i
      BY <1>3, <2>2 DEF Distinct
    <3>4. \A j \in 1..Len(s) : prev'[s[j]] = IF j = i THEN prev[x] ELSE prev[s[j]]
      BY <1>5, <2>0, <2>2, <3>2, <3>3
    <3>. QED
      BY <1>4, <3>4
  <2>3. i = Len(s) + 1 \/ i \in 1..Len(s)
    BY <1>5
  <2>. QED
    BY <2>1, <2>2, <2>3
<1>8. \A u \in Threads : pc'[u] = "client"
  BY <1>1, <1>2 DEF IInv, TypeOK
<1>9. Usable' = live'
  BY <1>8 DEF Usable
<1>10. Elems(s)' = Usable'
  BY <1>1, <1>3, <1>9 DEF Elems
<1>11. Forward(s)' /\ Backward(s)'
  BY <1>1, <1>3, <1>6, <1>7 DEF Forward, Distinct, Backward, At
<1>. QED
  BY <1>1, <1>2, <1>8, <1>10, <1>11 DEF Listed

\* tm_destroy: the first segment goes, or there was none.
LEMMA DestroyListed ==
    ASSUME IInv, NEW s \in Seq(Segments), Listed(s), tm_destroy
    PROVE  \E r \in Seq(Segments) : Listed(r)'
<1>1. \A t \in Threads : pc[t] = "client" /\ pc'[t] = "client"
  <2>1. \A t \in Threads : tx[t] = "none" /\ pc' = pc
    BY DEF tm_destroy
  <2>. QED
    BY <2>1 DEF IInv, TypeOK, CallsOfWriters
<1>2. Usable = live /\ Usable' = live'
  BY <1>1 DEF Usable
<1>3. /\ Distinct(s) /\ Elems(s) = live /\ allocs = At(s, 1)
      /\ \A i \in 1..Len(s) : next[s[i]] = At(s, i + 1)
  BY <1>2 DEF Listed, Forward
<1>4. /\ Len(s) \in Nat
      /\ \A j \in 1..Len(s) : s[j] \in Segments /\ s[j] # None
  BY SeqFacts
<1>5. CASE allocs # None
  <2>1. 1 \in 1..Len(s) /\ allocs = s[1]
    BY <1>3, <1>4, <1>5, SeqFacts
  <2>2. PICK r : r = Without(s, 1)
    OBVIOUS
  <2>3. Remains(r, s, 1)
    BY <1>3, <2>1, <2>2, WithoutRemains
  <2>4. /\ r \in Seq(Segments) /\ Distinct(r)
        /\ Elems(r) = live \ {s[1]}
        /\ \A i \in 1..Len(r) : r[i] = s[i + 1] /\ i + 1 \in 1..Len(s)
        /\ \A k \in Nat : 1 <= k => At(r, k) = At(s, k + 1)
    <3>1. /\ r \in Seq(Segments) /\ Distinct(r)
          /\ Elems(r) = live \ {s[1]}
          /\ \A k \in Nat : 1 <= k => At(r, k) = At(s, k + 1)
      BY <1>3, <2>3 DEF Remains, Distinct
    <3>2. \A i \in 1..Len(r) : r[i] = s[i + 1] /\ i + 1 \in 1..Len(s)
      BY <2>3 DEF Remains
    <3>. QED
      BY <3>1, <3>2
  <2>5. /\ live' = live \ {s[1]} /\ allocs' = next[s[1]]
        /\ next' = [next EXCEPT ![s[1]] = None]
        /\ up' = "destroying"
    BY <1>5, <2>1 DEF tm_destroy, AfterFirst
  <2>6. allocs' = At(r, 1)
    <3>1. At(r, 1) = At(s, 1 + 1)
      BY <2>4
    <3>. QED
      BY <1>3, <2>1, <2>5, <3>1
  <2>7. \A i \in 1..Len(r) : next'[r[i]] = At(r, i + 1)
    <3>1. ASSUME NEW i \in 1..Len(r) PROVE next'[r[i]] = At(r, i + 1)
      <4>1. r[i] = s[i + 1] /\ i + 1 \in 1..Len(s) /\ i + 1 \in Nat /\ 1 <= i + 1 /\ i + 1 # 1
        BY <2>4
      <4>2. s[i + 1] # s[1] /\ s[i + 1] \in Segments
        BY <1>3, <1>4, <2>1, <4>1 DEF Distinct
      <4>3. next'[s[i + 1]] = next[s[i + 1]]
        BY <2>5, <4>2 DEF IInv, TypeOK
      <4>4. next[s[i + 1]] = At(s, (i + 1) + 1)
        BY <1>3, <4>1
      <4>5. At(r, i + 1) = At(s, (i + 1) + 1)
        BY <2>4, <4>1, Zenon
      <4>. QED
        BY <4>1, <4>3, <4>4, <4>5
    <3>. QED
      BY <3>1
  <2>8. Forward(r)'
    BY <2>4, <2>6, <2>7 DEF Forward, Distinct, At
  <2>9. Elems(r)' = Usable'
    BY <1>2, <2>4, <2>5 DEF Elems
  <2>10. Listed(r)'
    BY <1>1, <2>5, <2>8, <2>9 DEF Listed
  <2>. QED
    BY <2>4, <2>10
<1>6. CASE allocs = None
  <2>1. Len(s) = 0
    BY <1>3, <1>6, SeqFacts
  <2>2. live = {}
    BY <1>3, <2>1 DEF Elems
  <2>3. up' = "down" /\ UNCHANGED list
    BY <1>6 DEF tm_destroy
  <2>4. Forward(s)' /\ Elems(s)' = Usable' /\ live' = {}
    BY <1>2, <1>3, <2>2, <2>3 DEF Forward, Distinct, At, Elems, list
  <2>5. Listed(s)'
    BY <1>1, <2>3, <2>4 DEF Listed
  <2>. QED
    BY <2>5
<1>. QED
  BY <1>5, <1>6

LEMMA ListInit == Init => ListInv
<1>. SUFFICES ASSUME Init PROVE ListInv
  OBVIOUS
<1>1. << >> \in Seq(Segments) /\ Len(<< >>) = 0
  OBVIOUS
<1>2. Usable = {} /\ Elems(<< >>) = {} /\ At(<< >>, 1) = None
  BY DEF Init, Usable, Elems, At
<1>3. Forward(<< >>) /\ Backward(<< >>)
  BY <1>1, <1>2 DEF Init, Forward, Distinct, Backward
<1>4. Listed(<< >>)
  BY <1>1, <1>2, <1>3 DEF Init, Listed
<1>. QED
  BY <1>1, <1>4 DEF ListInv

LEMMA ListNext == IInv /\ ListInv /\ [Next]_vars => ListInv'
<1>. SUFFICES ASSUME IInv, ListInv, [Next]_vars PROVE ListInv'
  OBVIOUS
<1>0. PICK s \in Seq(Segments) : Listed(s)
  BY DEF ListInv
<1>. SUFFICES \E r \in Seq(Segments) : Listed(r)'
  BY DEF ListInv
<1>1. ASSUME UNCHANGED <<list, pc, seg, up>>
      PROVE  \E r \in Seq(Segments) : Listed(r)'
  BY <1>0, <1>1, ListSame
<1>2. ASSUME NEW t \in Threads, NEW is_ro \in BOOLEAN, tm_begin(t, is_ro)
      PROVE  UNCHANGED <<list, pc, seg, up>>
  BY <1>2 DEF tm_begin
<1>3. ASSUME NEW t \in Threads, tm_end(t)
      PROVE  UNCHANGED <<list, pc, seg, up>>
  BY <1>3 DEF tm_end
<1>4. ASSUME NEW t \in Threads, NEW a \in Words \cup Segments, tm_read(t, a)
      PROVE  UNCHANGED <<list, pc, seg, up>>
  BY <1>4 DEF tm_read
<1>5. ASSUME NEW t \in Threads, NEW a \in Words \cup Segments, NEW v \in Values,
             tm_write(t, a, v)
      PROVE  UNCHANGED <<list, pc, seg, up>>
  BY <1>5 DEF tm_write
<1>6. ASSUME NEW t \in Threads, NEW x \in Segments, tm_alloc(t, x)
      PROVE  \E r \in Seq(Segments) : Listed(r)'
  BY <1>0, <1>6, AllocListed
<1>7. ASSUME NEW t \in Threads, NEW x \in Segments, tm_free(t, x)
      PROVE  \E r \in Seq(Segments) : Listed(r)'
  BY <1>0, <1>7, FreeListed
<1>8. ASSUME NEW t \in Threads, tm_alloc_link(t)
      PROVE  \E r \in Seq(Segments) : Listed(r)'
  BY <1>0, <1>8, LinkListed
<1>9. ASSUME NEW t \in Threads, tm_free_unlink(t)
      PROVE  \E r \in Seq(Segments) : Listed(r)'
  BY <1>0, <1>9, UnlinkListed
<1>10. CASE tm_destroy
  BY <1>0, <1>10, DestroyListed
<1>11. CASE UNCHANGED vars
  BY <1>1, <1>11 DEF vars
<1>. QED
  BY <1>1, <1>2, <1>3, <1>4, <1>5, <1>6, <1>7, <1>8, <1>9, <1>10, <1>11 DEF Next, Done

LEMMA Least ==
    ASSUME NEW T \in SUBSET Nat, T # {}
    PROVE  \E x \in T : \A y \in T : x <= y
<1>. DEFINE R == OpToRel(<, Nat)
<1>1. \A x, y \in Nat : y < x => <<y, x>> \in R
  BY DEF OpToRel
<1>2. IsWellFoundedOn(R, Nat)
  BY NatLessThanWellFounded
<1>. HIDE DEF R
<1>3. PICK x \in T : \A y \in T : ~ (<<y, x>> \in R)
  BY <1>2, WFMin
<1>4. \A y \in T : ~ (y < x)
  BY <1>1, <1>3
<1>. QED
  BY <1>4

\* Induction, over a set of naturals instead of a predicate.
LEMMA Induct ==
    ASSUME NEW S \in SUBSET Nat, 0 \in S, \A n \in Nat : n \in S => n + 1 \in S
    PROVE  S = Nat
<1>1. SUFFICES ASSUME Nat \ S # {} PROVE FALSE
  OBVIOUS
<1>2. PICK x \in Nat \ S : \A y \in Nat \ S : x <= y
  BY <1>1, Least
<1>3. x # 0 /\ x - 1 \in Nat /\ x - 1 \in S
  BY <1>2
<1>. QED
  BY <1>2, <1>3

\* The list is no longer than there are segments.
LEMMA ListLength ==
    ASSUME NEW s \in Seq(Segments), Distinct(s)
    PROVE  Len(s) \in Nat /\ Len(s) <= Cardinality(Segments) /\ Cardinality(Segments) \in Nat
<1>1. s \in [1..Len(s) -> Segments] /\ Len(s) \in Nat
  BY LenProperties
<1>2. s \in Injection(1..Len(s), Segments)
  BY <1>1 DEF Distinct, Injection, IsInjective
<1>3. Cardinality(1..Len(s)) <= Cardinality(Segments)
  BY <1>2, FS_Injection, ConstantsOk
<1>4. Cardinality(1..Len(s)) = Len(s)
  <2>1. Cardinality(1..Len(s)) = IF 1 > Len(s) THEN 0 ELSE Len(s) - 1 + 1
    BY <1>1, FS_Interval
  <2>. QED
    BY <1>1, <2>1
<1>. QED
  BY <1>1, <1>3, <1>4, FS_CardinalityType, ConstantsOk

\* The first k + 1 segments of s.
Ahead(s, k) == {At(s, i) : i \in 1..(k + 1)} \ {None}

LEMMA AheadSteps ==
    ASSUME NEW s \in Seq(Segments), Forward(s)
    PROVE  /\ Ahead(s, 0) = {allocs} \ {None}
           /\ \A k \in Nat : Ahead(s, k + 1) = Ahead(s, k) \cup ({next[x] : x \in Ahead(s, k)} \ {None})
           /\ \A k \in Nat : Len(s) <= k => Ahead(s, k) = Elems(s)
<1>1. /\ Len(s) \in Nat /\ allocs = At(s, 1)
      /\ \A i \in 1..Len(s) : s[i] \in Segments /\ s[i] # None /\ At(s, i) = s[i]
      /\ \A i \in 1..Len(s) : next[s[i]] = At(s, i + 1)
      /\ \A i : i \notin 1..Len(s) => At(s, i) = None
  <2>1. \A i \in 1..Len(s) : s[i] \in Segments /\ s[i] # None /\ At(s, i) = s[i]
    BY SeqFacts
  <2>. QED
    BY <2>1, SeqFacts DEF Forward, At
<1>2. Ahead(s, 0) = {allocs} \ {None}
  <2>1. 1..(0 + 1) = {1}
    OBVIOUS
  <2>. QED
    BY <1>1, <2>1 DEF Ahead
<1>3. ASSUME NEW k \in Nat
      PROVE  Ahead(s, k + 1) = Ahead(s, k) \cup ({next[x] : x \in Ahead(s, k)} \ {None})
  <2>1. ASSUME NEW x \in Ahead(s, k + 1)
        PROVE  x \in Ahead(s, k) \cup ({next[y] : y \in Ahead(s, k)} \ {None})
    <3>1. PICK i \in 1..((k + 1) + 1) : x = At(s, i) /\ x # None
      BY <2>1 DEF Ahead
    <3>2. CASE i \in 1..(k + 1)
      BY <3>1, <3>2 DEF Ahead
    <3>3. CASE i = k + 2
      <4>1. i \in 1..Len(s)
        BY <1>1, <3>1
      <4>2. k + 1 \in 1..Len(s) /\ k + 1 \in 1..(k + 1) /\ (k + 1) + 1 = i
        BY <1>1, <3>3, <4>1
      <4>3. At(s, k + 1) = s[k + 1] /\ s[k + 1] # None /\ next[s[k + 1]] = x
        BY <1>1, <3>1, <4>2
      <4>4. s[k + 1] \in Ahead(s, k)
        BY <4>2, <4>3 DEF Ahead
      <4>. QED
        BY <3>1, <4>3, <4>4
    <3>. QED
      BY <3>2, <3>3
  <2>2. ASSUME NEW x \in Ahead(s, k) PROVE x \in Ahead(s, k + 1)
    <3>1. PICK i \in 1..(k + 1) : x = At(s, i) /\ x # None
      BY <2>2 DEF Ahead
    <3>2. i \in 1..((k + 1) + 1)
      OBVIOUS
    <3>. QED
      BY <3>1, <3>2 DEF Ahead
  <2>3. ASSUME NEW x \in Ahead(s, k), next[x] # None PROVE next[x] \in Ahead(s, k + 1)
    <3>1. PICK i \in 1..(k + 1) : x = At(s, i) /\ x # None
      BY <2>3 DEF Ahead
    <3>2. i \in 1..Len(s) /\ i + 1 \in 1..((k + 1) + 1)
      BY <1>1, <3>1
    <3>3. next[x] = At(s, i + 1)
      BY <1>1, <3>1, <3>2
    <3>. QED
      BY <2>3, <3>2, <3>3 DEF Ahead
  <2>. QED
    BY <2>1, <2>2, <2>3
<1>4. ASSUME NEW k \in Nat, Len(s) <= k PROVE Ahead(s, k) = Elems(s)
  <2>1. ASSUME NEW x \in Ahead(s, k) PROVE x \in Elems(s)
    <3>1. PICK i \in 1..(k + 1) : x = At(s, i) /\ x # None
      BY <2>1 DEF Ahead
    <3>2. i \in 1..Len(s)
      BY <1>1, <3>1
    <3>. QED
      BY <1>1, <3>1, <3>2 DEF Elems
  <2>2. ASSUME NEW i \in 1..Len(s) PROVE s[i] \in Ahead(s, k)
    <3>1. i \in 1..(k + 1)
      BY <1>1, <1>4
    <3>. QED
      BY <1>1, <3>1 DEF Ahead
  <2>. QED
    BY <2>1, <2>2 DEF Elems
<1>. QED
  BY <1>2, <1>3, <1>4

\* Following next from allocs finds the list.
LEMMA PathFindsList ==
    ASSUME NEW s \in Seq(Segments), Forward(s), NEW path,
           path = [k \in 0..Cardinality(Segments) |->
                     IF k = 0 THEN {allocs} \ {None}
                     ELSE path[k - 1] \cup ({next[x] : x \in path[k - 1]} \ {None})]
    PROVE  path[Cardinality(Segments)] = Elems(s)
<1>. DEFINE N == Cardinality(Segments)
            B == {n \in Nat : n <= N => path[n] = Ahead(s, n)}
<1>1. N \in Nat /\ Len(s) <= N
  BY ListLength DEF Forward
<1>0. \A k \in 0..N : path[k] = IF k = 0 THEN {allocs} \ {None}
                              ELSE path[k - 1] \cup ({next[x] : x \in path[k - 1]} \ {None})
  BY Zenon
<1>2. 0 \in B
  <2>1. path[0] = {allocs} \ {None}
    BY <1>1
  <2>. QED
    BY <2>1, AheadSteps
<1>3. ASSUME NEW n \in Nat, n \in B PROVE n + 1 \in B
  <2>1. SUFFICES ASSUME n + 1 <= N PROVE path[n + 1] = Ahead(s, n + 1)
    OBVIOUS
  <2>2. path[n] = Ahead(s, n)
    BY <1>1, <1>3, <2>1
  <2>0. n \in 0..N
    BY <1>1, <2>1
  <2>3. n + 1 \in 0..N /\ n + 1 # 0 /\ (n + 1) - 1 = n
    BY <1>1, <2>1
  <2>4. path[n + 1] = path[n] \cup ({next[x] : x \in path[n]} \ {None})
    BY <1>0, <2>3
  <2>5. Ahead(s, n + 1) = Ahead(s, n) \cup ({next[x] : x \in Ahead(s, n)} \ {None})
    BY AheadSteps
  <2>. QED
    BY <2>2, <2>4, <2>5, Zenon
<1>4. B = Nat
  <2>. HIDE DEF B
  <2>1. B \in SUBSET Nat
    BY DEF B
  <2>. QED
    BY <1>2, <1>3, <2>1, Induct
<1>5. path[N] = Ahead(s, N)
  <2>1. N \in B
    BY <1>1, <1>4
  <2>. QED
    BY <1>1, <2>1
<1>. QED
  BY <1>1, <1>5, AheadSteps

\* ... and so the list is what ListIntact says.
LEMMA ListedIntact == IInv /\ ListInv => ListIntact
<1>. SUFFICES ASSUME IInv, ListInv PROVE ListIntact
  OBVIOUS
<1>. DEFINE N == Cardinality(Segments)
            path[k \in 0..Cardinality(Segments)] ==
                IF k = 0 THEN {allocs} \ {None}
                ELSE path[k - 1] \cup ({next[s] : s \in path[k - 1]} \ {None})
            Linked == /\ path[Cardinality(Segments)] = live
                      /\ allocs # None => prev[allocs] = None
                      /\ \A s \in live : next[s] # None => prev[next[s]] = s
                      /\ \A s \in live : prev[s] # None => next[prev[s]] = s
<1>0. PICK s \in Seq(Segments) : Listed(s)
  BY DEF ListInv
<1>1. /\ Len(s) \in Nat /\ allocs = At(s, 1) /\ Elems(s) = Usable
      /\ \A i \in 1..Len(s) : s[i] # None /\ s[i] \in Elems(s) /\ At(s, i) = s[i]
      /\ \A i \in 1..Len(s) : next[s[i]] = At(s, i + 1)
      /\ \A i : i \notin 1..Len(s) => At(s, i) = None
  <2>1. \A i \in 1..Len(s) : s[i] # None /\ s[i] \in Elems(s) /\ At(s, i) = s[i]
    BY SeqFacts
  <2>. QED
    BY <1>0, <2>1, SeqFacts DEF Listed, Forward, At
<1>2. N \in Nat /\ Len(s) <= N
  BY <1>0, ListLength DEF Listed, Forward
<1>3. path = CHOOSE f : f = [k \in 0..N |->
                               IF k = 0 THEN {allocs} \ {None}
                               ELSE f[k - 1] \cup ({next[x] : x \in f[k - 1]} \ {None})]
  OBVIOUS
<1>. DEFINE g == [k \in 0..N |-> Ahead(s, k)]
<1>4. g = [k \in 0..N |->
             IF k = 0 THEN {allocs} \ {None}
             ELSE g[k - 1] \cup ({next[x] : x \in g[k - 1]} \ {None})]
  <2>1. ASSUME NEW k \in 0..N
        PROVE  Ahead(s, k) = IF k = 0 THEN {allocs} \ {None}
                             ELSE g[k - 1] \cup ({next[x] : x \in g[k - 1]} \ {None})
    <3>1. CASE k = 0
      BY <1>0, <3>1, AheadSteps DEF Listed
    <3>2. CASE k # 0
      <4>1. k - 1 \in Nat /\ k - 1 \in 0..N /\ (k - 1) + 1 = k
        BY <1>2, <3>2
      <4>2. g[k - 1] = Ahead(s, k - 1)
        BY <4>1
      <4>3. Ahead(s, (k - 1) + 1) = Ahead(s, k - 1) \cup ({next[x] : x \in Ahead(s, k - 1)} \ {None})
        BY <1>0, <4>1, AheadSteps, Zenon DEF Listed
      <4>. QED
        BY <3>2, <4>1, <4>2, <4>3
    <3>. QED
      BY <3>1, <3>2
  <2>. QED
    BY <2>1
<1>. HIDE DEF path, g
<1>5. path = [k \in 0..N |->
                IF k = 0 THEN {allocs} \ {None}
                ELSE path[k - 1] \cup ({next[x] : x \in path[k - 1]} \ {None})]
  BY <1>3, <1>4
<1>6. path[N] = Usable
  BY <1>0, <1>1, <1>5, PathFindsList DEF Listed
<1>7. (\A t \in Threads : pc[t] = "client") => Usable = live
  BY DEF Usable
<1>8. (up = "up" /\ \A t \in Threads : pc[t] = "client") => Linked
  <2>1. SUFFICES ASSUME up = "up" /\ \A t \in Threads : pc[t] = "client" PROVE Linked
    OBVIOUS
  <2>2. \A i \in 1..Len(s) : prev[s[i]] = At(s, i - 1)
    BY <1>0, <2>1 DEF Listed, Backward
  <2>3. \A x \in live : \E i \in 1..Len(s) : x = s[i]
    BY <1>1, <1>7, <2>1 DEF Elems
  <2>4. allocs # None => prev[allocs] = None
    <3>1. SUFFICES ASSUME allocs # None PROVE prev[allocs] = None
      OBVIOUS
    <3>2. 1 \in 1..Len(s)
      BY <1>1, <3>1
    <3>3. allocs = s[1] /\ prev[s[1]] = At(s, 1 - 1) /\ 1 - 1 \notin 1..Len(s)
      BY <1>1, <2>2, <3>2
    <3>. QED
      BY <1>1, <3>3
  <2>5. ASSUME NEW x \in live, next[x] # None PROVE prev[next[x]] = x
    <3>1. PICK i \in 1..Len(s) : x = s[i]
      BY <2>3
    <3>2. next[x] = At(s, i + 1)
      BY <1>1, <3>1
    <3>3. i + 1 \in 1..Len(s)
      BY <1>1, <2>5, <3>2
    <3>4. next[x] = s[i + 1] /\ prev[s[i + 1]] = At(s, (i + 1) - 1) /\ (i + 1) - 1 = i
      BY <1>1, <2>2, <3>2, <3>3
    <3>. QED
      BY <1>1, <3>1, <3>4
  <2>6. ASSUME NEW x \in live, prev[x] # None PROVE next[prev[x]] = x
    <3>1. PICK i \in 1..Len(s) : x = s[i]
      BY <2>3
    <3>2. prev[x] = At(s, i - 1)
      BY <2>2, <3>1
    <3>3. i - 1 \in 1..Len(s)
      BY <1>1, <2>6, <3>2
    <3>4. prev[x] = s[i - 1] /\ next[s[i - 1]] = At(s, (i - 1) + 1) /\ (i - 1) + 1 = i
      BY <1>1, <3>2, <3>3
    <3>. QED
      BY <1>1, <3>1, <3>4
  <2>7. path[Cardinality(Segments)] = live
    BY <1>6, <1>7, <2>1
  <2>. QED
    BY <2>4, <2>5, <2>6, <2>7
<1>9. up = "destroying" => allocs \in live \cup {None}
  <2>1. SUFFICES ASSUME up = "destroying", allocs # None PROVE allocs \in live
    OBVIOUS
  <2>2. 1 \in 1..Len(s)
    BY <1>1, <2>1
  <2>3. allocs \in Usable
    BY <1>1, <2>2
  <2>. QED
    BY <2>3 DEF Usable
<1>10. up = "down" => live = {}
  BY <1>0 DEF Listed
<1>. QED
  BY <1>8, <1>9, <1>10 DEF ListIntact, path

\* The list of the reference is intact between two calls, however many segments
\* there are and in whatever order they are freed, and tm_destroy, which walks
\* it, meets live segments only and leaves none (ListIntact).
THEOREM ReferenceListIntact == Spec => []ListIntact
<1>1. Init => ListInv
  BY ListInit
<1>2. IInv /\ ListInv /\ [Next]_vars => ListInv'
  BY ListNext
<1>. QED
  BY <1>1, <1>2, Invariance, ListedIntact, PTL DEF Spec
=============================================================================
