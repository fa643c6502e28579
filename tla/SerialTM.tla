------------------------------ MODULE SerialTM ------------------------------
(***************************************************************************)
(* What include/tm.h promises of a transactional memory that never aborts: *)
(* a transaction works on the memory as it was when it began, as if it ran *)
(* alone, and a read-write transaction ends before another one's changes   *)
(* appear.                                                                 *)
(***************************************************************************)
CONSTANTS Threads, Words, Segments, Values, Zero, None

VARIABLES
    store,   \* the committed memory: allocated addresses -> values
    base,    \* the committed memory when the transaction of t began, or None
    view,    \* the memory as the transaction of t sees it, or None
    mode,    \* "none", "ro" or "rw"
    result   \* what the last read of t returned

vars == <<store, base, view, mode, result>>

Init ==
    /\ store = [w \in Words |-> Zero]
    /\ base = [t \in Threads |-> None]
    /\ view = [t \in Threads |-> None]
    /\ mode = [t \in Threads |-> "none"]
    /\ result = [t \in Threads |-> Zero]

Begin(t, m) ==
    /\ mode[t] = "none"
    /\ base' = [base EXCEPT ![t] = store]
    /\ view' = [view EXCEPT ![t] = store]
    /\ mode' = [mode EXCEPT ![t] = m]
    /\ UNCHANGED <<store, result>>

Read(t, a) ==
    /\ mode[t] # "none" /\ a \in DOMAIN view[t]
    /\ result' = [result EXCEPT ![t] = view[t][a]]
    /\ UNCHANGED <<store, base, view, mode>>

Change(t, v) ==
    /\ mode[t] = "rw"
    /\ view' = [view EXCEPT ![t] = v]
    /\ UNCHANGED <<store, base, mode, result>>

Write(t, a, v) == a \in DOMAIN view[t] /\ Change(t, [view[t] EXCEPT ![a] = v])

Alloc(t, s) ==
    /\ s \notin DOMAIN view[t]
    /\ Change(t, [a \in DOMAIN view[t] \cup {s} |-> IF a = s THEN Zero ELSE view[t][a]])

Free(t, s) ==
    /\ s \in DOMAIN view[t]
    /\ Change(t, [a \in DOMAIN view[t] \ {s} |-> view[t][a]])

End(t) ==
    /\ mode[t] # "none"
    /\ mode[t] = "rw" => store = base[t]
    /\ store' = IF mode[t] = "rw" THEN view[t] ELSE store
    /\ base' = [base EXCEPT ![t] = None]
    /\ view' = [view EXCEPT ![t] = None]
    /\ mode' = [mode EXCEPT ![t] = "none"]
    /\ UNCHANGED result

Next == \E t \in Threads :
    \/ \E m \in {"ro", "rw"} : Begin(t, m)
    \/ \E a \in Words \cup Segments :
          Read(t, a) \/ \E v \in Values : mode[t] = "rw" /\ Write(t, a, v)
    \/ \E s \in Segments : mode[t] = "rw" /\ (Alloc(t, s) \/ Free(t, s))
    \/ End(t)

Spec == Init /\ [][Next]_vars
=============================================================================
