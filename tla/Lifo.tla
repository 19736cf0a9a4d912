---------------------------------- MODULE Lifo ----------------------------------
(***************************************************************************)
(* What nanahan::Stack promises the threads that share it: a last-in       *)
(* first-out list whose operations take effect at one moment between their *)
(* call and their return (linearizability), each with the answer of that   *)
(* moment.  Stack implements this specification where its operations do    *)
(* not meet the defects the README lists.                                  *)
(***************************************************************************)
EXTENDS Sequences

CONSTANTS
  Threads,
  Nodes,      \* the elements: every push brings a node of its own
  NULL        \* "no element"

VARIABLES
  items,      \* the stack, its top first
  call,       \* the call each thread is in
  effect,     \* <<>> until the call has taken effect, then the node it took or brought
  answer      \* what each thread's last pop returned

lifoVars == <<items, call, effect, answer>>

NoCall == [kind |-> "none", node |-> NULL]

Init ==
  /\ items = <<>>
  /\ call = [t \in Threads |-> NoCall]
  /\ effect = [t \in Threads |-> <<>>]
  /\ answer = [t \in Threads |-> NULL]

Call(t) ==
  /\ call[t] = NoCall
  /\ \/ \E n \in Nodes : call' = [call EXCEPT ![t] = [kind |-> "push", node |-> n]]
     \/ call' = [call EXCEPT ![t] = [kind |-> "pop", node |-> NULL]]
  /\ UNCHANGED <<items, effect, answer>>

\* The moment a push takes effect ...
Push(t) ==
  /\ call[t].kind = "push" /\ effect[t] = <<>>
  /\ effect' = [effect EXCEPT ![t] = <<call[t].node>>]
  /\ items' = <<call[t].node>> \o items
  /\ UNCHANGED <<call, answer>>

\* ... and the moment a pop does: it takes the top, if there is one.
Pop(t) ==
  /\ call[t].kind = "pop" /\ effect[t] = <<>>
  /\ effect' = [effect EXCEPT ![t] = <<IF items = <<>> THEN NULL ELSE Head(items)>>]
  /\ items' = IF items = <<>> THEN <<>> ELSE Tail(items)
  /\ UNCHANGED <<call, answer>>

Return(t) ==
  /\ call' = [call EXCEPT ![t] = NoCall]
  /\ effect[t] # <<>>
  /\ effect' = [effect EXCEPT ![t] = <<>>]
  /\ answer' = IF call[t].kind = "pop" THEN [answer EXCEPT ![t] = effect[t][1]] ELSE answer
  /\ UNCHANGED items

Next == \E t \in Threads : Call(t) \/ Push(t) \/ Pop(t) \/ Return(t)

Spec == Init /\ [][Next]_lifoVars
=================================================================================
