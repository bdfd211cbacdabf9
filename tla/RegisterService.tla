-------------------------- MODULE RegisterService --------------------------
(***************************************************************************)
(* What remote register access promises its single caller.  Calls are      *)
(* performed in the order they were made, each at most once and perhaps    *)
(* only in part; an answer is what this very call did, in full.  A call    *)
(* that failed may never be performed, or may still be performed later,    *)
(* but always before the calls made after it.                              *)
(***************************************************************************)
EXTENDS RegisterFile

CONSTANTS
    Registers,  \* the addresses
    Elements,   \* the elements a call may hold
    NoAnswer

VARIABLES
    regs,       \* the registers
    backlog,    \* calls made and neither performed nor lost: [call, elements]
    made,       \* calls made so far
    pending,    \* the call being waited for, 0 if none
    performed,  \* the calls performed in full: [call, bodies]
    answer      \* what the last call returned

serviceVars == <<regs, backlog, made, pending, performed, answer>>

ServiceInit ==
    /\ regs = [a \in Registers |-> {}]
    /\ backlog = <<>> /\ made = 0 /\ pending = 0
    /\ performed = {} /\ answer = NoAnswer

Make ==
    /\ pending = 0 /\ made' = made + 1 /\ pending' = made'
    /\ LET c == Last(backlog')
       IN  /\ backlog' = Append(backlog, c)
           /\ c.call = made' /\ c.elements \in Seq(Elements)
    /\ UNCHANGED <<regs, performed, answer>>

Perform ==
    /\ backlog # <<>> /\ backlog' = Tail(backlog)
    /\ LET c == Head(backlog) IN
       \E k \in 0 .. Len(c.elements) :
          /\ regs' = After(regs, c.elements, k)
          /\ performed' = IF k < Len(c.elements) THEN performed
                          ELSE performed \cup
                               {[call |-> c.call, bodies |-> Bodies(regs, c.elements, k)]}
    /\ UNCHANGED <<made, pending, answer>>

Drop ==
    /\ \E i \in DOMAIN backlog : backlog' = RemoveAt(backlog, i)
    /\ UNCHANGED <<regs, made, pending, performed, answer>>

Return ==
    /\ \E p \in performed : p.call = pending /\ answer' = p
    /\ pending' = 0
    /\ UNCHANGED <<regs, backlog, made, performed>>

\* A call also fails without being made at all.
Fail ==
    /\ answer' = NoAnswer /\ pending' = 0
    /\ UNCHANGED <<regs, backlog, made, performed>>

ServiceNext == Make \/ Perform \/ Drop \/ Return \/ Fail

ServiceSpec == ServiceInit /\ [][ServiceNext]_serviceVars

=============================================================================
