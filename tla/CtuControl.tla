----------------------------- MODULE CtuControl -----------------------------
(***************************************************************************)
(* The commands of ctu_control.py over the class GLIB of ipbus.py, by the  *)
(* side of its block and FIFO calls.  A command is a short list of gets    *)
(* and sets.  GLIB swallows the exception of a call that failed and        *)
(* returns None; the command goes on with that, and only arithmetic on     *)
(* None stops it, with a TypeError that ends the program.                  *)
(*                                                                         *)
(* The device counts as far as the commands need it: bits 0 and 1 of       *)
(* force_trig are trigger lines (CTU_v0_top.vhd), a read of trig_info pops *)
(* a word of the trigger FIFO and a write to it empties the FIFO.          *)
(***************************************************************************)
EXTENDS BlockTransfer, FiniteSetsExt

CONSTANTS
    trig_info, force_trig, other,   \* addresses; other: any other register
    Typed                           \* bound: the values an operator types

\* They are three registers (ctu_register.dat).
ASSUME CtuAssumption ==
    /\ {trig_info, force_trig, other} \subseteq Nat
    /\ trig_info # force_trig /\ other \notin {trig_info, force_trig}
    /\ Typed \subseteq Nat

VARIABLES
    todo,       \* the gets and sets of the command still to be made
    values,     \* what those made returned
    outcome,    \* how the last command ended: [kind, values]
    unreleased, \* history: no 0 written to force_trig was acknowledged since the
                \* last one that was not, or since an operator or a block asserted it
    skewed      \* history: a pop of trig_info without a command to go with it

ctuVars == <<todo, values, outcome, unreleased, skewed>>
vars    == <<exchangeVars, blockVars, ctuVars>>

None == 0   \* no place in the log is 0

\* strict: the command computes with the value, so None is a TypeError.
get(addr, strict) == [op |-> "read", addr |-> addr, data |-> 0, strict |-> strict]
set(addr, data)   == [op |-> "write", addr |-> addr, data |-> data, strict |-> FALSE]

\* Mutated forms: the line is cleared first; both words are read by halves.
PulseSwapped(bit) == <<set(force_trig, 0), set(force_trig, bit)>>
Pulse(bit) == <<set(force_trig, bit), set(force_trig, 0)>>

TriggerInfoLax == <<get(trig_info, FALSE), get(trig_info, FALSE)>>
TriggerInfo == <<get(trig_info, TRUE), get(trig_info, TRUE)>>

\* What an operator types into main: hex(ctu.get(...)) of a register that may be
\* read, and hex(ctu.set(...)), where set returns None whatever becomes of it.
GetAndShow == {<<get(addr, TRUE)>> : addr \in {trig_info, other}}
SetAndShow == {<<[set(addr, data) EXCEPT !.strict = TRUE]>> :
                    addr \in {trig_info, force_trig, other}, data \in Typed}

Commands ==
    {Pulse(1),                                      \* force_trigger
     Pulse(2),                                      \* gcu_test_pulse
     TriggerInfo, <<set(trig_info, 0)>>,            \* trigger_information
     <<get(other, FALSE)>>,                         \* fifo_counter
     <<get(other, TRUE)>>, <<set(other, 1)>>,       \* set_threshold and its kind
     <<get(other, TRUE), get(other, TRUE)>>}        \* board_info, temp_voltage
    \cup GetAndShow \cup SetAndShow                  \* main

Command ==
    /\ phase = "idle" /\ calls < MaxCalls
    /\ todo' \in Commands /\ values' = <<>> /\ phase' = "command"
    /\ outcome' = [kind |-> "none", values |-> <<>>]
    /\ UNCHANGED <<calls, backlog, answer, log, blockVars, unreleased, skewed>>

\* GLIB.get and GLIB.set, as far as the recv of the packet they make.
Ask ==
    /\ phase = "command" /\ phase' = "asking"
    /\ calls' = calls + 1
    /\ LET s == Head(todo) IN
       /\ backlog' = Append(backlog, [call |-> calls', first |-> 0, op |-> s.op, fifo |-> FALSE,
                                      addr |-> s.addr, words |-> 1, data |-> <<s.data>>])
       /\ unreleased' = (unreleased \/ (s.strict /\ s.addr = force_trig /\ s.data # 0))
    /\ UNCHANGED <<answer, log, blockVars, todo, values, outcome, skewed>>

\* What a step that failed means for the command.  Mutated form: it is given up.
StopsOnFailure(s, value, ok) == ~ok \/ (s.strict /\ value = None)
Stops(s, value, ok) == s.strict /\ value = None

\* The command is this one get or set.
Alone == values = <<>> /\ Tail(todo) = <<>>

\* The step returns.  A get gives the word read, a set nothing.
Step(ok) ==
    LET s == Head(todo)
        value == IF ok /\ s.op = "read" THEN answer.at + 1 ELSE None
    IN  /\ phase = "asking" /\ (ok => Answered(calls, 0))
        /\ values' = Append(values, value)
        /\ \/ /\ Stops(s, value, ok)
              /\ phase' = "dead" /\ todo' = <<>>
              /\ outcome' = [kind |-> "TypeError", values |-> values']
           \/ /\ ~Stops(s, value, ok)
              /\ todo' = Tail(todo)
              /\ IF todo' = <<>>
                 THEN phase' = "idle" /\ outcome' = [kind |-> "returned", values |-> values']
                 ELSE phase' = "command" /\ UNCHANGED outcome
        /\ unreleased' = IF s.addr = force_trig /\ s.data = 0 THEN ~ok ELSE unreleased
        /\ skewed' = IF s.addr # trig_info THEN skewed
                     ELSE IF s.op = "write" THEN skewed /\ ~ok
                     ELSE skewed \/ ~ok \/ Alone
        /\ UNCHANGED <<calls, backlog, answer, log, blockVars>>

\* force_trig may not be read (ctu_register.dat): main swallows that exception
\* too, and nothing is sent.
GetRefused ==
    /\ phase = "idle" /\ phase' = "dead"
    /\ outcome' = [kind |-> "TypeError", values |-> <<None>>]
    /\ UNCHANGED <<calls, backlog, answer, log, blockVars, todo, values, unreleased, skewed>>

\* The operator starts the program again: a new socket, which no late answer
\* reaches.
Restart ==
    /\ phase = "dead" /\ phase' = "idle"
    /\ UNCHANGED <<calls, backlog, answer, log, blockVars, ctuVars>>

\* The words that the transfer c has for the address.
WordsFor(c, addr) == {j \in 1 .. c.depth : c.addr + (IF c.fifo THEN 0 ELSE j - 1) = addr}

\* A block or FIFO call on the same client, by GLIB or directly.  (The blockWrite
\* of GLIB itself names a variable that does not exist, and sends nothing.)
GlibBlockCall ==
    /\ BlockCall
    /\ skewed' = (skewed \/ (phase' = "looping" /\ WordsFor(call', trig_info) # {}))
    /\ unreleased' = (unreleased \/ (/\ phase' = "looping"
                                      /\ \E j \in WordsFor(call', force_trig) : call'.data[j] # 0))
    /\ UNCHANGED <<todo, values, outcome>>

Init ==
    /\ BlockInit
    /\ todo = <<>> /\ values = <<>> /\ outcome = [kind |-> "none", values |-> <<>>]
    /\ unreleased = FALSE /\ skewed = FALSE

Next ==
    \/ Command \/ Ask \/ GetRefused \/ Restart
    \/ \E ok \in BOOLEAN : Step(ok)
    \/ GlibBlockCall
    \/ Outside /\ UNCHANGED <<blockVars, ctuVars>>

\* The program is one thread that always runs on; recv ends after a second.
FairSpec ==
    /\ Init /\ [][Next]_vars
    /\ WF_vars(Ask) /\ WF_vars(Step(FALSE))
    /\ WF_vars(GlibBlockCall /\ (SendPart \/ PartFails))

-----------------------------------------------------------------------------
\* The level of a write-only register: the last value written to it.
WritesTo(addr) == {i \in DOMAIN log : log[i].op = "write" /\ log[i].addr = addr}
Level(addr) == IF WritesTo(addr) = {} THEN 0 ELSE log[Max(WritesTo(addr))].data

\* A trigger line is left asserted by nothing but a clearing write that was not
\* acknowledged, or an operator or a block call that asserted it by its own value:
\* neither a lost answer to the asserting write of a command, nor one performed
\* late, does that, and an acknowledged clearing write ends it.
TriggerReleased == (phase = "idle" /\ ~unreleased) => Level(force_trig) = 0

\* trigger_information returns two words popped one right after the other, and
\* the first half of a trigger first, unless a word was popped before without
\* such a command, by a get of its own, say, and the FIFO was not emptied since.
PairTogether ==
    (outcome.kind = "returned" /\ Len(outcome.values) = 2 /\ phase = "idle"
        /\ outcome.values[1] # None /\ log[outcome.values[1]].addr = trig_info) =>
    LET a == outcome.values[1]
        b == outcome.values[2]
        emptied == Max(WritesTo(trig_info) \cup {0})
        pops(i) == {j \in emptied + 1 .. i : log[j].op = "read" /\ log[j].addr = trig_info}
    IN  /\ b = a + 1 /\ log[b].op = "read" /\ log[b].addr = trig_info
        /\ (~skewed /\ emptied < a) => Cardinality(pops(a)) % 2 = 1

\* Every call and every command ends, if need be with an exception.
EveryCommandEnds == phase # "idle" ~> phase = "idle" \/ phase = "dead"

=============================================================================
