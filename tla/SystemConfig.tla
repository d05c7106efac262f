---------------------------- MODULE SystemConfig ----------------------------
(***************************************************************************)
(* The kernel_threads and irqs sections of the thread configurator.         *)
(* Kernel threads and IRQs announce nothing: the prerun node writes what it *)
(* observes into a template, the user edits it, and every apply pass scans  *)
(* /proc afresh, compares and changes only what differs.                    *)
(*                                                                          *)
(* The system calls and /proc are external; a call may fail, and a thread   *)
(* may exit between the scan and the call.                                  *)
(***************************************************************************)
EXTENDS Integers, FiniteSets, FiniteSetsExt

CONSTANTS
    Tids,             \* kernel threads
    Irqs,             \* IRQ numbers
    Cpus,             \* the CPUs of this machine; others may show up in masks
    ThreadStates,     \* bound: the states the kernel threads may start in
    IrqStates,        \* bound: the states the IRQs may start in
    Edits,            \* bound: the attribute lists the user may write
    MaxChanges        \* bound: changes of the system by others

\* YAML null, an absent key or UNMANAGEABLE: no policy, and {} for the other
\* attributes.  A number that is set is a singleton.
Unset == "unset"

VARIABLES
    threads,   \* kernel threads: comm, policy, tunable (nice, priority or
               \* deadline parameters), affinity, fixed (PF_NO_SETAFFINITY)
    irqs,      \* IRQs: actions, affinity, managed (the kernel refuses writes)
    balance,   \* irqbalance runs
    file,      \* the file: threads by comm and irqs by number, as YAML values
    entries,   \* kernel_thread_configs_
    pc, scan, todo, balanceSeen,
    outcome,   \* applied and failed threads and irqs of the pass
    touched,   \* ghost: what the pass tried to change
    asDumped,  \* ghost: neither file nor system changed since the template
    changes

vars == <<threads, irqs, balance, file, entries, pc, scan, todo, balanceSeen, outcome,
          touched, asDumped, changes>>

Policies == {"OTHER", "FIFO", "DEADLINE"}
IsCfs(p) == p = "OTHER"

Tunables(p) == IF IsCfs(p) THEN -20 .. 19 ELSE 1 .. 99

\* parse_manageable_cpu_list: CPUs beyond the bound are left out; {} means that
\* nothing is left or nothing could be read.
Manageable(mask) == mask \cap Cpus

-----------------------------------------------------------------------------
\* The prerun node: observed values become the desired ones.

Representable(p) == p \in Policies \ {"DEADLINE"}

EmitThread(i) ==
    [policy   |-> IF Representable(i.policy) THEN i.policy ELSE Unset,
     nice     |-> IF Representable(i.policy) /\ IsCfs(i.policy) THEN {i.tunable} ELSE {},
     priority |-> IF Representable(i.policy) /\ ~IsCfs(i.policy) THEN {i.tunable} ELSE {},
     deadline |-> {},
     affinity |-> IF i.fixed THEN {} ELSE Manageable(i.affinity)]

EmitIrq(i) == [name |-> i.actions, affinity |-> Manageable(i.affinity)]

Running == DOMAIN threads
CommsRunning == {threads[t].comm : t \in Running}
DeviceBacked == {n \in Irqs : irqs[n].actions # ""}

\* One entry per comm: the scan is sorted, and the lowest thread id stays.
Template ==
    [threads |-> [c \in CommsRunning |->
        EmitThread(threads[Min({t \in Running : threads[t].comm = c})])],
     irqs |-> [n \in DeviceBacked |-> EmitIrq(irqs[n])]]

-----------------------------------------------------------------------------
\* parse_kernel_threads and parse_irqs

Tunable(y) == IF y.policy = "DEADLINE" THEN y.deadline
              ELSE IF IsCfs(y.policy) THEN y.nice ELSE y.priority

ValidAffinity(y) == y.affinity \subseteq Cpus

ValidThread(y) ==
    /\ ValidAffinity(y)
    /\ IF y.policy = Unset
       THEN y.nice = {} /\ y.priority = {} /\ y.deadline = {}
       ELSE /\ y.policy \in Policies
            /\ Tunable(y) # {}
            /\ y.policy # "DEADLINE" => Tunable(y) \subseteq Tunables(y.policy)

ValidFile(f) ==
    /\ \A c \in DOMAIN f.threads : ValidThread(f.threads[c])
    /\ \A n \in DOMAIN f.irqs : ValidAffinity(f.irqs[n])

Attrs(y) == [policy |-> y.policy,
             tunable |-> IF y.policy = Unset THEN 0 ELSE Max(Tunable(y)),
             affinity |-> y.affinity]

IsManaged(a) == a.policy # Unset \/ a.affinity # {}

Parsed(f) ==
    [threads |-> [c \in DOMAIN f.threads |-> Attrs(f.threads[c])],
     irqs |-> f.irqs]

-----------------------------------------------------------------------------
\* apply_kernel_thread_configs

\* Compare before set.  DEADLINE parameters cannot be read back.
InSync_anyTunable(a, i) ==
    /\ a.policy # Unset => a.policy # "DEADLINE" /\ i.policy = a.policy
    /\ a.affinity # {} => Manageable(i.affinity) = a.affinity

InSync_rawMask(a, i) ==
    /\ a.policy # Unset => a.policy # "DEADLINE" /\ i.policy = a.policy /\ i.tunable = a.tunable
    /\ a.affinity # {} => i.affinity = a.affinity

InSync(a, i) ==
    /\ a.policy # Unset => a.policy # "DEADLINE" /\ i.policy = a.policy /\ i.tunable = a.tunable
    /\ a.affinity # {} => Manageable(i.affinity) = a.affinity

\* A per-CPU thread refuses any affinity but a request for the one it has is met.
OnFixed(a, i) == a.affinity # {} /\ i.fixed
Impossible(a, i) == OnFixed(a, i) /\ Manageable(i.affinity) # a.affinity

\* The thread after all system calls, and after those before the affinity's.
WithPolicy(a, i) == IF a.policy = Unset THEN i
                    ELSE [i EXCEPT !.policy = a.policy, !.tunable = a.tunable]
WithAll(a, i) == IF a.affinity = {} \/ OnFixed(a, i) THEN WithPolicy(a, i)
                 ELSE [WithPolicy(a, i) EXCEPT !.affinity = a.affinity]

Empty == [threads |-> {}, irqs |-> {}, badThreads |-> {}, badIrqs |-> {}]

StartPass ==
    /\ pc = "idle"
    /\ ValidFile(file)
    /\ entries' = Parsed(file)
    /\ scan' = threads
    /\ todo' = {t \in Running : /\ threads[t].comm \in DOMAIN entries'.threads
                                /\ IsManaged(entries'.threads[threads[t].comm])}
    /\ outcome' = Empty
    /\ touched' = [threads |-> {}, irqs |-> {}]
    /\ pc' = "threads"
    /\ UNCHANGED <<threads, irqs, balance, file, balanceSeen, asDumped, changes>>

\* A file that does not validate is rejected before anything is mutated.
Reject ==
    /\ pc = "idle"
    /\ ~ValidFile(file)
    /\ pc' = "rejected"
    /\ UNCHANGED <<threads, irqs, balance, file, entries, scan, todo, balanceSeen, outcome,
                   touched, asDumped, changes>>

ApplyThread ==
    /\ pc = "threads" /\ todo # {}
    /\ LET t == Min(todo)
           i == scan[t]
           a == entries.threads[i.comm]
       IN  /\ todo' = todo \ {t}
           /\ \/ /\ InSync(a, i)
                 /\ outcome' = [outcome EXCEPT !.threads = @ \cup {t}]
                 /\ UNCHANGED <<threads, touched>>
              \/ /\ ~InSync(a, i)
                 /\ Impossible(a, i)
                 /\ outcome' = [outcome EXCEPT !.badThreads = @ \cup {t}]
                 /\ UNCHANGED <<threads, touched>>
              \/ /\ ~InSync(a, i)
                 /\ ~Impossible(a, i)
                 /\ touched' = [touched EXCEPT !.threads = @ \cup {t}]
                 /\ \/ /\ t \in Running
                       /\ threads' = [threads EXCEPT ![t] = WithAll(a, i)]
                       /\ outcome' = [outcome EXCEPT !.threads = @ \cup {t}]
                    \/ /\ outcome' = [outcome EXCEPT !.badThreads = @ \cup {t}]
                       /\ \/ UNCHANGED threads
                          \/ /\ t \in Running
                             /\ threads' = [threads EXCEPT ![t] = WithPolicy(a, i)]
    /\ UNCHANGED <<irqs, balance, file, entries, pc, scan, balanceSeen, asDumped, changes>>

\* apply_irq_configs looks for irqbalance once, before the first entry.
StartIrqs ==
    /\ pc = "threads" /\ todo = {}
    /\ balanceSeen' = balance
    /\ todo' = {n \in DOMAIN entries.irqs : entries.irqs[n].affinity # {}}
    /\ pc' = "irqs"
    /\ UNCHANGED <<threads, irqs, balance, file, entries, scan, outcome, touched, asDumped,
                   changes>>

\* The IRQ is the one that was recorded; an empty name is not checked.
SameDevice(n) ==
    /\ irqs[n].actions # ""
    /\ entries.irqs[n].name \in {"", irqs[n].actions}

ApplyIrq ==
    /\ pc = "irqs" /\ todo # {}
    /\ LET n == Min(todo)
           wanted == entries.irqs[n].affinity
           fail == outcome' = [outcome EXCEPT !.badIrqs = @ \cup {n}]
           ok == outcome' = [outcome EXCEPT !.irqs = @ \cup {n}]
       IN  /\ todo' = todo \ {n}
           /\ \/ ~SameDevice(n) /\ fail /\ UNCHANGED <<irqs, touched>>
              \/ /\ SameDevice(n)
                 /\ Manageable(irqs[n].affinity) = wanted
                 /\ ok /\ UNCHANGED <<irqs, touched>>
              \/ /\ SameDevice(n)
                 /\ Manageable(irqs[n].affinity) # wanted
                 /\ \/ balanceSeen /\ fail /\ UNCHANGED <<irqs, touched>>
                    \/ /\ ~balanceSeen
                       /\ touched' = [touched EXCEPT !.irqs = @ \cup {n}]
                       /\ \/ fail /\ UNCHANGED irqs
                          \/ /\ ~irqs[n].managed
                             /\ irqs' = [irqs EXCEPT ![n].affinity = wanted]
                             /\ ok
    /\ UNCHANGED <<threads, balance, file, entries, pc, scan, balanceSeen, asDumped, changes>>

EndPass ==
    /\ pc = "irqs" /\ todo = {}
    /\ pc' = "done"
    /\ UNCHANGED <<threads, irqs, balance, file, entries, scan, todo, balanceSeen, outcome,
                   touched, asDumped, changes>>

Respond ==
    /\ pc \in {"done", "rejected"}
    /\ pc' = "idle"
    /\ asDumped' = (asDumped /\ (pc = "rejected" \/ touched = [threads |-> {}, irqs |-> {}]))
    /\ UNCHANGED <<threads, irqs, balance, file, entries, scan, todo, balanceSeen, outcome,
                   touched, changes>>

-----------------------------------------------------------------------------
\* The user and the rest of the system

Dump ==
    /\ pc = "idle"
    /\ file' = Template
    /\ asDumped' = TRUE
    /\ UNCHANGED <<threads, irqs, balance, entries, pc, scan, todo, balanceSeen, outcome,
                   touched, changes>>

EditEntry(c, y) ==
    /\ pc = "idle" /\ changes < MaxChanges
    /\ changes' = changes + 1
    /\ file' = [file EXCEPT !.threads[c] = y]
    /\ asDumped' = FALSE
    /\ UNCHANGED <<threads, irqs, balance, entries, pc, scan, todo, balanceSeen, outcome, touched>>

\* A kernel thread exits, at any time.
Exit(t) ==
    /\ t \in Running /\ changes < MaxChanges
    /\ changes' = changes + 1
    /\ threads' = [u \in Running \ {t} |-> threads[u]]
    /\ asDumped' = FALSE
    /\ UNCHANGED <<irqs, balance, file, entries, pc, scan, todo, balanceSeen, outcome, touched>>

\* irqbalance starts at any time and stops between passes.
Toggle ==
    /\ changes < MaxChanges
    /\ changes' = changes + 1
    /\ ~balance \/ pc = "idle"
    /\ balance' = ~balance
    /\ UNCHANGED <<threads, irqs, file, entries, pc, scan, todo, balanceSeen, outcome, touched,
                   asDumped>>

\* irqbalance rewrites a mask, or a reboot gives a number to another device.
ChangeIrq(n) ==
    /\ changes < MaxChanges
    /\ changes' = changes + 1
    /\ \/ /\ balance /\ ~irqs[n].managed
          /\ \E m \in {{c} : c \in Cpus} : irqs' = [irqs EXCEPT ![n].affinity = m]
       \/ /\ pc = "idle"
          /\ irqs' = [irqs EXCEPT ![n].actions = IF @ = "" THEN "eth" ELSE ""]
    /\ asDumped' = FALSE
    /\ UNCHANGED <<threads, balance, file, entries, pc, scan, todo, balanceSeen, outcome, touched>>

Init ==
    /\ threads \in [Tids -> ThreadStates]
    /\ irqs \in [Irqs -> IrqStates]
    /\ balance = FALSE
    /\ file = Template
    /\ entries = [threads |-> <<>>, irqs |-> <<>>]
    /\ pc = "idle" /\ scan = threads /\ todo = {} /\ balanceSeen = FALSE
    /\ outcome = Empty
    /\ touched = [threads |-> {}, irqs |-> {}]
    /\ asDumped = TRUE
    /\ changes = 0

Next ==
    \/ StartPass \/ Reject \/ ApplyThread \/ StartIrqs \/ ApplyIrq \/ EndPass \/ Respond \/ Dump
    \/ \E c \in DOMAIN file.threads, y \in Edits : EditEntry(c, y)
    \/ \E t \in Tids : Exit(t)
    \/ Toggle
    \/ \E n \in Irqs : ChangeIrq(n)

Spec == Init /\ [][Next]_vars

-----------------------------------------------------------------------------
\* "applied" means ensured: when the pass ends, a thread reported as applied has
\* the attributes of its entry or is gone, an IRQ has the CPUs asked for unless
\* irqbalance has started since, and the IRQ is still the recorded device.
AppliedIsEnsured ==
    pc = "done" =>
        /\ \A t \in outcome.threads \cap Running :
              LET a == entries.threads[threads[t].comm]
              IN  /\ a.policy # Unset =>
                        threads[t].policy = a.policy /\ threads[t].tunable = a.tunable
                  /\ a.affinity # {} => Manageable(threads[t].affinity) = a.affinity
        /\ \A n \in outcome.irqs :
              SameDevice(n) /\ (balance \/ Manageable(irqs[n].affinity) = entries.irqs[n].affinity)

\* The template of the prerun node is a valid file, and a pass over the unedited
\* template of an unchanged system touches nothing: no IRQ, and no thread but one
\* that shares its comm with a thread whose attributes differ.
TemplateIsNoOp ==
    asDumped =>
        /\ ValidFile(file)
        /\ pc = "done" =>
              /\ touched.irqs = {}
              /\ \A t \in touched.threads : \E u \in DOMAIN scan :
                    /\ scan[u].comm = scan[t].comm
                    /\ EmitThread(scan[u]) # EmitThread(scan[t])

=============================================================================
