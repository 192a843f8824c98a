------------------------- MODULE SystemCalls_proof -------------------------
(***************************************************************************)
(* System calls for any number of tasks, any values in registers and any   *)
(* call numbers.                                                           *)
(***************************************************************************)
EXTENDS SystemCalls, TLAPS

(***************************************************************************)
(* push and pop                                                            *)
(***************************************************************************)

(* Inside a call a register may hold what no task puts into it.            *)
AnyRegisters == [eax : Int, esp : Int, ebx : Int, ecx : Int, edx : Int,
                 fs : Int, es : Int, ds : Int]

Machines == [reg : AnyRegisters, word : [{"process page", "page 0"} -> Word],
             wild : BOOLEAN]

LEMMA RegistersAreNumbers ==
  /\ \A r \in Registers : r \in AnyRegisters
  /\ \A r \in AnyRegisters : r.esp \in Int /\ r.eax \in Int
  /\ \A m \in Machines : m.reg \in AnyRegisters
<1>1. \A v \in Word : v \in Int
  BY CallAssumption DEF Word
<1>2. QED
  BY <1>1 DEF Registers, AnyRegisters, Machines

(* A push counts the stack pointer up and leaves the registers.            *)
LEMMA PushOne ==
  ASSUME NEW m \in Machines, NEW reg \in Saved, m.reg[reg] \in Word
  PROVE  /\ push(m, reg) \in Machines
         /\ push(m, reg).reg = [m.reg EXCEPT !.esp = @ + 1]
<1> DEFINE at == Location(m.reg)
           stored == [x \in DOMAIN m.word |-> IF x = at THEN m.reg[reg] ELSE m.word[x]]
           up == [m.reg EXCEPT !.esp = @ + 1]
           w == m.wild \/ at = "wild"
<1>1. push(m, reg) = [reg |-> up, word |-> stored, wild |-> w]
  BY DEF push
<1>2. up \in AnyRegisters
  <2>1. m.reg \in AnyRegisters
    BY DEF Machines
  <2>2. QED
    BY <2>1 DEF AnyRegisters
<1>3. stored \in [{"process page", "page 0"} -> Word]
  BY DEF Machines
<1>4. w \in BOOLEAN
  OBVIOUS
<1> HIDE DEF up, stored, w, at
<1>5. push(m, reg) \in Machines /\ push(m, reg).reg = up
  <2>1. push(m, reg).reg = up
    BY <1>1
  <2>2. [reg |-> up, word |-> stored, wild |-> w] \in Machines
    BY <1>2, <1>3, <1>4 DEF Machines
  <2>3. QED
    BY <1>1, <2>1, <2>2
<1>6. QED
  BY <1>5 DEF up

(* The six pushes of a call.                                               *)
LEMMA PushAll ==
  ASSUME NEW r \in Registers, NEW m \in Machines, m.reg = r
  PROVE  Push(m) \in Machines /\ Push(m).reg = [r EXCEPT !.esp = @ + 6]
<1> DEFINE Is(x, k) == x \in Machines /\ x.reg = [r EXCEPT !.esp = @ + k]
<1>1. ASSUME NEW x, NEW k \in Nat, Is(x, k), NEW reg \in Saved
      PROVE  Is(push(x, reg), k + 1)
  <2>1. x.reg[reg] \in Word
    <3>1. reg \in {"ebx", "ecx", "edx", "fs", "es", "ds"}
      BY DEF Saved
    <3>2. x.reg[reg] = r[reg]
      BY <1>1, <3>1 DEF Registers
    <3>3. QED
      BY <3>1, <3>2 DEF Registers
  <2>2. push(x, reg) \in Machines /\ push(x, reg).reg = [x.reg EXCEPT !.esp = @ + 1]
    BY <1>1, <2>1, PushOne
  <2>3. [x.reg EXCEPT !.esp = @ + 1] = [r EXCEPT !.esp = @ + (k + 1)]
    <3>1. x.reg = [r EXCEPT !.esp = @ + k]
      BY <1>1
    <3>2. r.esp \in Int /\ r.esp + k + 1 = r.esp + (k + 1)
      BY DEF Registers
    <3>3. [[r EXCEPT !.esp = @ + k] EXCEPT !.esp = @ + 1] = [r EXCEPT !.esp = @ + k + 1]
      BY DEF Registers
    <3>4. QED
      BY <3>1, <3>2, <3>3
  <2>4. QED
    BY <2>2, <2>3
<1>2. Is(m, 0)
  BY DEF Registers
<1>3. /\ "ds" \in Saved /\ "es" \in Saved /\ "fs" \in Saved
      /\ "edx" \in Saved /\ "ecx" \in Saved /\ "ebx" \in Saved
  BY DEF Saved
<1> HIDE DEF Is
<1> DEFINE m1 == push(m, "ds")
           m2 == push(m1, "es")
           m3 == push(m2, "fs")
           m4 == push(m3, "edx")
           m5 == push(m4, "ecx")
           m6 == push(m5, "ebx")
<1>4. Push(m) = m6
  BY DEF Push
<1>5. Is(m1, 0 + 1)
  BY <1>1, <1>2, <1>3
<1> HIDE DEF m1
<1>6. Is(m2, 1 + 1)
  BY <1>1, <1>3, <1>5
<1> HIDE DEF m2
<1>7. Is(m3, 2 + 1)
  BY <1>1, <1>3, <1>6
<1> HIDE DEF m3
<1>8. Is(m4, 3 + 1)
  BY <1>1, <1>3, <1>7
<1> HIDE DEF m4
<1>9. Is(m5, 4 + 1)
  BY <1>1, <1>3, <1>8
<1> HIDE DEF m5
<1>10. Is(m6, 5 + 1)
  BY <1>1, <1>3, <1>9
<1>11. QED
  BY <1>4, <1>10 DEF Is

(* How the registers of a machine may differ from those of one from which  *)
(* k of the saved registers, those in S, were popped.                      *)
Popped(m, n, S, k) ==
  /\ m \in Machines
  /\ m.reg.esp = n.reg.esp - k
  /\ m.reg.eax = n.reg.eax
  /\ \A reg \in S : m.reg[reg] \in Word

LEMMA PopOne ==
  ASSUME NEW ms \in SUBSET Machines, NEW reg \in Saved, NEW m \in pop(ms, reg)
  PROVE  \E n \in ms : /\ Popped(m, n, {reg}, 1)
                       /\ \A r \in Saved \ {reg} : m.reg[r] = n.reg[r]
<1> DEFINE Read(n) == IF Location(n.reg) = "wild" THEN Garbage
                                                  ELSE {n.word[Location(n.reg)]}
<1>1. PICK n \in ms : m \in {[n EXCEPT !.reg.esp = @ - 1, !.reg[reg] = v] : v \in Read(n)}
  BY Zenon DEF pop
<1>2. PICK v \in Read(n) : m = [n EXCEPT !.reg.esp = @ - 1, !.reg[reg] = v]
  BY <1>1
<1>3. n \in Machines /\ n.reg \in AnyRegisters
  BY DEF Machines
<1>4. v \in Word
  <2>1. Location(n.reg) \in {"process page", "page 0", "wild"}
    BY DEF Location
  <2>2. QED
    BY <1>2, <1>3, <2>1 DEF Machines, Word
<1>5. v \in Int
  BY <1>4, CallAssumption DEF Word
<1> DEFINE r1 == [n.reg EXCEPT !.esp = @ - 1]
           r2 == [r1 EXCEPT ![reg] = v]
<1>6. m = [n EXCEPT !.reg = r2]
  BY <1>2
<1>7. reg \in {"ebx", "ecx", "edx", "fs", "es", "ds"}
  BY DEF Saved
<1>8. r1 \in AnyRegisters /\ r1.esp = n.reg.esp - 1 /\ r1.eax = n.reg.eax
      /\ \A r \in Saved : r1[r] = n.reg[r]
  BY <1>3 DEF AnyRegisters, Saved
<1>9. r2 \in AnyRegisters /\ r2.esp = n.reg.esp - 1 /\ r2.eax = n.reg.eax
      /\ r2[reg] = v /\ \A r \in Saved \ {reg} : r2[r] = n.reg[r]
  BY <1>5, <1>7, <1>8 DEF AnyRegisters, Saved
<1> HIDE DEF r1, r2
<1>10. m = [reg |-> r2, word |-> n.word, wild |-> n.wild]
  BY <1>3, <1>6 DEF Machines
<1>11. QED
  BY <1>3, <1>4, <1>9, <1>10 DEF Machines, Popped

(* The six pops of a return: whatever the words were, the stack pointer is *)
(* six lower, eax is kept and the other registers hold words.              *)
LEMMA PopAll ==
  ASSUME NEW n \in Machines, NEW m \in Pop({n})
  PROVE  /\ m.reg \in Registers
         /\ m.reg.esp = n.reg.esp - 6
         /\ m.reg.eax = n.reg.eax
<1> DEFINE s1 == pop({n}, "ebx")
           s2 == pop(s1, "ecx")
           s3 == pop(s2, "edx")
           s4 == pop(s3, "fs")
           s5 == pop(s4, "es")
           s6 == pop(s5, "ds")
<1>1. /\ "ds" \in Saved /\ "es" \in Saved /\ "fs" \in Saved
      /\ "edx" \in Saved /\ "ecx" \in Saved /\ "ebx" \in Saved
  BY DEF Saved
<1> DEFINE All(ms, S, k) == \A x \in ms : Popped(x, n, S, k)
<1>2. ASSUME NEW ms, NEW S \in SUBSET Saved, NEW k \in Nat, All(ms, S, k),
             NEW reg \in Saved
      PROVE  All(pop(ms, reg), S \cup {reg}, k + 1)
  <2> SUFFICES ASSUME NEW x \in pop(ms, reg)
               PROVE  Popped(x, n, S \cup {reg}, k + 1)
    OBVIOUS
  <2>1. ms \in SUBSET Machines
    BY <1>2 DEF Popped
  <2>2. PICK y \in ms : /\ Popped(x, y, {reg}, 1)
                        /\ \A r \in Saved \ {reg} : x.reg[r] = y.reg[r]
    BY <2>1, PopOne
  <2>3. Popped(y, n, S, k)
    BY <1>2
  <2>4. x.reg.esp = n.reg.esp - (k + 1)
    <3>1. x.reg.esp = y.reg.esp - 1 /\ y.reg.esp = n.reg.esp - k
      BY <2>2, <2>3 DEF Popped
    <3>2. n.reg.esp \in Int
      BY RegistersAreNumbers
    <3>3. QED
      BY <3>1, <3>2
  <2>5. \A r \in S \cup {reg} : x.reg[r] \in Word
    BY <2>2, <2>3 DEF Popped
  <2>6. QED
    BY <2>2, <2>3, <2>4, <2>5 DEF Popped
<1>3. All({n}, {}, 0)
  <2>1. n.reg.esp \in Int
    BY RegistersAreNumbers
  <2>2. QED
    BY <2>1 DEF Popped
<1>4. Pop({n}) = s6
  BY DEF Pop
<1> HIDE DEF All
<1>5. All(s1, {} \cup {"ebx"}, 0 + 1)
  BY <1>1, <1>2, <1>3
<1> HIDE DEF s1
<1>6. All(s2, {"ebx"} \cup {"ecx"}, 1 + 1)
  BY <1>1, <1>2, <1>5
<1> HIDE DEF s2
<1>7. All(s3, {"ebx", "ecx"} \cup {"edx"}, 2 + 1)
  BY <1>1, <1>2, <1>6
<1> HIDE DEF s3
<1>8. All(s4, {"ebx", "ecx", "edx"} \cup {"fs"}, 3 + 1)
  BY <1>1, <1>2, <1>7
<1> HIDE DEF s4
<1>9. All(s5, {"ebx", "ecx", "edx", "fs"} \cup {"es"}, 4 + 1)
  <2>1. {"ebx", "ecx", "edx", "fs"} \in SUBSET Saved
    BY <1>1
  <2>2. All(s4, {"ebx", "ecx", "edx", "fs"}, 4)
    <3>1. {"ebx", "ecx", "edx"} \cup {"fs"} = {"ebx", "ecx", "edx", "fs"}
      OBVIOUS
    <3>2. QED
      BY <1>8, <3>1
  <2>3. QED
    BY <1>1, <1>2, <2>1, <2>2
<1> HIDE DEF s5
<1>10. All(s6, {"ebx", "ecx", "edx", "fs", "es"} \cup {"ds"}, 5 + 1)
  <2>1. {"ebx", "ecx", "edx", "fs", "es"} \in SUBSET Saved
    BY <1>1
  <2>2. All(s5, {"ebx", "ecx", "edx", "fs", "es"}, 5)
    <3>1. {"ebx", "ecx", "edx", "fs"} \cup {"es"} = {"ebx", "ecx", "edx", "fs", "es"}
      OBVIOUS
    <3>2. QED
      BY <1>9, <3>1
  <2>3. QED
    BY <1>1, <1>2, <2>1, <2>2
<1> HIDE DEF s6
<1>11. Popped(m, n, Saved, 6)
  <2>1. {"ebx", "ecx", "edx", "fs", "es"} \cup {"ds"} = Saved
    BY DEF Saved
  <2>2. QED
    BY <1>4, <1>10, <2>1 DEF All
<1>12. m.reg \in AnyRegisters /\ \A r \in Saved : m.reg[r] \in Word
  BY <1>11 DEF Popped, Machines
<1>13. m.reg \in Registers
  BY <1>12 DEF AnyRegisters, Registers, Saved
<1>14. QED
  BY <1>11, <1>13 DEF Popped

(***************************************************************************)
(* The inductive invariant                                                 *)
(***************************************************************************)

(* Slots not yet given away have nothing pending, a child that is to come  *)
(* back from its father's call has come to run by a jump from another task,*)
(* and what a sleeping task fell asleep with is in its tss.                *)
IInv ==
  /\ SCTypeOK
  /\ \A t \in Task : t >= live => pending[t] = "nothing"
  /\ pending[running] # "nothing" => var # 0 /\ var # TSSEntry(running)
  /\ \A t \in Task : left[t] # NULL =>
       t < live /\ t # running /\ left[t] = tss[t]

(* The counters, of which the provers must know that they are numbers.     *)
LEMMA Numbers ==
  ASSUME SCTypeOK
  PROVE  /\ live \in Nat /\ 1 <= live /\ live <= MAX_TASK_NUM
         /\ running \in Nat /\ running < live /\ running \in Task
         /\ MAX_TASK_NUM \in Nat
         /\ \A t \in Task : t \in Nat
<1>1. live \in 1 .. MAX_TASK_NUM /\ running \in 0 .. live - 1
  BY DEF SCTypeOK
<1>2. MAX_TASK_NUM \in Nat
  BY CallAssumption
<1>3. live \in Nat /\ 1 <= live /\ live <= MAX_TASK_NUM
  BY <1>1, <1>2
<1>4. running \in Nat /\ running < live
  BY <1>1, <1>3
<1>5. \A t \in Task : t \in Nat
  BY <1>2 DEF Task
<1>6. running \in Task
  BY <1>2, <1>3, <1>4 DEF Task
<1>7. QED
  BY <1>2, <1>3, <1>4, <1>5, <1>6

(* The other variables.                                                    *)
LEMMA Functions ==
  ASSUME SCTypeOK
  PROVE  /\ tss \in [Task -> Registers]
         /\ pending \in [Task -> {"nothing", "on_system_call"}]
         /\ left \in [Task -> Registers \cup {NULL}]
<1>1. QED
  BY DEF SCTypeOK

LEMMA EaxIsFree ==
  ASSUME NEW r \in Registers, NEW v \in Int
  PROVE  [r EXCEPT !.eax = v] \in Registers
<1>1. QED
  BY DEF Registers

(* What a call of fork does to the registers, in the father                *)
LEMMA FatherReturns ==
  ASSUME IInv, ForkCall, kernel' = "up"
  PROVE  /\ cpu' \in Registers /\ cpu'.esp = cpu.esp /\ cpu'.eax = fork_process
         /\ word' \in [{"process page", "page 0"} -> Word]
<1> DEFINE in == Push(Machine(cpu))
           called == [in EXCEPT !.reg = [@ EXCEPT
                        !.edx = UserSelector, !.ds = KernelSelector,
                        !.es = KernelSelector, !.fs = UserSelector,
                        !.eax = fork_process]]
<1>1. cpu \in Registers /\ word \in [{"process page", "page 0"} -> Word]
  BY DEF IInv, SCTypeOK
<1>2. cpu \in AnyRegisters
  BY <1>1, RegistersAreNumbers
<1>3. Machine(cpu) \in Machines /\ Machine(cpu).reg = cpu
  BY <1>1, <1>2 DEF Machine, Machines
<1>4. in \in Machines /\ in.reg = [cpu EXCEPT !.esp = @ + 6]
  BY <1>1, <1>3, PushAll
<1>5. ~in.wild /\ (\E m \in Pop({called}) : cpu' = m.reg) /\ word' = in.word
  BY DEF ForkCall, Fault
<1>6. fork_process \in Int
  <2>1. live \in Int
    BY Numbers DEF IInv
  <2>2. QED
    BY <2>1 DEF fork_process, ForkResult, switch_to, ERROR_PROCESS_FULL
<1> HIDE DEF in
<1> DEFINE reg == [in.reg EXCEPT !.edx = UserSelector, !.ds = KernelSelector,
                                 !.es = KernelSelector, !.fs = UserSelector,
                                 !.eax = fork_process]
<1>7. in.reg \in AnyRegisters /\ in.reg.esp = cpu.esp + 6
  BY <1>1, <1>4 DEF Machines, Registers
<1>8. reg \in AnyRegisters /\ reg.esp = cpu.esp + 6 /\ reg.eax = fork_process
  <2> DEFINE r1 == [in.reg EXCEPT !.edx = UserSelector]
             r2 == [r1 EXCEPT !.ds = KernelSelector]
             r3 == [r2 EXCEPT !.es = KernelSelector]
             r4 == [r3 EXCEPT !.fs = UserSelector]
             r5 == [r4 EXCEPT !.eax = fork_process]
  <2>1. r1 \in AnyRegisters /\ r1.esp = in.reg.esp
    BY <1>7 DEF AnyRegisters, UserSelector
  <2>2. reg = r5
    OBVIOUS
  <2> HIDE DEF r1
  <2>3. r2 \in AnyRegisters /\ r2.esp = in.reg.esp
    BY <2>1 DEF AnyRegisters, KernelSelector
  <2> HIDE DEF r2
  <2>4. r3 \in AnyRegisters /\ r3.esp = in.reg.esp
    BY <2>3 DEF AnyRegisters, KernelSelector
  <2> HIDE DEF r3
  <2>5. r4 \in AnyRegisters /\ r4.esp = in.reg.esp
    BY <2>4 DEF AnyRegisters, UserSelector
  <2> HIDE DEF r4
  <2>6. r5 \in AnyRegisters /\ r5.esp = in.reg.esp /\ r5.eax = fork_process
    BY <1>6, <2>5 DEF AnyRegisters
  <2> HIDE DEF reg, r5
  <2>7. QED
    BY <1>7, <2>2, <2>6
<1>9. called = [reg |-> reg, word |-> in.word, wild |-> in.wild]
  <2>1. called = [in EXCEPT !.reg = reg]
    OBVIOUS
  <2> HIDE DEF reg, called
  <2>2. QED
    BY <1>4, <2>1 DEF Machines
<1> HIDE DEF called, reg
<1>10. called \in Machines /\ called.reg = reg
  BY <1>4, <1>8, <1>9 DEF Machines
<1>11. PICK m \in Pop({called}) : cpu' = m.reg
  BY <1>5
<1>12. m.reg \in Registers /\ m.reg.esp = called.reg.esp - 6 /\ m.reg.eax = called.reg.eax
  BY <1>10, PopAll
<1>13. cpu.esp \in Int
  BY <1>1 DEF Registers
<1>14. QED
  <2>1. cpu'.esp = cpu.esp
    <3>1. cpu'.esp = (cpu.esp + 6) - 6
      BY <1>8, <1>10, <1>11, <1>12
    <3>2. QED
      BY <1>13, <3>1
  <2>2. cpu' \in Registers /\ cpu'.eax = fork_process
    BY <1>8, <1>10, <1>11, <1>12
  <2>3. word' \in [{"process page", "page 0"} -> Word]
    BY <1>4, <1>5 DEF Machines
  <2>4. QED
    BY <2>1, <2>2, <2>3

(* and in the child.                                                       *)
LEMMA ChildReturns ==
  ASSUME IInv, ChildCallReturn
  PROVE  cpu' \in Registers /\ cpu'.eax = 0
<1> DEFINE r == [cpu EXCEPT !.eax = ForkResult(var, running)]
<1>1. cpu \in Registers /\ word \in [{"process page", "page 0"} -> Word]
  BY DEF IInv, SCTypeOK
<1>2. r \in AnyRegisters /\ r.eax = 0
  <2>1. cpu \in AnyRegisters
    BY <1>1, RegistersAreNumbers
  <2>2. ForkResult(var, running) = 0
    BY DEF ChildCallReturn, IInv, ForkResult, switch_to
  <2>3. QED
    BY <2>1, <2>2 DEF AnyRegisters
<1>3. PICK m \in Pop({Machine(r)}) : cpu' = m.reg
  BY DEF ChildCallReturn
<1> HIDE DEF r
<1>4. Machine(r) \in Machines /\ Machine(r).reg = r
  BY <1>1, <1>2 DEF Machine, Machines
<1>5. QED
  BY <1>2, <1>3, <1>4, PopAll

(***************************************************************************)
(* The steps                                                               *)
(***************************************************************************)

LEMMA InitHolds == SCInit => IInv
<1> SUFFICES ASSUME SCInit PROVE IInv
  OBVIOUS
<1>1. FirstRegisters \in Registers
  BY CallAssumption DEF FirstRegisters, Registers, UserSelector, Word
<1>2. SCTypeOK
  <2>1. Garbage \subseteq Word
    BY DEF Word
  <2>2. 1 \in 1 .. MAX_TASK_NUM /\ 0 \in 0 .. 1 - 1
    BY CallAssumption
  <2>3. live \in 1 .. MAX_TASK_NUM /\ running \in 0 .. live - 1
    BY <2>2 DEF SCInit
  <2>4. /\ cpu \in Registers
        /\ tss \in [Task -> Registers]
        /\ left \in [Task -> Registers \cup {NULL}]
    BY <1>1 DEF SCInit
  <2>5. /\ pending \in [Task -> {"nothing", "on_system_call"}]
        /\ word \in [{"process page", "page 0"} -> Word]
        /\ kernel \in {"up", "fault"} /\ var \in Nat
    <3>1. word \in [{"process page", "page 0"} -> Garbage]
      BY DEF SCInit
    <3>2. word \in [{"process page", "page 0"} -> Word]
      BY <2>1, <3>1
    <3>3. QED
      BY <3>2 DEF SCInit
  <2>6. QED
    BY <2>3, <2>4, <2>5 DEF SCTypeOK
<1>3. running \in Task /\ \A t \in Task : pending[t] = "nothing"
  <2>1. running \in Task
    BY <1>2, Numbers
  <2>2. QED
    BY <2>1 DEF SCInit
<1>4. QED
  BY <1>2, <1>3 DEF IInv, SCInit

(* What a fork leaves to the task that forks: it goes on, with registers   *)
(* of its own.                                                             *)
ForkerGoesOn ==
  /\ cpu' \in Registers
  /\ word' \in [{"process page", "page 0"} -> Word]
  /\ UNCHANGED <<running, var, kernel, left>>

Beginning == {"nothing", "on_system_call"}

(* A fork gives the next slot away and touches no task that sleeps.        *)
LEMMA Forks ==
  ASSUME IInv, NEW begin \in Beginning, ForkTask(begin), ForkerGoesOn
  PROVE  IInv'
<1>1. SCTypeOK
  BY DEF IInv
<1>2. /\ live \in Nat /\ 1 <= live /\ live <= MAX_TASK_NUM
      /\ running \in Nat /\ running < live /\ running \in Task
      /\ MAX_TASK_NUM \in Nat
      /\ \A t \in Task : t \in Nat
  BY <1>1, Numbers
<1>3. /\ cpu' \in Registers
      /\ word' \in [{"process page", "page 0"} -> Word]
      /\ kernel' \in {"up", "fault"}
      /\ left' \in [Task -> Registers \cup {NULL}]
  BY <1>1 DEF ForkerGoesOn, SCTypeOK
<1>4. running' = running /\ left' = left /\ var' = var
  BY DEF ForkerGoesOn
<1>5. CASE ~HasRoom
  <2>1. UNCHANGED <<live, tss, pending>>
    BY <1>5 DEF ForkTask
  <2>2. SCTypeOK'
    BY <1>1, <1>3, <1>4, <2>1 DEF SCTypeOK
  <2>3. QED
    BY <1>4, <2>1, <2>2 DEF IInv
<1>6. CASE HasRoom
  <2> DEFINE child == [tss[running] EXCEPT !.eax = 0]
  <2>1. /\ live' = live + 1
        /\ tss' = [tss EXCEPT ![live] = child]
        /\ pending' = [pending EXCEPT ![live] = begin]
    BY <1>6 DEF ForkTask
  <2>2. live \in Task
    BY <1>2, <1>6 DEF HasRoom, Task
  <2>3. child \in Registers
    <3>1. tss[running] \in Registers
      BY <1>2, <1>1, Functions
    <3>2. QED
      BY <3>1 DEF Registers
  <2> HIDE DEF child
  <2>4. /\ tss' \in [Task -> Registers]
        /\ pending' \in [Task -> {"nothing", "on_system_call"}]
    BY <1>1, <2>1, <2>3, Functions DEF Beginning
  <2>5. live' \in 1 .. MAX_TASK_NUM
    BY <1>2, <1>6, <2>1 DEF HasRoom
  <2>6. running' \in 0 .. live' - 1
    BY <1>2, <1>4, <2>1
  <2>7. SCTypeOK'
    BY <1>1, <1>3, <1>4, <2>4, <2>5, <2>6 DEF SCTypeOK
  <2>8. \A t \in Task : t >= live' => pending'[t] = "nothing"
    <3> SUFFICES ASSUME NEW t \in Task, t >= live' PROVE pending'[t] = "nothing"
      OBVIOUS
    <3>1. t >= live /\ t # live
      BY <1>2, <2>1
    <3>2. pending[t] = "nothing"
      BY <3>1 DEF IInv
    <3>3. QED
      BY <1>1, <2>1, <3>1, <3>2, Functions
  <2>9. \A t \in Task : left'[t] # NULL =>
          t < live' /\ t # running' /\ left'[t] = tss'[t]
    <3> SUFFICES ASSUME NEW t \in Task, left[t] # NULL
                 PROVE  t < live' /\ t # running /\ left[t] = tss'[t]
      BY <1>4
    <3>1. t < live /\ t # running /\ left[t] = tss[t]
      BY DEF IInv
    <3>2. t < live' /\ t # live
      BY <1>2, <2>1, <3>1
    <3>3. tss'[t] = tss[t]
      BY <1>1, <2>1, <3>2, Functions
    <3>4. QED
      BY <3>1, <3>2, <3>3
  <2>10. pending'[running'] # "nothing" =>
           var' # 0 /\ var' # TSSEntry(running')
    <3>1. pending'[running] = pending[running]
      BY <1>1, <1>2, <2>1, Functions
    <3>2. QED
      BY <1>4, <3>1 DEF IInv
  <2>11. QED
    BY <2>7, <2>8, <2>9, <2>10 DEF IInv
<1>7. QED
  BY <1>5, <1>6

(* Nothing but the registers and the flag.                                 *)
LEMMA Quiet ==
  ASSUME IInv, cpu' \in Registers, kernel' \in {"up", "fault"},
         UNCHANGED <<tss, live, running, pending, var, word, left>>
  PROVE  IInv'
<1>1. SCTypeOK'
  BY DEF IInv, SCTypeOK
<1>2. QED
  BY <1>1 DEF IInv

LEMMA Switches ==
  ASSUME IInv, NEW next \in Task, Switch(next)
  PROVE  /\ IInv' /\ running' = next /\ running' # running
         /\ left[next] # NULL => cpu' = left[next]
         /\ pending' = pending
<1>1. /\ SCTypeOK /\ live \in Nat /\ running \in Task /\ running < live
  <2>1. SCTypeOK
    BY DEF IInv
  <2>2. QED
    BY <2>1, Numbers
<1>2. /\ next \in 0 .. live - 1 /\ next # running
      /\ tss' = [tss EXCEPT ![running] = cpu]
      /\ cpu' = tss'[next] /\ running' = next
      /\ left' = [left EXCEPT ![running] = cpu, ![next] = NULL]
      /\ var' = TSSEntry(running)
      /\ UNCHANGED <<live, pending, word, kernel>>
  BY DEF Switch, Delivered, str
<1>3. tss' \in [Task -> Registers] /\ cpu' \in Registers /\ cpu' = tss[next]
  BY <1>1, <1>2 DEF SCTypeOK
<1>4. left' \in [Task -> Registers \cup {NULL}]
  BY <1>1, <1>2 DEF SCTypeOK
<1>a. var' \in Nat /\ var' # 0 /\ var' # TSSEntry(running')
  <2>1. running \in Nat /\ next \in Nat
    BY <1>1, Numbers
  <2>2. QED
    BY <1>2, <2>1 DEF TSSEntry
<1>5. SCTypeOK'
  BY <1>1, <1>2, <1>3, <1>4, <1>a DEF SCTypeOK
<1>6. \A t \in Task : left'[t] = IF t = next THEN NULL
                                 ELSE IF t = running THEN cpu ELSE left[t]
  BY <1>1, <1>2 DEF SCTypeOK
<1>7. \A t \in Task : tss'[t] = IF t = running THEN cpu ELSE tss[t]
  BY <1>1, <1>2 DEF SCTypeOK
<1>8. \A t \in Task : left'[t] # NULL =>
        t < live' /\ t # running' /\ left'[t] = tss'[t]
  BY <1>1, <1>2, <1>6, <1>7 DEF IInv
<1>9. QED
  BY <1>2, <1>3, <1>5, <1>8, <1>a DEF IInv

LEMMA StepKeepsInv == IInv /\ [SCNext]_scVars => IInv'
<1> SUFFICES ASSUME IInv, [SCNext]_scVars PROVE IInv'
  OBVIOUS
<1>1. SCTypeOK
  BY DEF IInv
<1>2. CASE ForkCall
  <2>1. CASE kernel' = "up"
    <3>1. ForkTask("on_system_call") /\ UNCHANGED <<running, var, kernel, left>>
      BY <1>2, <2>1 DEF ForkCall, Fault
    <3>2. QED
      BY <1>2, <2>1, <3>1, FatherReturns, Forks DEF ForkerGoesOn, Beginning
  <2>2. CASE kernel' # "up"
    <3>1. Fault
      BY <1>2, <2>2 DEF ForkCall, Free
    <3>2. QED
      BY <1>1, <3>1, Quiet DEF Fault, SCTypeOK
  <2>3. QED
    BY <2>1, <2>2
<1>3. ASSUME NEW number \in Number, OtherCall(number) PROVE IInv'
  <2>1. CASE Fault
    BY <1>1, <2>1, Quiet DEF Fault, SCTypeOK
  <2>2. CASE ~Fault
    <3>1. /\ cpu' = [cpu EXCEPT !.eax = number]
          /\ UNCHANGED <<tss, live, running, pending, var, word, kernel, left>>
      BY <1>3, <2>2 DEF OtherCall
    <3>2. cpu \in Registers /\ kernel \in {"up", "fault"} /\ number \in Int
      BY <1>1, CallAssumption DEF SCTypeOK
    <3>3. cpu' \in Registers
      BY <3>1, <3>2 DEF Registers
    <3>4. QED
      BY <3>1, <3>2, <3>3, Quiet
  <2>3. QED
    BY <2>1, <2>2
<1>4. CASE ChildCallReturn
  <2>1. /\ cpu' \in Registers
        /\ pending' = [pending EXCEPT ![running] = "nothing"]
        /\ UNCHANGED <<tss, live, running, var, word, kernel, left>>
    BY <1>4, ChildReturns DEF ChildCallReturn
  <2>2. SCTypeOK'
    BY <1>1, <2>1 DEF SCTypeOK
  <2>3. \A t \in Task : t >= live' => pending'[t] = "nothing"
    BY <1>1, <2>1 DEF IInv, SCTypeOK
  <2>4. pending'[running'] = "nothing"
    BY <1>1, <2>1, Numbers, Functions
  <2>5. QED
    BY <2>1, <2>2, <2>3, <2>4 DEF IInv
<1>5. CASE ForkCommand
  BY <1>1, <1>5, Forks DEF ForkCommand, ForkerGoesOn, Beginning, SCTypeOK
<1>6. ASSUME NEW next \in Task, Switch(next) PROVE IInv'
  BY <1>6, Switches
<1>7. ASSUME NEW v \in Value, Compute("ebx", v) PROVE IInv'
  <2>1. /\ cpu' = [cpu EXCEPT !.ebx = v]
        /\ UNCHANGED <<tss, live, running, pending, var, word, kernel, left>>
    BY <1>7 DEF Compute
  <2>2. cpu \in Registers /\ kernel \in {"up", "fault"}
    BY <1>1 DEF SCTypeOK
  <2>3. cpu' \in Registers
    BY <2>1, <2>2 DEF Registers, Word
  <2>4. QED
    BY <2>1, <2>2, <2>3, Quiet
<1>8. CASE UNCHANGED scVars
  <2>1. cpu \in Registers /\ kernel \in {"up", "fault"}
    BY <1>1 DEF SCTypeOK
  <2>2. QED
    BY <1>8, <2>1, Quiet DEF scVars
<1>9. QED
  BY <1>2, <1>3, <1>4, <1>5, <1>6, <1>7, <1>8 DEF SCNext

LEMMA Invariance == SCSpec => []IInv
<1>1. QED
  BY InitHolds, StepKeepsInv, PTL DEF SCSpec

(***************************************************************************)
(* Theorems                                                                *)
(***************************************************************************)

(* Through any number of calls and switches a register holds what a task   *)
(* put into one or what memory held, never the kernel's selectors, which   *)
(* the pops of a call overwrite, not even in the child's return.           *)
THEOREM TypeCorrectness == SCSpec => []SCTypeOK
<1>1. IInv => SCTypeOK
  BY DEF IInv
<1>2. QED
  BY <1>1, Invariance, PTL

(* What str stored when a task fell asleep is what ltr loads when it wakes,*)
(* whoever forked, from it or from another, in the meantime.               *)
THEOREM TasksWakeAsTheySlept == SCSpec => WakesAsItSlept
<1>1. IInv /\ [SCNext]_scVars =>
        [\A t \in Task : (running' = t /\ running # t /\ left[t] # NULL) =>
           cpu' = left[t]]_scVars
  <2> SUFFICES ASSUME IInv, SCNext, NEW t \in Task,
                      running' = t, running # t, left[t] # NULL
               PROVE  cpu' = left[t]
    OBVIOUS
  <2>1. PICK next \in Task : Switch(next)
    BY DEF SCNext, ForkCall, OtherCall, Fault, ChildCallReturn, ForkCommand, Compute
  <2>2. QED
    BY <2>1, Switches
<1>2. QED
  BY <1>1, Invariance, PTL DEF SCSpec, WakesAsItSlept

(* The pops of a call undo the counting of its pushes.                     *)
THEOREM StackStaysBalanced == SCSpec => StackIsBalanced
<1>1. IInv /\ [SCNext]_scVars =>
        [running' = running /\ pending[running] = "nothing"
           => cpu'.esp = cpu.esp]_scVars
  <2> SUFFICES ASSUME IInv, SCNext, running' = running,
                      pending[running] = "nothing"
               PROVE  cpu'.esp = cpu.esp
    OBVIOUS
  <2>1. cpu \in Registers
    BY DEF IInv, SCTypeOK
  <2>2. CASE ForkCall
    <3>1. CASE kernel' = "up"
      BY <2>2, <3>1, FatherReturns
    <3>2. CASE kernel' # "up"
      BY <2>2, <3>2 DEF ForkCall, Free, Fault
    <3>3. QED
      BY <3>1, <3>2
  <2>3. ASSUME NEW number \in Number, OtherCall(number) PROVE cpu'.esp = cpu.esp
    BY <2>1, <2>3 DEF OtherCall, Fault, Registers
  <2>4. CASE ChildCallReturn
    BY <2>4 DEF ChildCallReturn
  <2>5. CASE ForkCommand
    BY <2>5 DEF ForkCommand
  <2>6. ASSUME NEW next \in Task, Switch(next) PROVE cpu'.esp = cpu.esp
    BY <2>6, Switches
  <2>7. ASSUME NEW v \in Value, Compute("ebx", v) PROVE cpu'.esp = cpu.esp
    BY <2>1, <2>7 DEF Compute, Registers
  <2>8. QED
    BY <2>2, <2>3, <2>4, <2>5, <2>6, <2>7 DEF SCNext
<1>2. QED
  BY <1>1, Invariance, PTL DEF SCSpec, StackIsBalanced

(* The father's return value is the pid of the task that his call made. The*)
(* child's is 0: what longjmp delivers is the entry of the task before it, *)
(* never 0 and never its own, so switch_to returns 0 in fork_process.      *)
THEOREM ForkAnswersBoth == SCSpec => ForkAnswers
<1>1. IInv /\ [SCNext]_scVars =>
        [/\ HasRoom /\ pending'[live] # pending[live] => cpu'.eax = live
         /\ pending'[running] # pending[running] => cpu'.eax = 0]_scVars
  <2> DEFINE Answers ==
        /\ HasRoom /\ pending'[live] # pending[live] => cpu'.eax = live
        /\ pending'[running] # pending[running] => cpu'.eax = 0
  <2> SUFFICES ASSUME IInv, SCNext PROVE Answers
    OBVIOUS
  <2>1. /\ pending \in [Task -> {"nothing", "on_system_call"}]
        /\ live \in Nat /\ running \in Task /\ running # live
        /\ HasRoom => live \in Task /\ pending[live] = "nothing"
    <3>1. SCTypeOK
      BY DEF IInv
    <3>2. live \in Nat /\ running \in Task /\ running # live
      BY <3>1, Numbers
    <3>3. ASSUME HasRoom PROVE live \in Task
      BY <3>1, <3>3, Numbers DEF HasRoom, Task
    <3>4. \A t \in Task : t >= live => pending[t] = "nothing"
      BY DEF IInv
    <3>5. QED
      BY <3>1, <3>2, <3>3, <3>4, Functions
  <2>2. CASE ForkCall
    <3>1. CASE kernel' = "up"
      <4>1. cpu'.eax = fork_process /\ ForkTask("on_system_call")
        BY <2>2, <3>1, FatherReturns DEF ForkCall, Fault
      <4>2. QED
        BY <2>1, <4>1 DEF ForkTask, fork_process, ForkResult, switch_to
    <3>2. CASE kernel' # "up"
      BY <2>2, <3>2 DEF ForkCall, Free, Fault
    <3>3. QED
      BY <3>1, <3>2
  <2>3. ASSUME NEW number \in Number, OtherCall(number) PROVE Answers
    BY <2>3 DEF OtherCall, Fault
  <2>4. CASE ChildCallReturn
    <3>1. cpu'.eax = 0 /\ pending' = [pending EXCEPT ![running] = "nothing"]
      BY <2>4, ChildReturns DEF ChildCallReturn
    <3>2. QED
      BY <2>1, <3>1
  <2>5. CASE ForkCommand
    BY <2>1, <2>5 DEF ForkCommand, ForkTask
  <2>6. ASSUME NEW next \in Task, Switch(next) PROVE Answers
    BY <2>6, Switches
  <2>7. ASSUME NEW v \in Value, Compute("ebx", v) PROVE Answers
    BY <2>7 DEF Compute
  <2>8. QED
    BY <2>2, <2>3, <2>4, <2>5, <2>6, <2>7 DEF SCNext
<1>2. QED
  BY <1>1, Invariance, PTL DEF SCSpec, ForkAnswers

=============================================================================
