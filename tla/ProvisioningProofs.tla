------------------------- MODULE ProvisioningProofs -------------------------
(***************************************************************************)
(* Proofs about Provisioning for every set of configurations, any number   *)
(* of mount points, resets and rebuilds.                                   *)
(***************************************************************************)
EXTENDS Provisioning, SequenceTheorems, WellFoundedInduction, TLAPS

\* Min of a set of natural numbers that is not empty is its least element.
LEMMA MinOfNaturals ==
  ASSUME NEW S, S \subseteq Nat, S # {}
  PROVE  /\ Min(S) \in S
         /\ \A n \in S : Min(S) <= n
<1>1. PICK x \in S : \A y \in S : ~ (<<y, x>> \in OpToRel(<, Nat))
  BY NatLessThanWellFounded, WFMin
<1>2. \A y \in S : x <= y
  <2>1. SUFFICES ASSUME NEW y \in S, y < x PROVE FALSE
    OBVIOUS
  <2>2. <<y, x>> \in OpToRel(<, Nat)
    BY <2>1 DEF OpToRel
  <2>3. QED BY <1>1, <2>2
<1>3. QED BY <1>2 DEF Min

-----------------------------------------------------------------------------
(* The commands.                                                           *)

\* What is left of a script after its first command.
LEMMA FirstAndRest ==
  ASSUME NEW s \in Seq(Command), s # <<>>
  PROVE  /\ Len(s) \in Nat \ {0} /\ Head(s) = s[1] /\ Head(s) \in Command
         /\ Tail(s) \in Seq(Command) /\ Len(Tail(s)) = Len(s) - 1
         /\ \A i \in 1..(Len(s) - 1) : Tail(s)[i] = s[i + 1]
<1>1. Len(s) \in Nat \ {0} /\ Head(s) = s[1] /\ Head(s) \in Command
  BY EmptySeq, HeadTailProperties, LenProperties, ElementOfSeq
<1>2. Tail(s) \in Seq(Command) /\ Len(Tail(s)) = Len(s) - 1
      /\ \A i \in 1..Len(Tail(s)) : Tail(s)[i] = s[i + 1]
  BY HeadTailProperties
<1>3. QED BY <1>1, <1>2

\* After `install` has failed to copy a file it tries the other files, and then
\* the service fails.
LEMMA AfterFailedFile ==
  ASSUME NEW c \in Command, NEW rest \in Seq(Command), c.cmd \in AuthFiles
  PROVE  /\ AfterFailure(c, rest) \in Seq(Command) /\ AfterFailure(c, rest) # <<>>
         /\ AfterFailure(c, rest)[Len(AfterFailure(c, rest))].cmd = "exit_1"
         /\ \A i \in 1..Len(AfterFailure(c, rest)) :
              \/ AfterFailure(c, rest)[i] = Do("exit_1")
              \/ \E j \in 1..Len(rest) : /\ AfterFailure(c, rest)[i] = rest[j]
                                          /\ rest[j].cmd \in AuthFiles
<1>0. Len(rest) \in Nat
  BY LenProperties
<1> DEFINE S == {n \in 0..Len(rest) : n < Len(rest) => rest[n + 1].cmd \notin AuthFiles}
           m == OtherFiles(rest)
           kept == SubSeq(rest, 1, m)
           x == <<Do("exit_1")>>
<1>1. m \in 0..Len(rest) /\ \A n \in S : m <= n
  <2>1. Len(rest) \in S
    BY <1>0
  <2>2. Min(S) \in S /\ \A n \in S : Min(S) <= n
    <3>1. S \subseteq Nat /\ S # {} BY <1>0, <2>1
    <3> HIDE DEF S
    <3>2. QED BY <3>1, MinOfNaturals
  <2>3. QED BY <2>2 DEF OtherFiles
<1>2. PICK k \in Nat : k = m /\ k <= Len(rest)
  BY <1>1, <1>0
<1>3. ASSUME NEW i \in 1..k PROVE rest[i].cmd \in AuthFiles
  <2>1. i - 1 \in 0..Len(rest) /\ i - 1 < Len(rest) /\ (i - 1) + 1 = i /\ ~(k <= i - 1)
    BY <1>0, <1>2
  <2>2. i - 1 \notin S
    BY <2>1, <1>1, <1>2
  <2>3. QED BY <2>1, <2>2
<1>4. kept \in Seq(Command) /\ Len(kept) = k /\ \A i \in 1..k : kept[i] = rest[i]
  BY <1>2, <1>0
<1>5. x \in Seq(Command) /\ Len(x) = 1 /\ x[1] = Do("exit_1")
  BY DEF Do, Command
<1>6. AfterFailure(c, rest) = kept \o x
  BY DEF AfterFailure
<1> HIDE DEF kept, x, m
<1>7. /\ kept \o x \in Seq(Command) /\ Len(kept \o x) = k + 1
      /\ \A i \in 1..(k + 1) : (kept \o x)[i] = IF i <= k THEN kept[i] ELSE x[i - k]
  <2>1. kept \in Seq(Command) /\ x \in Seq(Command)
    BY <1>4, <1>5
  <2>2. /\ kept \o x \in Seq(Command) /\ Len(kept \o x) = Len(kept) + Len(x)
        /\ \A i \in 1..(Len(kept) + Len(x)) :
             (kept \o x)[i] = IF i <= Len(kept) THEN kept[i] ELSE x[i - Len(kept)]
    BY <2>1, ConcatProperties
  <2>3. QED BY <2>2, <1>4, <1>5
<1>8. (kept \o x)[k + 1] = Do("exit_1")
  BY <1>7, <1>5
<1>9. \A i \in 1..k : (kept \o x)[i] = rest[i] /\ i \in 1..Len(rest)
  BY <1>7, <1>4, <1>2, <1>0
<1>10. \A i \in 1..(k + 1) : i = k + 1 \/ i \in 1..k
  OBVIOUS
<1>11. kept \o x # <<>>
  BY <1>7, EmptySeq
<1>12. \A i \in 1..(k + 1) :
         \/ (kept \o x)[i] = Do("exit_1")
         \/ \E j \in 1..Len(rest) : (kept \o x)[i] = rest[j] /\ rest[j].cmd \in AuthFiles
  BY <1>3, <1>8, <1>9, <1>10
<1>13. (kept \o x)[Len(kept \o x)].cmd = "exit_1"
  BY <1>7, <1>8 DEF Do
<1>14. QED BY <1>6, <1>7, <1>11, <1>12, <1>13

\* After any other command has failed the script goes on with the next mount
\* point, or with the policy, or not at all.
LEMMA AfterFailedCommand ==
  ASSUME NEW c \in Command, NEW rest \in Seq(Command), c.cmd \notin AuthFiles
  PROVE  /\ AfterFailure(c, rest) \in Seq(Command)
         /\ \E k \in 0..Len(rest) :
              /\ Len(AfterFailure(c, rest)) = Len(rest) - k
              /\ \A i \in 1..(Len(rest) - k) : AfterFailure(c, rest)[i] = rest[k + i]
              /\ \A i \in 1..k : ~GoesOnWith(c, rest[i])
              /\ k < Len(rest) => GoesOnWith(c, rest[k + 1])
<1>0. Len(rest) \in Nat
  BY LenProperties
<1> DEFINE S == {n \in 0..Len(rest) : n < Len(rest) => GoesOnWith(c, rest[n + 1])}
           m == Skipped(c, rest)
<1>1. m \in S /\ \A n \in S : m <= n
  <2>1. Len(rest) \in S
    BY <1>0
  <2>2. Min(S) \in S /\ \A n \in S : Min(S) <= n
    <3>1. S \subseteq Nat /\ S # {} BY <1>0, <2>1
    <3> HIDE DEF S
    <3>2. QED BY <3>1, MinOfNaturals
  <2>3. QED BY <2>2 DEF Skipped
<1>2. PICK k \in Nat : k = m /\ k <= Len(rest)
  BY <1>1, <1>0
<1>3. AfterFailure(c, rest) = SubSeq(rest, k + 1, Len(rest))
  BY <1>2 DEF AfterFailure
<1>4. /\ AfterFailure(c, rest) \in Seq(Command)
      /\ Len(AfterFailure(c, rest)) = Len(rest) - k
      /\ \A i \in 1..(Len(rest) - k) : AfterFailure(c, rest)[i] = rest[k + i]
  BY <1>2, <1>3, <1>0
<1>5. ASSUME NEW i \in 1..k PROVE ~GoesOnWith(c, rest[i])
  <2>1. i - 1 \in 0..Len(rest) /\ i - 1 < Len(rest) /\ (i - 1) + 1 = i /\ ~(k <= i - 1)
    BY <1>0, <1>2
  <2>2. i - 1 \notin S
    BY <2>1, <1>1, <1>2
  <2>3. QED BY <2>1, <2>2
<1>6. k \in 0..Len(rest) /\ (k < Len(rest) => GoesOnWith(c, rest[k + 1]))
  BY <1>1, <1>2, <1>0
<1>7. QED BY <1>4, <1>5, <1>6

\* What is left after a failure are commands of the script, and exit_1 where
\* `install` has failed.  It is nothing where the failed command is neither of
\* the hook nor of `install`, or no other part of the hook follows.
LEMMA AfterFailureKeeps ==
  ASSUME NEW c \in Command, NEW rest \in Seq(Command)
  PROVE  /\ AfterFailure(c, rest) \in Seq(Command)
         /\ \A i \in 1..Len(AfterFailure(c, rest)) :
              \/ c.cmd \in AuthFiles /\ AfterFailure(c, rest)[i] = Do("exit_1")
              \/ \E j \in 1..Len(rest) : AfterFailure(c, rest)[i] = rest[j]
         /\ (/\ c.cmd \notin AuthFiles
             /\ \A i \in 1..Len(rest) : ~GoesOnWith(c, rest[i]))
            => AfterFailure(c, rest) = <<>>
<1>1. CASE c.cmd \in AuthFiles
  BY <1>1, AfterFailedFile
<1>2. CASE c.cmd \notin AuthFiles
  <2>0. Len(rest) \in Nat
    BY LenProperties
  <2>1. AfterFailure(c, rest) \in Seq(Command)
    BY <1>2, AfterFailedCommand
  <2>2. PICK k \in 0..Len(rest) :
          /\ Len(AfterFailure(c, rest)) = Len(rest) - k
          /\ \A i \in 1..(Len(rest) - k) : AfterFailure(c, rest)[i] = rest[k + i]
          /\ \A i \in 1..k : ~GoesOnWith(c, rest[i])
          /\ k < Len(rest) => GoesOnWith(c, rest[k + 1])
    BY <1>2, AfterFailedCommand
  <2>3. \A i \in 1..(Len(rest) - k) : k + i \in 1..Len(rest)
    BY <2>0
  <2>4. ASSUME \A i \in 1..Len(rest) : ~GoesOnWith(c, rest[i])
        PROVE  AfterFailure(c, rest) = <<>>
    <3>1. k = Len(rest)
      BY <2>0, <2>2, <2>4
    <3>2. Len(AfterFailure(c, rest)) = 0
      BY <2>0, <2>2, <3>1
    <3>3. QED BY <2>1, <3>2, EmptySeq
  <2>5. QED BY <1>2, <2>1, <2>2, <2>3, <2>4
<1>3. QED BY <1>1, <1>2

\* A command of lzbt for one of the mount points, or the policy's.
HookCommand(c) ==
  \/ c.cmd \in {"stubs", "loader", "collect"} /\ c.esp \in 1..opt.esps
  \/ c.cmd = "policy" /\ opt.measured

\* The mount points come one after the other, then the policy; the volume is
\* bound after that.
HookOrder(s) ==
  \A i, j \in 1..Len(s) :
    i < j => /\ IsHook(s[j]) => s[i].cmd \notin {"policy", "cryptenroll"}
             /\ IsHook(s[i]) /\ IsHook(s[j]) /\ s[j].cmd # "policy" => s[i].esp <= s[j].esp

\* The collector runs after the stubs of its mount point are written.
StubsFirst(s) ==
  \A i \in 1..Len(s) :
    s[i].cmd = "collect" => \E j \in 1..(i - 1) : s[j].cmd = "stubs" /\ s[j].esp = s[i].esp

\* lzbt's commands: three for each mount point.
LEMMA LzbtCommands ==
  ASSUME NEW n \in Nat \ {0}
  PROVE  /\ Lzbt(n) \in Seq(Command) /\ Len(Lzbt(n)) = 3 * n
         /\ \A i \in 1..(3 * n) : /\ Lzbt(n)[i].cmd \in {"stubs", "loader", "collect"}
                                  /\ Lzbt(n)[i].esp \in 1..n
         /\ Lzbt(n)[1].cmd = "stubs"
         /\ \A e \in 1..n : /\ Lzbt(n)[3 * e - 1] = [cmd |-> "loader", esp |-> e]
                            /\ Lzbt(n)[3 * e] = [cmd |-> "collect", esp |-> e]
         /\ \A i, j \in 1..(3 * n) : i < j => Lzbt(n)[i].esp <= Lzbt(n)[j].esp
         /\ StubsFirst(Lzbt(n))
<1>1. \A r \in 0..2 : LzbtSteps[1 + r] \in {"stubs", "loader", "collect"}
  BY DEF LzbtSteps
<1>2. ASSUME NEW i \in 1..(3 * n)
      PROVE  (i - 1) % 3 \in 0..2 /\ 1 + ((i - 1) \div 3) \in 1..n
  OBVIOUS
<1>3. ASSUME NEW i \in 1..(3 * n)
      PROVE  /\ Lzbt(n)[i] = [cmd |-> LzbtSteps[1 + ((i - 1) % 3)],
                              esp |-> 1 + ((i - 1) \div 3)]
             /\ Lzbt(n)[i] \in Command
             /\ Lzbt(n)[i].cmd \in {"stubs", "loader", "collect"}
             /\ Lzbt(n)[i].esp \in 1..n
  <2>1. PICK r \in 0..2 : r = (i - 1) % 3
    BY <1>2
  <2>2. PICK e \in 1..n : e = 1 + ((i - 1) \div 3)
    BY <1>2
  <2>3. Lzbt(n)[i] = [cmd |-> LzbtSteps[1 + r], esp |-> e]
    BY <2>1, <2>2 DEF Lzbt
  <2>4. LzbtSteps[1 + r] \in {"stubs", "loader", "collect"} /\ e \in Nat
    BY <1>1
  <2>5. QED BY <2>1, <2>2, <2>3, <2>4 DEF Command
<1>4. ASSUME NEW e \in 1..n
      PROVE  /\ 3 * e - 1 \in 1..(3 * n) /\ 3 * e \in 1..(3 * n)
             /\ (3 * e - 1 - 1) % 3 = 1 /\ (3 * e - 1) % 3 = 2
             /\ 1 + ((3 * e - 1 - 1) \div 3) = e /\ 1 + ((3 * e - 1) \div 3) = e
  OBVIOUS
<1>5. ASSUME NEW e \in 1..n
      PROVE  /\ Lzbt(n)[3 * e - 1] = [cmd |-> "loader", esp |-> e]
             /\ Lzbt(n)[3 * e] = [cmd |-> "collect", esp |-> e]
  BY <1>3, <1>4 DEF LzbtSteps
<1>6. Lzbt(n)[1].cmd = "stubs"
  <2>1. 1 \in 1..(3 * n) /\ (1 - 1) % 3 = 0
    OBVIOUS
  <2>2. Lzbt(n)[1] = [cmd |-> LzbtSteps[1 + ((1 - 1) % 3)], esp |-> 1 + ((1 - 1) \div 3)]
    BY <2>1, <1>3
  <2>3. LzbtSteps[1 + ((1 - 1) % 3)] = "stubs"
    <3>1. 1 + ((1 - 1) % 3) = 1 OBVIOUS
    <3>2. QED BY <3>1 DEF LzbtSteps
  <2>4. QED BY <2>2, <2>3
<1>7. Lzbt(n) \in Seq(Command) /\ Len(Lzbt(n)) = 3 * n
  <2>1. 3 * n \in Nat /\ Lzbt(n) \in [1..(3 * n) -> Command]
    BY <1>3 DEF Lzbt
  <2>2. QED BY <2>1
<1>8. ASSUME NEW i \in 1..(3 * n), NEW j \in 1..(3 * n), i < j
      PROVE  Lzbt(n)[i].esp <= Lzbt(n)[j].esp
  <2>1. 1 + ((i - 1) \div 3) <= 1 + ((j - 1) \div 3)
    BY <1>8
  <2>2. Lzbt(n)[i].esp = 1 + ((i - 1) \div 3)
    BY DEF Lzbt
  <2>3. Lzbt(n)[j].esp = 1 + ((j - 1) \div 3)
    BY DEF Lzbt
  <2>4. QED BY <2>1, <2>2, <2>3
<1>9. StubsFirst(Lzbt(n))
  <2>1. SUFFICES ASSUME NEW i \in 1..(3 * n), Lzbt(n)[i].cmd = "collect"
                 PROVE  \E j \in 1..(i - 1) : /\ Lzbt(n)[j].cmd = "stubs"
                                               /\ Lzbt(n)[j].esp = Lzbt(n)[i].esp
    BY <1>7 DEF StubsFirst
  <2>2. (i - 1) % 3 = 2
    <3>1. LzbtSteps[1 + ((i - 1) % 3)] = "collect"
      BY <2>1 DEF Lzbt
    <3>2. QED BY <3>1, <1>2 DEF LzbtSteps
  <2>3. /\ i - 2 \in 1..(i - 1) /\ i - 2 \in 1..(3 * n) /\ ((i - 2) - 1) % 3 = 0
        /\ ((i - 2) - 1) \div 3 = (i - 1) \div 3
    BY <2>2
  <2>4. Lzbt(n)[i - 2].cmd = "stubs" /\ Lzbt(n)[i - 2].esp = Lzbt(n)[i].esp
    <3>1. PICK j \in 1..(3 * n) : j = i - 2 /\ (j - 1) % 3 = 0 /\ (j - 1) \div 3 = (i - 1) \div 3
      BY <2>3
    <3>2. Lzbt(n)[j].cmd = LzbtSteps[1 + ((j - 1) % 3)] /\ Lzbt(n)[j].esp = 1 + ((j - 1) \div 3)
      BY DEF Lzbt
    <3>3. Lzbt(n)[i].esp = 1 + ((i - 1) \div 3)
      BY DEF Lzbt
    <3>4. LzbtSteps[1 + 0] = "stubs"
      BY DEF LzbtSteps
    <3>5. QED BY <3>1, <3>2, <3>3, <3>4
  <2>5. QED BY <2>3, <2>4
<1>10. QED BY <1>3, <1>5, <1>6, <1>7, <1>8, <1>9

\* The hook: lzbt's commands, and with Measured Boot the policy in the end.
LEMMA HookCommands ==
  ASSUME opt \in Settings
  PROVE  /\ InstallHook \in Seq(Command) /\ Len(InstallHook) > 1
         /\ \A i \in 1..Len(InstallHook) : HookCommand(InstallHook[i])
         /\ InstallHook[1].cmd = "stubs"
         /\ opt.measured => InstallHook[Len(InstallHook)].cmd = "policy"
         /\ HookOrder(InstallHook) /\ StubsFirst(InstallHook)
         /\ \A e \in 1..opt.esps :
              /\ \E i \in 1..Len(InstallHook) : InstallHook[i] = [cmd |-> "loader", esp |-> e]
              /\ \E i \in 1..Len(InstallHook) : InstallHook[i] = [cmd |-> "collect", esp |-> e]
<1>1. PICK n \in Nat \ {0} : n = opt.esps
  BY SettingsAssumption
<1> DEFINE a == Lzbt(n)
           b == IF opt.measured THEN <<Do("policy")>> ELSE <<>>
<1>2. /\ a \in Seq(Command) /\ Len(a) = 3 * n
      /\ \A i \in 1..(3 * n) : a[i].cmd \in {"stubs", "loader", "collect"} /\ a[i].esp \in 1..n
      /\ a[1].cmd = "stubs"
      /\ \A e \in 1..n : /\ a[3 * e - 1] = [cmd |-> "loader", esp |-> e]
                         /\ a[3 * e] = [cmd |-> "collect", esp |-> e]
      /\ \A i, j \in 1..(3 * n) : i < j => a[i].esp <= a[j].esp
      /\ StubsFirst(a)
  BY LzbtCommands
<1>3. PICK l \in {0, 1} : /\ b \in Seq(Command) /\ Len(b) = l
                          /\ opt.measured => l = 1 /\ b[1] = Do("policy")
                          /\ ~opt.measured => l = 0
  <2>1. Do("policy") \in Command
    BY DEF Do, Command
  <2>2. CASE opt.measured
    <3>1. b = <<Do("policy")>>
      BY <2>2
    <3>2. b \in Seq(Command) /\ Len(b) = 1 /\ b[1] = Do("policy")
      BY <3>1, <2>1
    <3> HIDE DEF b
    <3>3. QED BY <3>2, <2>2
  <2>3. CASE ~opt.measured
    <3>1. b = <<>>
      BY <2>3
    <3>2. b \in Seq(Command) /\ Len(b) = 0
      BY <3>1
    <3> HIDE DEF b
    <3>3. QED BY <3>2, <2>3
  <2>4. QED BY <2>2, <2>3
<1>4. InstallHook = a \o b
  BY <1>1 DEF InstallHook
<1> HIDE DEF a, b
<1>5. /\ InstallHook \in Seq(Command) /\ Len(InstallHook) = 3 * n + l
      /\ \A i \in 1..(3 * n) : InstallHook[i] = a[i]
      /\ l = 1 => InstallHook[3 * n + 1] = b[1]
  <2>1. /\ a \o b \in Seq(Command) /\ Len(a \o b) = Len(a) + Len(b)
        /\ \A i \in 1..(Len(a) + Len(b)) : (a \o b)[i] = IF i <= Len(a) THEN a[i] ELSE b[i - Len(a)]
    <3>1. a \in Seq(Command) /\ b \in Seq(Command)
      BY <1>2, <1>3
    <3>2. QED BY <3>1, ConcatProperties
  <2>2. PICK t \in Nat : t = 3 * n
    OBVIOUS
  <2>3. /\ a \o b \in Seq(Command) /\ Len(a \o b) = t + l
        /\ \A i \in 1..(t + l) : (a \o b)[i] = IF i <= t THEN a[i] ELSE b[i - t]
    <3>1. Len(a) = t /\ Len(b) = l
      BY <2>2, <1>2, <1>3
    <3> QED  BY <2>1, <3>1, Zenon
  <2>4. \A i \in 1..t : (a \o b)[i] = a[i]
    BY <2>3
  <2>5. l = 1 => (a \o b)[t + 1] = b[1]
    BY <2>3
  <2>6. QED BY <2>2, <2>3, <2>4, <2>5, <1>4
<1>6. \A i \in 1..Len(InstallHook) : i \in 1..(3 * n) \/ (l = 1 /\ i = 3 * n + 1)
  BY <1>5
<1>7. \A i \in 1..Len(InstallHook) : HookCommand(InstallHook[i])
  <2>1. ASSUME NEW i \in 1..(3 * n) PROVE HookCommand(InstallHook[i])
    BY <1>1, <1>2, <1>5 DEF HookCommand
  <2>2. ASSUME l = 1 PROVE HookCommand(InstallHook[3 * n + 1])
    <3>1. opt.measured /\ InstallHook[3 * n + 1] = Do("policy")
      BY <2>2, <1>3, <1>5
    <3>2. QED BY <3>1 DEF HookCommand, Do
  <2>3. QED BY <2>1, <2>2, <1>6
<1>8. opt.measured => InstallHook[Len(InstallHook)].cmd = "policy"
  BY <1>3, <1>5 DEF Do
<1>9. InstallHook[1].cmd = "stubs"
  BY <1>2, <1>5
<1>10. ASSUME NEW e \in 1..opt.esps
       PROVE  /\ \E i \in 1..Len(InstallHook) : InstallHook[i] = [cmd |-> "loader", esp |-> e]
              /\ \E i \in 1..Len(InstallHook) : InstallHook[i] = [cmd |-> "collect", esp |-> e]
  <2>1. e \in 1..n
    BY <1>1
  <2>2. 3 * e - 1 \in 1..(3 * n) /\ 3 * e \in 1..(3 * n)
    BY <2>1
  <2>3. 3 * e - 1 \in 1..Len(InstallHook) /\ 3 * e \in 1..Len(InstallHook)
    BY <2>2, <1>5
  <2>4. /\ InstallHook[3 * e - 1] = [cmd |-> "loader", esp |-> e]
        /\ InstallHook[3 * e] = [cmd |-> "collect", esp |-> e]
    BY <1>2, <1>5, <2>1, <2>2
  <2>5. QED BY <2>3, <2>4
<1>11. Len(InstallHook) > 1
  BY <1>5
<1>12. l = 1 => InstallHook[3 * n + 1].cmd = "policy"
  BY <1>3, <1>5 DEF Do
<1>13. HookOrder(InstallHook)
  <2>1. SUFFICES ASSUME NEW i \in 1..Len(InstallHook), NEW j \in 1..Len(InstallHook), i < j
                 PROVE  /\ InstallHook[i].cmd \notin {"policy", "cryptenroll"}
                        /\ InstallHook[j].cmd # "policy" => InstallHook[i].esp <= InstallHook[j].esp
    BY DEF HookOrder
  <2>2. i \in 1..(3 * n)
    BY <1>5, <2>1
  <2>3. CASE j \in 1..(3 * n)
    BY <1>2, <1>5, <2>1, <2>2, <2>3
  <2>4. CASE l = 1 /\ j = 3 * n + 1
    BY <1>2, <1>5, <1>12, <2>2, <2>4
  <2>5. QED BY <1>6, <2>3, <2>4
<1>14. StubsFirst(InstallHook)
  <2>1. SUFFICES ASSUME NEW i \in 1..Len(InstallHook), InstallHook[i].cmd = "collect"
                 PROVE  \E j \in 1..(i - 1) : /\ InstallHook[j].cmd = "stubs"
                                               /\ InstallHook[j].esp = InstallHook[i].esp
    BY DEF StubsFirst
  <2>2. i \in 1..(3 * n)
    BY <1>6, <1>12, <2>1
  <2>3. PICK j \in 1..(i - 1) : a[j].cmd = "stubs" /\ a[j].esp = a[i].esp
    BY <1>2, <1>5, <2>1, <2>2 DEF StubsFirst
  <2>4. j \in 1..(3 * n)
    BY <2>2
  <2>5. QED BY <1>5, <2>2, <2>3, <2>4
<1>15. QED BY <1>5, <1>7, <1>8, <1>9, <1>10, <1>11, <1>13, <1>14

\* The commands that a service, or nixos-rebuild, has.
BelongsTo(c, j) ==
  \/ j = "generate" /\ c.cmd \in {"create_dir", "create_pem", "create_key"}
  \/ j = "prepare" /\ (c.cmd \in {"enroll_keys", "PK", "KEK", "db", "exit_1"} \/ HookCommand(c))
  \/ j = "cryptenroll" /\ (c.cmd \in {"cryptenroll", "touch"} \/ HookCommand(c))
  \/ j = "rebuild" /\ HookCommand(c)

\* In a script, `then` never comes without `first` before it.
Follows(s, first, then) ==
  \A i \in 1..Len(s) : s[i].cmd = then => \E j \in 1..(i - 1) : s[j].cmd = first

\* What follows in a script follows in what is left of it.
LEMMA FollowsInRest ==
  ASSUME NEW s \in Seq(Command), s # <<>>, NEW first, NEW then,
         Follows(s, first, then), Head(s).cmd # first
  PROVE  Follows(Tail(s), first, then)
<1>1. /\ Len(s) \in Nat \ {0} /\ Head(s) = s[1] /\ Len(Tail(s)) = Len(s) - 1
      /\ \A i \in 1..(Len(s) - 1) : Tail(s)[i] = s[i + 1]
  BY FirstAndRest
<1>2. SUFFICES ASSUME NEW i \in 1..(Len(s) - 1), s[i + 1].cmd = then
               PROVE  \E j \in 1..(i - 1) : Tail(s)[j].cmd = first
  BY <1>1 DEF Follows
<1>3. PICK j \in 1..i : s[j].cmd = first
  <2>1. i + 1 \in 1..Len(s) /\ (i + 1) - 1 = i
    BY <1>1
  <2>2. QED BY <1>2, <2>1 DEF Follows
<1>4. j # 1
  BY <1>1, <1>3
<1>5. j - 1 \in 1..(i - 1) /\ j - 1 \in 1..(Len(s) - 1) /\ (j - 1) + 1 = j
  BY <1>1, <1>4
<1>6. Tail(s)[j - 1] = s[j]
  BY <1>1, <1>5
<1>7. QED BY <1>3, <1>5, <1>6

\* The script of prepare-sb-auto-enroll.
LEMMA PrepareCommands ==
  ASSUME opt \in Settings
  PROVE  /\ PrepareSbAutoEnroll \in Seq(Command) /\ PrepareSbAutoEnroll # <<>>
         /\ \A i \in 1..Len(PrepareSbAutoEnroll) : BelongsTo(PrepareSbAutoEnroll[i], "prepare")
         /\ PrepareSbAutoEnroll[1].cmd = "enroll_keys"
         /\ HookOrder(PrepareSbAutoEnroll) /\ StubsFirst(PrepareSbAutoEnroll)
         /\ \A e \in 1..opt.esps :
              /\ \E i \in 1..Len(PrepareSbAutoEnroll) :
                   PrepareSbAutoEnroll[i] = [cmd |-> "loader", esp |-> e]
              /\ \E i \in 1..Len(PrepareSbAutoEnroll) :
                   PrepareSbAutoEnroll[i] = [cmd |-> "collect", esp |-> e]
<1> DEFINE a == <<Do("enroll_keys"), Do("PK"), Do("KEK"), Do("db")>>
           p == PrepareSbAutoEnroll
<1>1. /\ a \in Seq(Command) /\ Len(a) = 4 /\ a[1].cmd = "enroll_keys"
      /\ \A i \in 1..4 : a[i].cmd \in {"enroll_keys", "PK", "KEK", "db"}
  BY DEF Do, Command
<1>2. p = a \o InstallHook
  BY DEF PrepareSbAutoEnroll
<1> HIDE DEF a, p
<1>3. InstallHook \in Seq(Command)
  BY HookCommands
<1>4. PICK n \in Nat : n = Len(InstallHook)
  BY <1>3, LenProperties
<1>5. /\ p \in Seq(Command) /\ Len(p) = 4 + n
      /\ \A i \in 1..(4 + n) : p[i] = IF i <= 4 THEN a[i] ELSE InstallHook[i - 4]
  <2>1. /\ a \o InstallHook \in Seq(Command) /\ Len(a \o InstallHook) = Len(a) + Len(InstallHook)
        /\ \A i \in 1..(Len(a) + Len(InstallHook)) :
             (a \o InstallHook)[i] = IF i <= Len(a) THEN a[i] ELSE InstallHook[i - Len(a)]
    BY <1>1, <1>3, ConcatProperties
  <2>2. QED BY <2>1, <1>1, <1>2, <1>4
<1>6. \A i \in 1..4 : p[i] = a[i]
  BY <1>5
<1>7. \A i \in 1..n : i + 4 \in 1..(4 + n) /\ p[i + 4] = InstallHook[i]
  BY <1>5
<1>8. \A i \in 1..(4 + n) : i \in 1..4 \/ (i - 4 \in 1..n /\ (i - 4) + 4 = i)
  OBVIOUS
<1>9. \A i \in 1..n : HookCommand(InstallHook[i])
  BY <1>4, HookCommands
<1>10. ASSUME NEW i \in 1..Len(p) PROVE BelongsTo(p[i], "prepare")
  <2>1. CASE i \in 1..4
    BY <2>1, <1>1, <1>6 DEF BelongsTo
  <2>2. CASE i - 4 \in 1..n /\ (i - 4) + 4 = i
    <3>1. p[i] = InstallHook[i - 4]
      BY <2>2, <1>7
    <3>2. QED BY <3>1, <2>2, <1>9 DEF BelongsTo
  <2>3. QED BY <2>1, <2>2, <1>5, <1>8
<1>11. ASSUME NEW c, \E i \in 1..n : InstallHook[i] = c
       PROVE  \E i \in 1..Len(p) : p[i] = c
  BY <1>5, <1>7, <1>11
<1>12. p # <<>> /\ p[1].cmd = "enroll_keys"
  <2>1. Len(p) # 0 /\ p[1] = a[1]
    BY <1>5, <1>6
  <2>2. QED BY <2>1, <1>1
<1>13. \A e \in 1..opt.esps : /\ \E i \in 1..Len(p) : p[i] = [cmd |-> "loader", esp |-> e]
                              /\ \E i \in 1..Len(p) : p[i] = [cmd |-> "collect", esp |-> e]
  BY <1>4, <1>11, HookCommands
<1>14. HookOrder(InstallHook) /\ StubsFirst(InstallHook)
  BY HookCommands
<1>15. HookOrder(p)
  <2>1. SUFFICES ASSUME NEW i \in 1..(4 + n), NEW j \in 1..(4 + n), i < j, IsHook(p[j])
                 PROVE  /\ p[i].cmd \notin {"policy", "cryptenroll"}
                        /\ IsHook(p[i]) /\ p[j].cmd # "policy" => p[i].esp <= p[j].esp
    BY <1>5 DEF HookOrder
  <2>2. j \notin 1..4
    BY <2>1, <1>1, <1>6 DEF IsHook
  <2>3. j - 4 \in 1..n /\ p[j] = InstallHook[j - 4]
    BY <2>2, <1>5, <1>8
  <2>4. CASE i \in 1..4
    BY <2>4, <1>1, <1>6 DEF IsHook
  <2>5. CASE i - 4 \in 1..n
    <3>1. p[i] = InstallHook[i - 4]
      BY <2>5, <1>5
    <3>2. i - 4 < j - 4
      BY <2>1
    <3>3. QED BY <2>1, <2>3, <2>5, <3>1, <3>2, <1>4, <1>14 DEF HookOrder
  <2>6. QED BY <2>4, <2>5, <1>8
<1>16. StubsFirst(p)
  <2>1. SUFFICES ASSUME NEW i \in 1..(4 + n), p[i].cmd = "collect"
                 PROVE  \E j \in 1..(i - 1) : p[j].cmd = "stubs" /\ p[j].esp = p[i].esp
    BY <1>5 DEF StubsFirst
  <2>2. i \notin 1..4
    BY <2>1, <1>1, <1>6
  <2>3. i - 4 \in 1..n /\ p[i] = InstallHook[i - 4]
    BY <2>2, <1>5, <1>8
  <2>4. PICK j \in 1..((i - 4) - 1) :
          InstallHook[j].cmd = "stubs" /\ InstallHook[j].esp = InstallHook[i - 4].esp
    BY <2>1, <2>3, <1>4, <1>14 DEF StubsFirst
  <2>5. j \in 1..n /\ j + 4 \in 1..(i - 1)
    BY <2>3
  <2>6. p[j + 4] = InstallHook[j]
    BY <2>5, <1>7
  <2>7. QED BY <2>3, <2>4, <2>5, <2>6
<1>17. QED BY <1>5, <1>10, <1>12, <1>13, <1>15, <1>16 DEF p

\* The script of auto-cryptenroll.
LEMMA CryptenrollCommands ==
  ASSUME opt \in Settings, opt.measured
  PROVE  /\ AutoCryptenroll \in Seq(Command) /\ AutoCryptenroll # <<>>
         /\ \A i \in 1..Len(AutoCryptenroll) : BelongsTo(AutoCryptenroll[i], "cryptenroll")
         /\ HookOrder(AutoCryptenroll) /\ StubsFirst(AutoCryptenroll)
         /\ Follows(AutoCryptenroll, "policy", "cryptenroll")
         /\ Follows(AutoCryptenroll, "cryptenroll", "touch")
<1> DEFINE b == <<Do("cryptenroll"), Do("touch")>>
           p == AutoCryptenroll
<1>1. b \in Seq(Command) /\ Len(b) = 2 /\ b[1].cmd = "cryptenroll" /\ b[2].cmd = "touch"
  BY DEF Do, Command
<1>2. p = InstallHook \o b
  BY DEF AutoCryptenroll
<1> HIDE DEF b, p
<1>3. InstallHook \in Seq(Command)
  BY HookCommands
<1>4. PICK n \in Nat : n = Len(InstallHook)
  BY <1>3, LenProperties
<1>5. /\ p \in Seq(Command) /\ Len(p) = n + 2
      /\ \A i \in 1..(n + 2) : p[i] = IF i <= n THEN InstallHook[i] ELSE b[i - n]
  <2>1. /\ InstallHook \o b \in Seq(Command) /\ Len(InstallHook \o b) = Len(InstallHook) + Len(b)
        /\ \A i \in 1..(Len(InstallHook) + Len(b)) :
             (InstallHook \o b)[i]
               = IF i <= Len(InstallHook) THEN InstallHook[i] ELSE b[i - Len(InstallHook)]
    <3>1. InstallHook \in Seq(Command) /\ b \in Seq(Command)
      BY <1>1, <1>3
    <3>2. QED BY <3>1, ConcatProperties
  <2>2. QED BY <2>1, <1>1, <1>2, <1>4
<1>6. n > 1 /\ InstallHook[1].cmd = "stubs" /\ InstallHook[n].cmd = "policy"
  BY <1>4, HookCommands
<1>7. \A i \in 1..n : p[i] = InstallHook[i]
  BY <1>5
<1>8. p[n + 1] = b[1] /\ p[n + 2] = b[2]
  BY <1>5
<1>9. \A i \in 1..(n + 2) : i \in 1..n \/ i = n + 1 \/ i = n + 2
  OBVIOUS
<1>10. \A i \in 1..n : /\ HookCommand(InstallHook[i])
                       /\ InstallHook[i].cmd \in {"stubs", "loader", "collect", "policy"}
  BY <1>4, HookCommands DEF HookCommand
<1>11. /\ p[1].cmd = "stubs" /\ p[n].cmd = "policy"
       /\ p[n + 1].cmd = "cryptenroll" /\ p[n + 2].cmd = "touch"
       /\ \A i \in 1..n : p[i].cmd \in {"stubs", "loader", "collect", "policy"}
  <2>1. 1 \in 1..n /\ n \in 1..n
    BY <1>6
  <2>2. QED BY <2>1, <1>1, <1>6, <1>7, <1>8, <1>10
<1>12. \A i \in 1..(n + 2) : BelongsTo(p[i], "cryptenroll")
  BY <1>7, <1>9, <1>10, <1>11 DEF BelongsTo
<1>13. HookOrder(p) /\ StubsFirst(p)
  <2>1. HookOrder(InstallHook) /\ StubsFirst(InstallHook)
    BY HookCommands
  <2>2. \A i \in 1..(n + 2) : IsHook(p[i]) \/ p[i].cmd = "collect" => i \in 1..n
    BY <1>9, <1>11 DEF IsHook
  <2>3. HookOrder(p)
    <3>1. SUFFICES ASSUME NEW i \in 1..(n + 2), NEW j \in 1..(n + 2), i < j, IsHook(p[j])
                   PROVE  /\ p[i].cmd \notin {"policy", "cryptenroll"}
                          /\ IsHook(p[i]) /\ p[j].cmd # "policy" => p[i].esp <= p[j].esp
      BY <1>5 DEF HookOrder
    <3>2. i \in 1..n /\ j \in 1..n
      BY <2>2, <3>1
    <3>3. QED BY <2>1, <3>1, <3>2, <1>4, <1>7 DEF HookOrder
  <2>4. StubsFirst(p)
    <3>1. SUFFICES ASSUME NEW i \in 1..(n + 2), p[i].cmd = "collect"
                   PROVE  \E j \in 1..(i - 1) : p[j].cmd = "stubs" /\ p[j].esp = p[i].esp
      BY <1>5 DEF StubsFirst
    <3>2. i \in 1..n
      BY <2>2, <3>1
    <3>3. PICK j \in 1..(i - 1) :
            InstallHook[j].cmd = "stubs" /\ InstallHook[j].esp = InstallHook[i].esp
      BY <2>1, <3>1, <3>2, <1>4, <1>7 DEF StubsFirst
    <3>4. j \in 1..n
      BY <3>2
    <3>5. QED BY <3>2, <3>3, <3>4, <1>7
  <2>5. QED BY <2>3, <2>4
<1>14. Follows(p, "policy", "cryptenroll")
  <2>1. SUFFICES ASSUME NEW i \in 1..(n + 2), p[i].cmd = "cryptenroll"
                 PROVE  \E j \in 1..(i - 1) : p[j].cmd = "policy"
    BY <1>5 DEF Follows
  <2>2. i = n + 1
    BY <2>1, <1>9, <1>11
  <2>3. n \in 1..(i - 1)
    BY <2>2, <1>6
  <2>4. QED BY <2>3, <1>11
<1>15. Follows(p, "cryptenroll", "touch")
  <2>1. SUFFICES ASSUME NEW i \in 1..(n + 2), p[i].cmd = "touch"
                 PROVE  \E j \in 1..(i - 1) : p[j].cmd = "cryptenroll"
    BY <1>5 DEF Follows
  <2>2. i = n + 2
    BY <2>1, <1>9, <1>11
  <2>3. n + 1 \in 1..(i - 1)
    BY <2>2, <1>6
  <2>4. QED BY <2>3, <1>11
<1>16. p # <<>>
  <2>1. Len(p) # 0
    BY <1>5
  <2>2. QED BY <2>1
<1>17. QED BY <1>5, <1>12, <1>13, <1>14, <1>15, <1>16 DEF p

-----------------------------------------------------------------------------
(* The invariant that holds in every configuration.                        *)

\* Only a running machine runs anything, and what it has left to run are
\* commands of the running service.
Running ==
  /\ job = "none" => todo = <<>>
  /\ machine # "up" => job = "none" /\ pending = {}
  /\ \A i \in 1..Len(todo) : BelongsTo(todo[i], job)

\* How far key generation has come, and what that leaves in pkiBundle.
Generating ==
  job = "generate" =>
    \/ /\ keystate = "none" /\ Len(todo) = 3
       /\ todo[1].cmd = "create_dir" /\ todo[2].cmd = "create_pem"
       /\ todo[3].cmd = "create_key"
    \/ /\ keystate = "dir" /\ Len(todo) = 2
       /\ todo[1].cmd = "create_pem" /\ todo[2].cmd = "create_key"
    \/ keystate = "half" /\ Len(todo) = 1 /\ todo[1].cmd = "create_key"
    \/ keystate = "full" /\ todo = <<>>

\* There is one key, and nothing is ever about another.
OneKey ==
  /\ key = Unsigned => firmware = Unsigned
  /\ \A f \in AuthFiles : auth[f] \in {Unsigned, key}
  /\ firmware \in {Unsigned, key}

\* The variables are exported before anything else, and that needs the keys.
Exporting ==
  job = "prepare" => keystate = "full" \/ (todo # <<>> /\ todo[1].cmd = "enroll_keys")

CountsOK ==
  /\ used \in [Bounded -> Nat]
  /\ \A kind \in Bounded : used[kind] \in 0..opt[kind]

\* What TypeOK says of the disk and the firmware.
DiskOK ==
  /\ keystate \in {"none", "dir", "half", "full"}
  /\ key \in 0..MaxKeys
  /\ keystate = "full" <=> key # Unsigned
  /\ auth \in [AuthFiles -> 0..MaxKeys]
  /\ esp \in [1..opt.esps -> [stubs : SUBSET (0..MaxKeys), loader : 0..MaxKeys]]
  /\ firmware \in 0..MaxKeys
  /\ measured \subseteq {4, 7} /\ policy \subseteq {4, 7}
  /\ bound \in BOOLEAN /\ enrolled \in BOOLEAN /\ prepared \in BOOLEAN

\* What it says of the running machine.
MachineOK ==
  /\ machine \in {"off", "loader", "up", "dead"}
  /\ pending \subseteq Services
  /\ job \in Services \cup {"rebuild", "none"}
  /\ todo \in Seq(Command)

Base ==
  /\ opt \in Settings
  /\ CountsOK /\ DiskOK /\ MachineOK
  /\ Running /\ Generating /\ OneKey /\ Exporting

\* The invariant includes the type invariant.
LEMMA BaseImpliesTypeOK == Base => TypeOK
BY DEF Base, CountsOK, DiskOK, MachineOK, TypeOK

\* A bounded event stays within its bound.
LEMMA EventCounts ==
  ASSUME opt \in Settings, CountsOK, NEW kind \in Bounded, Event(kind), opt' = opt
  PROVE  CountsOK'
<1>1. opt[kind] \in Nat
  <2>1. opt["resets"] \in Nat /\ opt["failures"] \in Nat /\ opt["rebuilds"] \in Nat
    BY SettingsAssumption
  <2>2. QED BY <2>1 DEF Bounded
<1>2. used[kind] \in Nat /\ used[kind] + 1 <= opt[kind]
  BY <1>1 DEF CountsOK, Event
<1>3. used' = [used EXCEPT ![kind] = used[kind] + 1]
  BY DEF Event
<1>4. used[kind] + 1 \in 0..opt[kind]
  BY <1>1, <1>2
<1>5. QED BY <1>2, <1>3, <1>4 DEF CountsOK

\* A machine that has never been provisioned.
LEMMA BaseInit == Init => Base
<1> SUFFICES ASSUME Init PROVE Base
  OBVIOUS
<1>1. opt \in Settings /\ opt.esps \in Nat \ {0} /\ MaxKeys \in Nat \ {0}
  BY SettingsAssumption DEF Init
<1>2. CountsOK
  <2>1. opt["resets"] \in Nat /\ opt["failures"] \in Nat /\ opt["rebuilds"] \in Nat
    BY <1>1, SettingsAssumption
  <2>2. \A kind \in Bounded : opt[kind] \in Nat
    BY <2>1 DEF Bounded
  <2>3. QED BY <2>2 DEF CountsOK, Init
<1>3. DiskOK
  <2>1. 0 \in 0..MaxKeys
    BY <1>1
  <2>2. measured \subseteq {4, 7}
    BY DEF Init
  <2>3. esp \in [1..opt.esps -> [stubs : SUBSET (0..MaxKeys), loader : 0..MaxKeys]]
    BY <2>1 DEF Init, Unsigned
  <2>4. QED BY <2>1, <2>2, <2>3 DEF DiskOK, Init, Unsigned
<1>4. MachineOK
  BY DEF MachineOK, Init, Services
<1>5. Running /\ Generating /\ OneKey /\ Exporting
  BY DEF Running, Generating, OneKey, Exporting, Init, Unsigned
<1>6. QED BY <1>1, <1>2, <1>3, <1>4, <1>5 DEF Base

\* A machine that goes off runs nothing.
LEMMA OffIsQuiet ==
  ASSUME Off
  PROVE  MachineOK' /\ Running' /\ Generating' /\ Exporting'
BY DEF Off, MachineOK, Running, Generating, Exporting

\* The firmware looks for a boot loader it accepts.
LEMMA PowerOnBase == Base /\ PowerOn => Base'
<1> SUFFICES ASSUME Base, PowerOn PROVE Base'
  OBVIOUS
<1>1. CountsOK' /\ DiskOK' /\ opt' \in Settings
  BY DEF Base, PowerOn, CountsOK, DiskOK, pki, tpm
<1>2. MachineOK' /\ Running' /\ Generating' /\ Exporting' /\ OneKey'
  BY DEF Base, PowerOn, MachineOK, Running, Generating, Exporting, OneKey, BelongsTo,
         HookCommand, pki, tpm
<1>3. QED BY <1>1, <1>2 DEF Base

\* systemd-boot enrols one key from files that are all about it.
LEMMA EnrollBase == Base /\ Enroll => Base'
<1> SUFFICES ASSUME Base, Enroll PROVE Base'
  OBVIOUS
<1>1. CountsOK' /\ opt' \in Settings
  BY DEF Base, Enroll, CountsOK
<1>2. "db" \in AuthFiles
  BY DEF AuthFiles
<1>3. firmware' \in 0..MaxKeys /\ firmware' \in {Unsigned, key}
  BY <1>2 DEF Base, Enroll, DiskOK, OneKey
<1>4. DiskOK'
  BY <1>3 DEF Base, Enroll, DiskOK, pki, tpm
<1>5. OneKey'
  BY <1>3 DEF Base, Enroll, OneKey, pki, Unsigned
<1>6. QED BY <1>1, <1>4, <1>5, OffIsQuiet DEF Base, Enroll

\* A system that comes up has no job yet.
LEMMA StartSystemBase == Base /\ StartSystem => Base'
<1> SUFFICES ASSUME Base, StartSystem PROVE Base'
  OBVIOUS
<1>1. CountsOK' /\ opt' \in Settings
  BY DEF Base, StartSystem, CountsOK
<1>2. measured' \subseteq {4, 7} /\ policy' \subseteq {4, 7}
  BY DEF Base, StartSystem, DiskOK
<1>3. DiskOK'
  BY <1>2 DEF Base, StartSystem, DiskOK, pki
<1>4. MachineOK' /\ Running' /\ Generating' /\ Exporting' /\ OneKey'
  BY DEF Base, StartSystem, MachineOK, Running, Generating, Exporting, OneKey, BelongsTo,
         HookCommand, pki
<1>5. QED BY <1>1, <1>3, <1>4 DEF Base

\* A reset, or a reboot, forgets the job and keeps the disk.
LEMMA ResetBase == Base /\ (Reset \/ Reboot) => Base'
<1> SUFFICES ASSUME Base, Reset \/ Reboot PROVE Base'
  OBVIOUS
<1>1. CountsOK'
  <2>1. CASE Reset
    <3>1. "resets" \in Bounded
      BY DEF Bounded
    <3>2. QED BY <2>1, <3>1, EventCounts DEF Base, Reset
  <2>2. CASE Reboot
    BY <2>2 DEF Base, Reboot, CountsOK
  <2>3. QED BY <2>1, <2>2
<1>2. Off /\ UNCHANGED <<opt, pki, auth, esp, firmware, tpm, prepared>>
  BY DEF Reset, Reboot
<1>3. DiskOK' /\ OneKey'
  BY <1>2 DEF Base, DiskOK, OneKey, pki, tpm
<1>4. QED BY <1>1, <1>2, <1>3, OffIsQuiet DEF Base

\* A script is started as a whole.
LEMMA ScriptStarts ==
  ASSUME Base, NEW j \in Services \cup {"rebuild"},
         j \in Services => Condition(j),
         machine = "up", machine' = "up", job' = j, todo' = Script(j),
         opt' = opt, keystate' = keystate, pending' \subseteq Services
  PROVE  MachineOK' /\ Running' /\ Generating' /\ Exporting'
<1>0. opt \in Settings
  BY DEF Base
<1>1. CASE j = "generate"
  <2>1. todo' = <<Do("create_dir"), Do("create_pem"), Do("create_key")>> /\ keystate = "none"
    BY <1>1 DEF Script, GenerateSbKeys, Condition, Services, NoKeysDirectory
  <2>2. /\ todo' \in Seq(Command) /\ Len(todo') = 3
        /\ todo'[1].cmd = "create_dir" /\ todo'[2].cmd = "create_pem"
        /\ todo'[3].cmd = "create_key"
    BY <2>1 DEF Do, Command
  <2>3. \A i \in 1..3 : BelongsTo(todo[i], job)'
    BY <2>2, <1>1 DEF BelongsTo
  <2>4. QED BY <1>1, <2>1, <2>2, <2>3 DEF MachineOK, Running, Generating, Exporting
<1>2. CASE j = "prepare"
  <2>1. todo' = PrepareSbAutoEnroll
    BY <1>2 DEF Script
  <2>2. /\ todo' \in Seq(Command) /\ todo' # <<>> /\ todo'[1].cmd = "enroll_keys"
        /\ \A i \in 1..Len(todo') : BelongsTo(todo'[i], "prepare")
    BY <2>1, <1>0, PrepareCommands
  <2>3. \A i \in 1..Len(todo') : BelongsTo(todo[i], job)'
    BY <2>2, <1>2 DEF BelongsTo, HookCommand
  <2>4. QED BY <1>2, <2>2, <2>3 DEF MachineOK, Running, Generating, Exporting, Services
<1>3. CASE j = "cryptenroll"
  <2>1. todo' = AutoCryptenroll /\ opt.measured
    BY <1>3 DEF Script, Condition, Services, NotEnrolled
  <2>2. /\ todo' \in Seq(Command)
        /\ \A i \in 1..Len(todo') : BelongsTo(todo'[i], "cryptenroll")
    BY <2>1, <1>0, CryptenrollCommands
  <2>3. \A i \in 1..Len(todo') : BelongsTo(todo[i], job)'
    BY <2>2, <1>3 DEF BelongsTo, HookCommand
  <2>4. QED BY <1>3, <2>2, <2>3 DEF MachineOK, Running, Generating, Exporting, Services
<1>4. CASE j = "rebuild"
  <2>1. todo' = InstallHook
    BY <1>4 DEF Script
  <2>2. /\ todo' \in Seq(Command)
        /\ \A i \in 1..Len(todo') : HookCommand(todo'[i])
    BY <2>1, <1>0, HookCommands
  <2>3. \A i \in 1..Len(todo') : BelongsTo(todo[i], job)'
    BY <2>2, <1>4 DEF BelongsTo, HookCommand
  <2>4. QED BY <1>4, <2>2, <2>3 DEF MachineOK, Running, Generating, Exporting
<1>5. QED BY <1>1, <1>2, <1>3, <1>4 DEF Services

\* A service starts with its whole script, if its condition holds.
LEMMA StartServiceBase == \A s \in Services : Base /\ StartService(s) => Base'
<1> SUFFICES ASSUME NEW s \in Services, Base, StartService(s) PROVE Base'
  OBVIOUS
<1>1. CountsOK' /\ DiskOK' /\ OneKey' /\ opt' \in Settings
  BY DEF Base, StartService, CountsOK, DiskOK, OneKey, pki, tpm
<1>2. /\ machine = "up" /\ machine' = "up" /\ pending' \subseteq Services /\ opt' = opt
      /\ keystate' = keystate
  BY DEF Base, StartService, MachineOK, Idle, pki
<1>3. CASE Condition(s) /\ job' = s /\ todo' = Script(s)
  <2>1. MachineOK' /\ Running' /\ Generating' /\ Exporting'
    BY <1>2, <1>3, ScriptStarts
  <2>2. QED BY <1>1, <2>1 DEF Base
<1>4. CASE UNCHANGED <<job, todo>>
  <2>1. MachineOK' /\ Running' /\ Generating' /\ Exporting'
    BY <1>2, <1>4 DEF Base, MachineOK, Running, Generating, Exporting, BelongsTo, HookCommand
  <2>2. QED BY <1>1, <2>1 DEF Base
<1>5. QED BY <1>3, <1>4 DEF StartService

\* nixos-rebuild runs the hook.
LEMMA RebuildBase == Base /\ Rebuild => Base'
<1> SUFFICES ASSUME Base, Rebuild PROVE Base'
  OBVIOUS
<1>1. DiskOK' /\ OneKey' /\ opt' \in Settings
  BY DEF Base, Rebuild, DiskOK, OneKey, pki, tpm
<1>2. CountsOK'
  <2>1. "rebuilds" \in Bounded
    BY DEF Bounded
  <2>2. QED BY <2>1, EventCounts DEF Base, Rebuild
<1>3. /\ machine = "up" /\ machine' = "up" /\ pending' \subseteq Services /\ opt' = opt
      /\ keystate' = keystate /\ job' = "rebuild" /\ todo' = Script("rebuild")
  BY DEF Base, Rebuild, MachineOK, Idle, pki
<1>4. "rebuild" \notin Services
  BY DEF Services
<1>5. MachineOK' /\ Running' /\ Generating' /\ Exporting'
  BY <1>3, <1>4, ScriptStarts
<1>6. QED BY <1>1, <1>2, <1>5 DEF Base

\* A service ends with nothing left to do.
LEMMA FinishJobBase == Base /\ FinishJob => Base'
<1> SUFFICES ASSUME Base, FinishJob PROVE Base'
  OBVIOUS
<1>1. CountsOK' /\ opt' \in Settings
  BY DEF Base, FinishJob, CountsOK
<1>2. prepared' \in BOOLEAN
  BY DEF FinishJob
<1>3. DiskOK' /\ OneKey'
  BY <1>2 DEF Base, FinishJob, DiskOK, OneKey, pki, tpm
<1>4. CASE Off
  BY <1>1, <1>3, <1>4, OffIsQuiet DEF Base
<1>5. CASE job' = "none" /\ UNCHANGED <<machine, pending, todo>>
  <2>1. MachineOK' /\ Running' /\ Generating' /\ Exporting'
    BY <1>5 DEF Base, FinishJob, MachineOK, Running, Generating, Exporting
  <2>2. QED BY <1>1, <1>3, <2>1 DEF Base
<1>6. QED BY <1>4, <1>5 DEF FinishJob

\* The next command is one of the running service.
LEMMA NextCommand ==
  ASSUME Base, machine = "up", todo # <<>>
  PROVE  /\ Len(todo) \in Nat \ {0} /\ Head(todo) = todo[1] /\ Head(todo) \in Command
         /\ BelongsTo(Head(todo), job) /\ job # "none"
         /\ Tail(todo) \in Seq(Command) /\ Len(Tail(todo)) = Len(todo) - 1
         /\ \A i \in 1..(Len(todo) - 1) : Tail(todo)[i] = todo[i + 1] /\ i + 1 \in 1..Len(todo)
<1>1. todo \in Seq(Command)
  BY DEF Base, MachineOK
<1>2. /\ Len(todo) \in Nat \ {0} /\ Head(todo) = todo[1] /\ Head(todo) \in Command
      /\ Tail(todo) \in Seq(Command) /\ Len(Tail(todo)) = Len(todo) - 1
      /\ \A i \in 1..(Len(todo) - 1) : Tail(todo)[i] = todo[i + 1]
  BY <1>1, FirstAndRest
<1>3. 1 \in 1..Len(todo)
  BY <1>2
<1>4. BelongsTo(Head(todo), job) /\ job # "none"
  BY <1>2, <1>3 DEF Base, Running
<1>5. \A i \in 1..(Len(todo) - 1) : i + 1 \in 1..Len(todo)
  BY <1>2
<1>6. QED BY <1>2, <1>4, <1>5

\* Every command that succeeds; only create_key makes a new key, and there are
\* no auth files then.
LEMMA RunCommandBase == Base /\ RunCommand => Base'
<1> SUFFICES ASSUME Base, RunCommand PROVE Base'
  OBVIOUS
<1> DEFINE c == Head(todo)
<1>1. machine = "up" /\ todo # <<>>
  BY DEF RunCommand
<1>2. /\ Len(todo) \in Nat \ {0} /\ c = todo[1] /\ c \in Command
      /\ BelongsTo(c, job) /\ job # "none"
      /\ todo' \in Seq(Command) /\ Len(todo') = Len(todo) - 1
      /\ \A i \in 1..(Len(todo) - 1) : todo'[i] = todo[i + 1] /\ i + 1 \in 1..Len(todo)
  BY <1>1, NextCommand DEF RunCommand
<1>3. /\ UNCHANGED <<opt, used, firmware, machine, pending, job, prepared>>
      /\ CreateKeys(c) \/ EnrollKeys(c) \/ RunLzbt(c) \/ LockTpm(c)
  BY DEF RunCommand
<1>4. opt' \in Settings /\ CountsOK' /\ MachineOK'
  BY <1>2, <1>3 DEF Base, CountsOK, MachineOK
<1>5. Running'
  <2>1. \A i \in 1..Len(todo') : BelongsTo(todo[i], job)'
    <3>1. \A i \in 1..Len(todo') : BelongsTo(todo'[i], job)
      BY <1>2 DEF Base, Running
    <3>2. QED BY <3>1, <1>3 DEF BelongsTo, HookCommand
  <2>2. QED BY <2>1, <1>1, <1>2, <1>3 DEF Running
<1>6. CASE CreateKeys(c)
  <2>1. job = "generate"
    BY <1>2, <1>6 DEF CreateKeys, BelongsTo, HookCommand
  <2>2. key = Unsigned
    BY <1>1, <2>1 DEF Base, Generating, DiskOK
  <2>3. /\ c.cmd = "create_dir" => keystate = "none" /\ Len(todo) = 3
        /\ c.cmd = "create_pem" => keystate = "dir" /\ Len(todo) = 2
        /\ c.cmd = "create_key" => keystate = "half" /\ Len(todo) = 1
    BY <1>1, <1>2, <2>1 DEF Base, Generating
  <2>4. /\ keystate' \in {"none", "dir", "half", "full"} /\ key' \in 0..MaxKeys
        /\ keystate' = "full" <=> key' # Unsigned
    <3>1. MaxKeys \in Nat
      BY SettingsAssumption
    <3>2. QED BY <1>6, <2>2, <3>1 DEF CreateKeys, Unsigned, Base, DiskOK
  <2>5. DiskOK'
    BY <1>3, <1>6, <2>4 DEF Base, DiskOK, CreateKeys, tpm
  <2>6. OneKey'
    BY <1>3, <1>6, <2>2, <2>4 DEF Base, OneKey, CreateKeys
  <2>7. Generating'
    <3>1. CASE c.cmd = "create_dir"
      <4>1. todo[2].cmd = "create_pem" /\ todo[3].cmd = "create_key"
        BY <2>1, <2>3, <3>1, <1>1, <1>2 DEF Base, Generating
      <4>2. Len(todo') = 2 /\ todo'[1] = todo[2] /\ todo'[2] = todo[3]
        BY <1>2, <2>3, <3>1
      <4>3. QED BY <4>1, <4>2, <3>1, <1>6 DEF Generating, CreateKeys
    <3>2. CASE c.cmd = "create_pem"
      <4>1. todo[2].cmd = "create_key"
        BY <2>1, <2>3, <3>2, <1>1, <1>2 DEF Base, Generating
      <4>2. Len(todo') = 1 /\ todo'[1] = todo[2]
        BY <1>2, <2>3, <3>2
      <4>3. QED BY <4>1, <4>2, <3>2, <1>6 DEF Generating, CreateKeys
    <3>3. CASE c.cmd = "create_key"
      <4>1. Len(todo') = 0
        BY <1>2, <2>3, <3>3
      <4>2. todo' = <<>>
        BY <4>1, <1>2, EmptySeq
      <4>3. QED BY <4>2, <3>3, <1>6 DEF Generating, CreateKeys
    <3>4. QED BY <3>1, <3>2, <3>3, <1>6 DEF CreateKeys
  <2>8. Exporting'
    BY <1>3, <2>1 DEF Exporting
  <2>9. QED BY <1>4, <1>5, <2>5, <2>6, <2>7, <2>8 DEF Base
<1>7. ASSUME EnrollKeys(c) \/ RunLzbt(c) \/ LockTpm(c), DiskOK', OneKey'
      PROVE  Base'
  <2>1. job # "generate"
    BY <1>2, <1>7 DEF EnrollKeys, RunLzbt, LockTpm, BelongsTo, AuthFiles
  <2>2. keystate' = keystate
    BY <1>7 DEF EnrollKeys, RunLzbt, LockTpm, pki
  <2>3. Generating'
    BY <1>3, <2>1 DEF Generating
  <2>4. Exporting'
    <3>1. job = "prepare" => keystate = "full"
      <4>1. c.cmd = "enroll_keys" => keystate = "full"
        BY <1>7 DEF EnrollKeys, RunLzbt, LockTpm, AuthFiles
      <4>2. QED BY <4>1, <1>2 DEF Base, Exporting
    <3>2. QED BY <3>1, <2>2, <1>3 DEF Exporting
  <2>5. QED BY <1>4, <1>5, <1>7, <2>3, <2>4 DEF Base
<1>8. CASE EnrollKeys(c)
  <2>1. auth' \in [AuthFiles -> 0..MaxKeys] /\ \A f \in AuthFiles : auth'[f] \in {Unsigned, key}
    BY <1>8 DEF Base, DiskOK, OneKey, EnrollKeys
  <2>2. DiskOK' /\ OneKey'
    BY <1>3, <1>8, <2>1 DEF Base, DiskOK, OneKey, EnrollKeys, pki, tpm
  <2>3. QED BY <1>7, <1>8, <2>2
<1>9. CASE RunLzbt(c)
  <2>1. c.cmd \in {"stubs", "loader", "collect"} /\ c.esp \in 1..opt.esps
    BY <1>2, <1>9 DEF RunLzbt, BelongsTo, HookCommand
  <2>2. measured' \subseteq {4, 7}
    BY <1>9 DEF RunLzbt, Base, DiskOK
  <2>3. key \in 0..MaxKeys /\ SignedLoader(c.esp) \in 0..MaxKeys
    BY <2>1 DEF Base, DiskOK, SignedLoader, Signer
  <2>4. esp' \in [1..opt.esps -> [stubs : SUBSET (0..MaxKeys), loader : 0..MaxKeys]]
    <3>1. esp \in [1..opt.esps -> [stubs : SUBSET (0..MaxKeys), loader : 0..MaxKeys]]
      BY DEF Base, DiskOK
    <3>2. CASE esp' = [esp EXCEPT ![c.esp].stubs = @ \cup {Signer}]
      BY <2>1, <2>3, <3>1, <3>2 DEF Signer
    <3>3. CASE esp' = [esp EXCEPT ![c.esp].loader = SignedLoader(c.esp)]
      BY <2>1, <2>3, <3>1, <3>3
    <3>4. CASE esp' = [esp EXCEPT ![c.esp].stubs = {Signer}]
      BY <2>1, <2>3, <3>1, <3>4 DEF Signer
    <3>5. QED BY <3>2, <3>3, <3>4, <1>9 DEF RunLzbt
  <2>5. DiskOK' /\ OneKey'
    BY <1>3, <1>9, <2>2, <2>4 DEF Base, DiskOK, OneKey, RunLzbt, pki
  <2>6. QED BY <1>7, <1>9, <2>5
<1>10. CASE LockTpm(c)
  <2>1. policy' \subseteq {4, 7} /\ bound' \in BOOLEAN /\ enrolled' \in BOOLEAN
    BY <1>10 DEF LockTpm, Base, DiskOK
  <2>2. DiskOK' /\ OneKey'
    BY <1>3, <1>10, <2>1 DEF Base, DiskOK, OneKey, LockTpm, pki
  <2>3. QED BY <1>7, <1>10, <2>2
<1>11. QED BY <1>3, <1>6, <1>8, <1>9, <1>10

\* The parts of CommandFails.
LEMMA FailureParts ==
  ASSUME Base, CommandFails
  PROVE  /\ machine = "up" /\ todo # <<>>
         /\ UNCHANGED <<opt, pki, auth, esp, firmware, machine, pending, tpm, prepared>>
         /\ todo' = AfterFailure(Head(todo), Tail(todo))
         /\ job' = IF todo' = <<>> THEN "none" ELSE job
         /\ \/ /\ used' = used
               /\ \/ Head(todo).cmd = "exit_1"
                  \/ Head(todo).cmd = "enroll_keys" /\ keystate # "full"
                  \/ Head(todo).cmd = "stubs" /\ keystate = "half"
            \/ Event("failures")
BY DEF CommandFails, LzbtCanStart

\* Every command that fails leaves a rest of its script.
LEMMA CommandFailsBase == Base /\ CommandFails => Base'
<1> SUFFICES ASSUME Base, CommandFails PROVE Base'
  OBVIOUS
<1> DEFINE c == Head(todo)
           rest == Tail(todo)
<1>1. /\ machine = "up" /\ todo # <<>>
      /\ UNCHANGED <<opt, pki, auth, esp, firmware, machine, pending, tpm, prepared>>
      /\ todo' = AfterFailure(c, rest)
      /\ job' = IF todo' = <<>> THEN "none" ELSE job
      /\ used' = used \/ Event("failures")
  BY FailureParts
<1>2. /\ Len(todo) \in Nat \ {0} /\ c = todo[1] /\ c \in Command
      /\ BelongsTo(c, job) /\ job # "none"
      /\ rest \in Seq(Command) /\ Len(rest) = Len(todo) - 1
      /\ \A i \in 1..(Len(todo) - 1) : rest[i] = todo[i + 1] /\ i + 1 \in 1..Len(todo)
  BY <1>1, NextCommand
<1>3. CountsOK'
  <2>1. "failures" \in Bounded
    BY DEF Bounded
  <2>2. ASSUME used' = used PROVE CountsOK'
    BY <1>1, <2>2 DEF Base, CountsOK
  <2>3. QED BY <1>1, <2>1, <2>2, EventCounts DEF Base
<1>4. opt' \in Settings /\ DiskOK' /\ OneKey'
  BY <1>1 DEF Base, DiskOK, OneKey, pki, tpm
<1>5. /\ todo' \in Seq(Command)
      /\ \A i \in 1..Len(todo') :
           \/ c.cmd \in AuthFiles /\ todo'[i] = Do("exit_1")
           \/ \E j \in 1..Len(rest) : todo'[i] = rest[j]
      /\ (c.cmd \notin AuthFiles /\ \A i \in 1..Len(rest) : ~GoesOnWith(c, rest[i])) => todo' = <<>>
  <2> DEFINE af == AfterFailure(c, rest)
  <2>1. /\ af \in Seq(Command)
        /\ \A i \in 1..Len(af) :
             \/ c.cmd \in AuthFiles /\ af[i] = Do("exit_1")
             \/ \E j \in 1..Len(rest) : af[i] = rest[j]
        /\ (c.cmd \notin AuthFiles /\ \A i \in 1..Len(rest) : ~GoesOnWith(c, rest[i])) => af = <<>>
    <3>1. c \in Command /\ rest \in Seq(Command)
      BY <1>2
    <3> HIDE DEF c, rest
    <3>2. QED BY <3>1, AfterFailureKeeps
  <2>2. todo' = af
    BY <1>1
  <2> HIDE DEF af
  <2>3. QED BY <2>1, <2>2
<1>6. MachineOK'
  BY <1>1, <1>5 DEF Base, MachineOK
<1>7. Running'
  <2>1. ASSUME NEW i \in 1..Len(todo'), todo' # <<>> PROVE BelongsTo(todo'[i], job)
    <3>1. CASE c.cmd \in AuthFiles /\ todo'[i] = Do("exit_1")
      <4>1. job = "prepare"
        BY <1>2, <3>1 DEF BelongsTo, HookCommand, AuthFiles
      <4>2. QED BY <3>1, <4>1 DEF BelongsTo, Do
    <3>2. CASE \E j \in 1..Len(rest) : todo'[i] = rest[j]
      BY <3>2, <1>2 DEF Base, Running
    <3>3. QED BY <3>1, <3>2, <1>5
  <2>2. CASE todo' = <<>>
    BY <2>2, <1>1 DEF Running
  <2>3. CASE todo' # <<>>
    <3>1. \A i \in 1..Len(todo') : BelongsTo(todo[i], job)'
      BY <2>1, <2>3, <1>1 DEF BelongsTo, HookCommand
    <3>2. QED BY <3>1, <2>3, <1>1, <1>2 DEF Running
  <2>4. QED BY <2>2, <2>3
<1>8. todo' # <<>> => IsHook(c) \/ c.cmd \in AuthFiles
  BY <1>5 DEF GoesOnWith
<1>9. Generating'
  <2>1. job = "generate" => ~IsHook(c) /\ c.cmd \notin AuthFiles
    BY <1>2 DEF BelongsTo, IsHook, AuthFiles
  <2>2. QED BY <2>1, <1>8, <1>1 DEF Generating
<1>10. Exporting'
  <2>1. c.cmd = "enroll_keys" => ~IsHook(c) /\ c.cmd \notin AuthFiles
    BY DEF IsHook, AuthFiles
  <2>2. todo' # <<>> /\ job = "prepare" => keystate = "full"
    BY <2>1, <1>2, <1>8 DEF Base, Exporting
  <2>3. keystate' = keystate
    BY <1>1 DEF pki
  <2>4. QED BY <2>2, <2>3, <1>1 DEF Exporting
<1>11. QED BY <1>3, <1>4, <1>6, <1>7, <1>9, <1>10 DEF Base

\* One step of the machine.
LEMMA BaseStep == Base /\ [Next]_vars => Base'
<1> SUFFICES ASSUME Base, [Next]_vars PROVE Base'
  OBVIOUS
<1>1. CASE UNCHANGED vars
  BY <1>1 DEF Base, CountsOK, DiskOK, MachineOK, Running, Generating, OneKey, Exporting,
              BelongsTo, HookCommand, vars, pki, running, tpm
<1>2. CASE Next
  BY <1>2, PowerOnBase, EnrollBase, StartSystemBase, StartServiceBase, RunCommandBase,
     CommandFailsBase, FinishJobBase, ResetBase, RebuildBase DEF Next, Progress
<1>3. QED BY <1>1, <1>2

\* In every configuration.
LEMMA BaseHolds == Spec => []Base
<1>1. QED BY BaseInit, BaseStep, PTL DEF Spec

\* Every variable keeps its type: no chain of resets, failures and rebuilds
\* makes lzbt write outside a mount point or leaves a key pair without its key.
THEOREM TypeCorrect == Spec => []TypeOK
BY BaseHolds, BaseImpliesTypeOK, PTL

\* The key the firmware enforces is the one lzbt signs with: the variables on
\* the ESP are never about a key pair that has been replaced.
THEOREM FirmwareKeyIsOursHolds == Spec => []FirmwareKeyIsOurs
<1>1. Base => FirmwareKeyIsOurs
  BY DEF Base, OneKey, FirmwareKeyIsOurs, SecureBootOn
<1>2. QED BY <1>1, BaseHolds, PTL

-----------------------------------------------------------------------------
(* The policy a volume is bound to.                                        *)

\* A rest of a script is in the order of the script.
LEMMA OrderInRest ==
  ASSUME NEW s \in Seq(Command), s # <<>>
  PROVE  /\ HookOrder(s) => HookOrder(Tail(s))
         /\ StubsFirst(s) /\ Head(s).cmd # "stubs" => StubsFirst(Tail(s))
<1>1. /\ Len(s) \in Nat \ {0} /\ Head(s) = s[1] /\ Len(Tail(s)) = Len(s) - 1
      /\ \A i \in 1..(Len(s) - 1) : Tail(s)[i] = s[i + 1]
  BY FirstAndRest
<1>2. \A i \in 1..(Len(s) - 1) : i + 1 \in 1..Len(s)
  BY <1>1
<1>3. ASSUME HookOrder(s) PROVE HookOrder(Tail(s))
  <2>1. SUFFICES ASSUME NEW i \in 1..(Len(s) - 1), NEW j \in 1..(Len(s) - 1), i < j
                 PROVE  /\ IsHook(s[j + 1]) => s[i + 1].cmd \notin {"policy", "cryptenroll"}
                        /\ IsHook(s[i + 1]) /\ IsHook(s[j + 1]) /\ s[j + 1].cmd # "policy"
                             => s[i + 1].esp <= s[j + 1].esp
    BY <1>1 DEF HookOrder
  <2>2. i + 1 < j + 1
    BY <2>1
  <2>3. QED BY <1>2, <1>3, <2>2 DEF HookOrder
<1>4. ASSUME StubsFirst(s), Head(s).cmd # "stubs" PROVE StubsFirst(Tail(s))
  <2>1. SUFFICES ASSUME NEW i \in 1..(Len(s) - 1), s[i + 1].cmd = "collect"
                 PROVE  \E j \in 1..(i - 1) : /\ Tail(s)[j].cmd = "stubs"
                                              /\ Tail(s)[j].esp = s[i + 1].esp
    BY <1>1 DEF StubsFirst
  <2>2. PICK j \in 1..((i + 1) - 1) : s[j].cmd = "stubs" /\ s[j].esp = s[i + 1].esp
    BY <1>2, <1>4, <2>1 DEF StubsFirst
  <2>3. j # 1
    BY <1>1, <1>4, <2>2
  <2>4. j - 1 \in 1..(i - 1) /\ j - 1 \in 1..(Len(s) - 1) /\ (j - 1) + 1 = j
    BY <1>1, <2>3
  <2>5. Tail(s)[j - 1] = s[j]
    BY <1>1, <2>4
  <2>6. QED BY <2>2, <2>4, <2>5
<1>5. QED BY <1>3, <1>4

\* So is what is left after a failure: where it skips the stubs of a mount
\* point, it skips all that is done there; it skips no policy, and nothing that
\* comes after the hook.
LEMMA OrderAfterFailure ==
  ASSUME Base, machine = "up", todo # <<>>, HookOrder(todo),
         NEW next, next = AfterFailure(Head(todo), Tail(todo))
  PROVE  /\ HookOrder(next)
         /\ StubsFirst(todo) => StubsFirst(next)
         /\ Follows(todo, "policy", "cryptenroll") => Follows(next, "policy", "cryptenroll")
         /\ Follows(todo, "cryptenroll", "touch") => Follows(next, "cryptenroll", "touch")
<1> DEFINE c == Head(todo)
           rest == Tail(todo)
<1>1. /\ Len(todo) \in Nat \ {0} /\ c = todo[1] /\ c \in Command
      /\ BelongsTo(c, job) /\ job # "none"
      /\ rest \in Seq(Command) /\ Len(rest) = Len(todo) - 1
      /\ \A i \in 1..(Len(todo) - 1) : rest[i] = todo[i + 1] /\ i + 1 \in 1..Len(todo)
  BY NextCommand
<1>2. CASE c.cmd \in AuthFiles
  <2>1. \A i \in 1..Len(next) : \/ next[i] = Do("exit_1")
                                \/ \E j \in 1..Len(rest) : /\ next[i] = rest[j]
                                                           /\ rest[j].cmd \in AuthFiles
    <3>1. c \in Command /\ rest \in Seq(Command) /\ next = AfterFailure(c, rest)
      BY <1>1
    <3> HIDE DEF c, rest
    <3>2. QED BY <3>1, <1>2, AfterFailedFile
  <2>2. \A i \in 1..Len(next) : next[i].cmd \in {"exit_1", "PK", "KEK", "db"}
    BY <2>1 DEF Do, AuthFiles
  <2>3. QED BY <2>2 DEF HookOrder, StubsFirst, Follows, IsHook
<1>3. CASE c.cmd \notin AuthFiles
  <2>1. PICK k \in 0..Len(rest) :
          /\ Len(next) = Len(rest) - k
          /\ \A i \in 1..(Len(rest) - k) : next[i] = rest[k + i]
          /\ \A i \in 1..k : ~GoesOnWith(c, rest[i])
          /\ k < Len(rest) => GoesOnWith(c, rest[k + 1])
    <3>1. c \in Command /\ rest \in Seq(Command) /\ next = AfterFailure(c, rest)
      BY <1>1
    <3> HIDE DEF c, rest
    <3>2. \E k \in 0..Len(rest) :
            /\ Len(AfterFailure(c, rest)) = Len(rest) - k
            /\ \A i \in 1..(Len(rest) - k) : AfterFailure(c, rest)[i] = rest[k + i]
            /\ \A i \in 1..k : ~GoesOnWith(c, rest[i])
            /\ k < Len(rest) => GoesOnWith(c, rest[k + 1])
      BY <3>1, <1>3, AfterFailedCommand
    <3>3. QED BY <3>1, <3>2
  <2>2. CASE k = Len(rest)
    <3>1. Len(next) = 0
      BY <1>1, <2>1, <2>2
    <3>2. 1..Len(next) = {}
      BY <3>1
    <3>3. QED BY <3>2 DEF HookOrder, StubsFirst, Follows
  <2>3. CASE k < Len(rest)
    <3>0. PICK N \in Nat \ {0} : Len(todo) = N
      BY <1>1
    <3>1. PICK q \in 1..(N - 1) : q = k + 1
      BY <1>1, <2>1, <2>3, <3>0
    <3>2. /\ Len(next) = N - q /\ N - q \in Nat
          /\ \A i \in 1..(N - q) : /\ next[i] = todo[q + i] /\ q + i \in 1..N
                                    /\ q + 1 <= q + i
      <4>1. Len(next) = N - q /\ N - q \in Nat
        BY <1>1, <2>1, <3>0, <3>1
      <4>2. ASSUME NEW i \in 1..(N - q)
            PROVE  next[i] = todo[q + i] /\ q + i \in 1..N /\ q + 1 <= q + i
        <5>1. k \in Int /\ Len(rest) = N - 1
          BY <1>1, <3>0
        <5>2. i \in 1..(Len(rest) - k) /\ k + i \in 1..(N - 1) /\ (k + i) + 1 = q + i
          BY <5>1, <3>1
        <5>3. next[i] = rest[k + i]
          BY <2>1, <5>2
        <5>4. rest[k + i] = todo[(k + i) + 1]
          BY <1>1, <3>0, <5>2
        <5>5. QED BY <5>2, <5>3, <5>4
      <4>3. QED BY <4>1, <4>2
    <3>3. /\ IsHook(c) /\ IsHook(todo[q + 1]) /\ todo[q + 1].esp # c.esp
          /\ q + 1 \in 1..Len(todo)
      <4>1. GoesOnWith(c, rest[q])
        BY <2>1, <2>3, <3>1
      <4>2. rest[q] = todo[q + 1] /\ q + 1 \in 1..Len(todo)
        BY <1>1, <3>0
      <4>3. QED BY <4>1, <4>2 DEF GoesOnWith
    <3>4. \A j \in 1..q : todo[j].cmd \notin {"policy", "cryptenroll"}
      <4>1. \A j \in 1..q : j \in 1..Len(todo) /\ j < q + 1
        BY <3>0
      <4>2. QED BY <3>3, <4>1 DEF HookOrder
    <3>5. \A j \in 1..q : IsHook(todo[j]) => todo[j].esp = c.esp
      <4>1. ASSUME NEW j \in 1..q, j # 1, IsHook(todo[j]) PROVE todo[j].esp = c.esp
        <5>1. j - 1 \in 1..k /\ j - 1 \in 1..(Len(todo) - 1) /\ (j - 1) + 1 = j
          BY <4>1, <3>1, <1>1
        <5>2. ~GoesOnWith(c, todo[j])
          BY <5>1, <2>1, <1>1
        <5>3. QED BY <4>1, <5>2, <3>3 DEF GoesOnWith
      <4>2. QED BY <4>1, <1>1
    <3>6. \A i \in 1..(N - q) : \A j \in 1..(q + i - 1) :
            j \in 1..q \/ (j - q \in 1..(i - 1) /\ j - q \in 1..(N - q) /\ q + (j - q) = j)
      BY <1>1
    <3>7. HookOrder(next)
      <4>1. ASSUME NEW i \in 1..(N - q), NEW j \in 1..(N - q), i < j
            PROVE  /\ IsHook(next[j]) => next[i].cmd \notin {"policy", "cryptenroll"}
                   /\ IsHook(next[i]) /\ IsHook(next[j]) /\ next[j].cmd # "policy"
                        => next[i].esp <= next[j].esp
        <5>1. q + i < q + j /\ q + i \in 1..Len(todo) /\ q + j \in 1..Len(todo)
          BY <3>0, <3>2, <4>1
        <5>2. next[i] = todo[q + i] /\ next[j] = todo[q + j]
          BY <3>2
        <5>3. QED BY <5>1, <5>2 DEF HookOrder
      <4>2. 1..Len(next) = 1..(N - q)
        BY <3>2
      <4>3. QED BY <4>1, <4>2 DEF HookOrder
    <3>8. ASSUME Follows(todo, "policy", "cryptenroll")
          PROVE  Follows(next, "policy", "cryptenroll")
      <4>1. SUFFICES ASSUME NEW i \in 1..(N - q), todo[q + i].cmd = "cryptenroll"
                     PROVE  \E j \in 1..(i - 1) : next[j].cmd = "policy"
        BY <3>2 DEF Follows
      <4>2. PICK j \in 1..(q + i - 1) : todo[j].cmd = "policy"
        BY <3>0, <3>2, <3>8, <4>1 DEF Follows
      <4>3. j - q \in 1..(i - 1) /\ next[j - q] = todo[j]
        BY <3>2, <3>4, <3>6, <4>2
      <4>4. QED BY <4>2, <4>3
    <3>9. ASSUME Follows(todo, "cryptenroll", "touch")
          PROVE  Follows(next, "cryptenroll", "touch")
      <4>1. SUFFICES ASSUME NEW i \in 1..(N - q), todo[q + i].cmd = "touch"
                     PROVE  \E j \in 1..(i - 1) : next[j].cmd = "cryptenroll"
        BY <3>2 DEF Follows
      <4>2. PICK j \in 1..(q + i - 1) : todo[j].cmd = "cryptenroll"
        BY <3>0, <3>2, <3>9, <4>1 DEF Follows
      <4>3. j - q \in 1..(i - 1) /\ next[j - q] = todo[j]
        BY <3>2, <3>4, <3>6, <4>2
      <4>4. QED BY <4>2, <4>3
    <3>10. ASSUME StubsFirst(todo) PROVE StubsFirst(next)
      <4>1. SUFFICES ASSUME NEW i \in 1..(N - q), todo[q + i].cmd = "collect"
                     PROVE  \E j \in 1..(i - 1) : /\ next[j].cmd = "stubs"
                                                  /\ next[j].esp = todo[q + i].esp
        <5>1. \A i \in 1..Len(next) : i \in 1..(N - q) /\ next[i] = todo[q + i]
          BY <3>2
        <5>2. QED BY <5>1 DEF StubsFirst
      <4>2. PICK j \in 1..(q + i - 1) : todo[j].cmd = "stubs" /\ todo[j].esp = todo[q + i].esp
        BY <3>0, <3>2, <3>10, <4>1 DEF StubsFirst
      <4>3. j \notin 1..q
        <5>1. SUFFICES ASSUME j \in 1..q PROVE FALSE
          OBVIOUS
        <5>2. todo[q + i].esp = c.esp
          BY <5>1, <4>2, <3>5 DEF IsHook
        <5>3. q + i # q + 1
          BY <5>2, <3>3
        <5>4. q + 1 < q + i /\ q + i \in 1..Len(todo) /\ IsHook(todo[q + i])
          BY <3>0, <5>3, <3>2, <4>1 DEF IsHook
        <5>5. todo[q + 1].cmd # "policy" /\ todo[q + 1].esp <= todo[q + i].esp
          BY <5>4, <4>1, <3>3 DEF HookOrder
        <5>6. todo[1].esp <= todo[q + 1].esp
          <6>1. 1 \in 1..Len(todo) /\ 1 < q + 1
            BY <1>1
          <6>2. QED BY <6>1, <5>5, <3>3, <1>1 DEF HookOrder
        <5>7. c.esp \in Nat /\ todo[q + 1].esp \in Nat
          <6>1. todo[q + 1] \in Command
            BY <3>3, ElementOfSeq DEF Base, MachineOK
          <6>2. QED BY <6>1, <1>1 DEF Command
        <5>8. c.esp <= todo[q + 1].esp /\ todo[q + 1].esp <= c.esp
          BY <5>2, <5>5, <5>6, <1>1
        <5>9. QED BY <5>7, <5>8, <3>3
      <4>4. j - q \in 1..(i - 1) /\ next[j - q] = todo[j]
        BY <3>2, <3>6, <4>3
      <4>5. QED BY <4>2, <4>4
    <3>11. QED BY <3>7, <3>8, <3>9, <3>10
  <2>4. k = Len(rest) \/ k < Len(rest)
    <3>1. Len(rest) \in Nat
      BY <1>1
    <3>2. QED BY <3>1
  <2>5. QED BY <2>2, <2>3, <2>4
<1>4. QED BY <1>2, <1>3

\* What has been measured.  A stub that the firmware accepts was signed by a run
\* of lzbt that has measured PCR 4 as well, and PCR 7 is measured when a system
\* starts with Secure Boot on.
Measures ==
  /\ policy \subseteq measured
  /\ (/\ opt.measured /\ key # Unsigned
      /\ \E e \in 1..opt.esps : key \in esp[e].stubs) => 4 \in measured
  /\ machine \in {"loader", "up"} /\ opt.measured /\ SecureBootOn => 4 \in measured
  /\ machine = "up" /\ opt.measured /\ SecureBootOn => 7 \in measured

\* The hook's commands are in their order, and a collection that could leave
\* signed stubs comes after the stubs were measured.
Hooked ==
  /\ HookOrder(todo)
  /\ opt.measured => 4 \in measured \/ StubsFirst(todo)

\* auto-cryptenroll makes the policy, then binds the volume, then remembers it.
Binding ==
  job = "cryptenroll" =>
    /\ opt.measured /\ SecureBootOn
    /\ policy = {4, 7} \/ Follows(todo, "policy", "cryptenroll")
    /\ bound \/ Follows(todo, "cryptenroll", "touch")

PolicyInv == Base /\ Measures /\ Hooked /\ Binding /\ EnrolledPolicyIsFull

\* Nothing left to run is in order.
LEMMA NothingInOrder == HookOrder(<<>>) /\ StubsFirst(<<>>)
BY DEF HookOrder, StubsFirst

\* Nothing is bound to begin with.
LEMMA PolicyInit == Init => PolicyInv
<1> SUFFICES ASSUME Init PROVE PolicyInv
  OBVIOUS
<1>1. Hooked
  BY NothingInOrder DEF Hooked, Init
<1>2. Measures /\ Binding /\ EnrolledPolicyIsFull
  BY DEF Measures, Binding, EnrolledPolicyIsFull, Init, SecureBootOn
<1>3. QED BY <1>1, <1>2, BaseInit DEF PolicyInv

\* A machine that boots with Secure Boot on has a stub of a measuring lzbt.
LEMMA PolicyPowerOn == PolicyInv /\ PowerOn => PolicyInv'
<1> SUFFICES ASSUME PolicyInv, PowerOn PROVE PolicyInv'
  OBVIOUS
<1>1. Base' /\ Base
  BY PowerOnBase DEF PolicyInv
<1>2. machine' # "up" /\ job' = "none"
  BY <1>1 DEF PowerOn, Base, Running
<1>3. ASSUME machine' = "loader", opt.measured, SecureBootOn PROVE 4 \in measured
  <2>1. PICK e \in DOMAIN esp : Accepts(e)
    BY <1>3 DEF PowerOn
  <2>2. e \in 1..opt.esps /\ firmware \in esp[e].stubs
    BY <1>1, <1>3, <2>1 DEF Accepts, Base, DiskOK
  <2>3. firmware = key /\ key # Unsigned
    BY <1>1, <1>3 DEF Base, OneKey, SecureBootOn
  <2>4. QED BY <1>3, <2>2, <2>3 DEF PolicyInv, Measures
<1>4. Measures'
  BY <1>2, <1>3 DEF PolicyInv, PowerOn, Measures, SecureBootOn, pki, tpm
<1>5. Hooked' /\ EnrolledPolicyIsFull' /\ Binding'
  BY <1>2 DEF PolicyInv, PowerOn, Hooked, HookOrder, StubsFirst, EnrolledPolicyIsFull, Binding, tpm
<1>6. QED BY <1>1, <1>4, <1>5 DEF PolicyInv

\* A machine that is off has no script to finish.
LEMMA PolicyOff == PolicyInv /\ (Enroll \/ Reset \/ Reboot) => PolicyInv'
<1> SUFFICES ASSUME PolicyInv, Enroll \/ Reset \/ Reboot PROVE PolicyInv'
  OBVIOUS
<1>1. Base'
  BY EnrollBase, ResetBase DEF PolicyInv
<1>2. Off /\ UNCHANGED <<opt, pki, esp, tpm>>
  BY DEF Enroll, Reset, Reboot
<1>3. Hooked'
  BY <1>2, NothingInOrder DEF Hooked, Off
<1>4. Measures' /\ EnrolledPolicyIsFull' /\ Binding'
  BY <1>2 DEF PolicyInv, Measures, EnrolledPolicyIsFull, Binding, Off, pki, tpm
<1>5. QED BY <1>1, <1>3, <1>4 DEF PolicyInv

\* A stub that Secure Boot accepts is one whose lzbt measured PCR 4, and
\* sysinit measures PCR 7.
LEMMA PolicyStartSystem == PolicyInv /\ StartSystem => PolicyInv'
<1> SUFFICES ASSUME PolicyInv, StartSystem PROVE PolicyInv'
  OBVIOUS
<1>1. Base' /\ Base
  BY StartSystemBase DEF PolicyInv
<1>2. measured \subseteq measured' /\ measured' \subseteq {4, 7}
  BY <1>1 DEF StartSystem, Base, DiskOK
<1>3. policy \subseteq policy' /\ policy' \subseteq measured' /\ policy' \subseteq {4, 7}
  BY <1>1, <1>2 DEF PolicyInv, Measures, StartSystem, Base, DiskOK
<1>4. EnrolledPolicyIsFull'
  BY <1>3 DEF PolicyInv, EnrolledPolicyIsFull, StartSystem
<1>5. Measures'
  <2>1. opt.measured /\ SecureBootOn => 4 \in measured'
    BY <1>2 DEF PolicyInv, Measures, StartSystem
  <2>2. opt.measured /\ SecureBootOn => 7 \in measured'
    BY DEF StartSystem
  <2>3. QED BY <2>1, <2>2, <1>2, <1>3 DEF PolicyInv, Measures, StartSystem, SecureBootOn, pki
<1>6. job' = "none"
  BY <1>1 DEF StartSystem, Base, Running
<1>7. Hooked'
  BY <1>2 DEF PolicyInv, Hooked, HookOrder, StubsFirst, StartSystem
<1>8. QED BY <1>1, <1>4, <1>5, <1>6, <1>7 DEF PolicyInv, Binding

\* Every script is in order.
LEMMA ScriptInOrder ==
  ASSUME opt \in Settings, NEW j \in Services \cup {"rebuild"}, j = "cryptenroll" => opt.measured
  PROVE  HookOrder(Script(j)) /\ StubsFirst(Script(j))
<1>1. CASE j = "generate"
  <2>1. Script(j) = <<Do("create_dir"), Do("create_pem"), Do("create_key")>>
    BY <1>1 DEF Script, GenerateSbKeys
  <2>2. \A i \in 1..Len(Script(j)) : Script(j)[i].cmd \in {"create_dir", "create_pem", "create_key"}
    BY <2>1 DEF Do
  <2>3. QED BY <2>2 DEF HookOrder, StubsFirst, IsHook
<1>2. CASE j = "prepare"
  BY <1>2, PrepareCommands DEF Script
<1>3. CASE j = "cryptenroll"
  BY <1>3, CryptenrollCommands DEF Script
<1>4. CASE j = "rebuild"
  BY <1>4, HookCommands DEF Script
<1>5. QED BY <1>1, <1>2, <1>3, <1>4 DEF Services

\* A script starts in its order.
LEMMA PolicyStart ==
  ASSUME PolicyInv, NEW s \in Services, StartService(s)
  PROVE  PolicyInv'
<1>1. Base' /\ Base
  BY StartServiceBase DEF PolicyInv
<1>2. /\ EnrolledPolicyIsFull' /\ Measures' /\ opt' = opt /\ firmware' = firmware
      /\ measured' = measured /\ policy' = policy /\ bound' = bound
  BY DEF PolicyInv, StartService, EnrolledPolicyIsFull, Measures, SecureBootOn, pki, tpm
<1>3. CASE Condition(s) /\ job' = s /\ todo' = Script(s)
  <2>1. ASSUME s = "cryptenroll" PROVE Binding' /\ opt.measured
    <3>1. todo' = AutoCryptenroll /\ opt.measured /\ SecureBootOn
      BY <1>3, <2>1 DEF Script, Condition, NotEnrolled
    <3>2. Follows(todo', "policy", "cryptenroll") /\ Follows(todo', "cryptenroll", "touch")
      BY <1>1, <3>1, CryptenrollCommands DEF Base
    <3>3. Follows(todo, "policy", "cryptenroll")' /\ Follows(todo, "cryptenroll", "touch")'
      BY <3>2 DEF Follows
    <3>4. QED BY <1>2, <3>1, <3>3 DEF Binding, SecureBootOn
  <2>2. ASSUME s # "cryptenroll" PROVE Binding'
    BY <1>3, <2>2 DEF Binding
  <2>3. HookOrder(todo') /\ StubsFirst(todo')
    BY <1>1, <1>3, <2>1, ScriptInOrder DEF Base
  <2>4. Hooked'
    BY <2>3 DEF Hooked, HookOrder, StubsFirst
  <2>5. QED BY <1>1, <1>2, <2>1, <2>2, <2>4 DEF PolicyInv
<1>4. CASE UNCHANGED <<job, todo>>
  BY <1>1, <1>2, <1>4 DEF PolicyInv, Hooked, HookOrder, StubsFirst, Binding, Follows, SecureBootOn
<1>5. QED BY <1>3, <1>4 DEF StartService

\* So does the hook of nixos-rebuild.
LEMMA PolicyRebuild == PolicyInv /\ Rebuild => PolicyInv'
<1> SUFFICES ASSUME PolicyInv, Rebuild PROVE PolicyInv'
  OBVIOUS
<1>1. Base' /\ Base
  BY RebuildBase DEF PolicyInv
<1>2. EnrolledPolicyIsFull' /\ Measures' /\ Binding'
  BY DEF PolicyInv, Rebuild, EnrolledPolicyIsFull, Measures, Binding, SecureBootOn, pki, tpm
<1>3. HookOrder(todo') /\ StubsFirst(todo')
  BY <1>1, ScriptInOrder DEF Base, Rebuild
<1>4. Hooked'
  BY <1>3 DEF Hooked, HookOrder, StubsFirst
<1>5. QED BY <1>1, <1>2, <1>4 DEF PolicyInv

\* A command that succeeds: the policy is made before a volume is bound to it.
LEMMA PolicyRun == PolicyInv /\ RunCommand => PolicyInv'
<1> SUFFICES ASSUME PolicyInv, RunCommand PROVE PolicyInv'
  OBVIOUS
<1> DEFINE c == Head(todo)
<1>1. Base' /\ Base
  BY RunCommandBase DEF PolicyInv
<1>2. machine = "up" /\ todo # <<>> /\ todo' = Tail(todo) /\ todo \in Seq(Command)
  BY <1>1 DEF RunCommand, Base, MachineOK
<1>3. /\ Len(todo) \in Nat \ {0} /\ c = todo[1] /\ c \in Command
      /\ BelongsTo(c, job) /\ job # "none"
  BY <1>1, <1>2, NextCommand
<1>4. /\ UNCHANGED <<opt, used, firmware, machine, pending, job, prepared>>
      /\ CreateKeys(c) \/ EnrollKeys(c) \/ RunLzbt(c) \/ LockTpm(c)
  BY DEF RunCommand
<1>5. /\ measured \subseteq {4, 7} /\ policy \subseteq {4, 7} /\ policy \subseteq measured
      /\ measured' \subseteq {4, 7}
  BY <1>1 DEF PolicyInv, Measures, Base, DiskOK
<1>6. measured \subseteq measured'
  BY <1>4 DEF CreateKeys, EnrollKeys, RunLzbt, LockTpm, tpm
<1>7. /\ \A first, then : Follows(todo, first, then) => c.cmd # then
      /\ StubsFirst(todo) => c.cmd # "collect"
  <2>1. 1 \in 1..Len(todo) /\ 1..(1 - 1) = {}
    BY <1>3
  <2>2. QED BY <2>1, <1>3 DEF Follows, StubsFirst
<1>8. /\ job = "cryptenroll" => measured = {4, 7}
      /\ c.cmd = "cryptenroll" => policy = {4, 7}
      /\ c.cmd = "touch" => bound
  <2>1. c.cmd \in {"cryptenroll", "touch"} => job = "cryptenroll"
    BY <1>3 DEF BelongsTo, HookCommand
  <2>2. job = "cryptenroll" => 4 \in measured /\ 7 \in measured
    BY <1>2 DEF PolicyInv, Measures, Binding
  <2>3. job = "cryptenroll" /\ c.cmd = "cryptenroll" => policy = {4, 7}
    BY <1>7 DEF PolicyInv, Binding
  <2>4. job = "cryptenroll" /\ c.cmd = "touch" => bound
    BY <1>7 DEF PolicyInv, Binding
  <2>5. QED BY <2>1, <2>2, <2>3, <2>4, <1>5
<1>9. /\ policy' = IF c.cmd = "policy" THEN measured ELSE policy
      /\ bound' = (bound \/ c.cmd = "cryptenroll")
      /\ enrolled' = (enrolled \/ c.cmd = "touch")
      /\ c.cmd = "stubs" /\ opt.measured => 4 \in measured'
  <2>1. bound \in BOOLEAN /\ enrolled \in BOOLEAN
    BY <1>1 DEF Base, DiskOK
  <2>2. CASE CreateKeys(c) \/ EnrollKeys(c)
    BY <2>1, <2>2 DEF CreateKeys, EnrollKeys, AuthFiles, tpm
  <2>3. CASE RunLzbt(c)
    BY <2>1, <2>3 DEF RunLzbt
  <2>4. CASE LockTpm(c)
    BY <2>1, <2>4 DEF LockTpm
  <2>5. QED BY <1>4, <2>2, <2>3, <2>4
<1>10. EnrolledPolicyIsFull'
  <2>1. bound => measured = {4, 7}
    BY <1>5 DEF PolicyInv, EnrolledPolicyIsFull
  <2>2. QED BY <2>1, <1>8, <1>9 DEF PolicyInv, EnrolledPolicyIsFull
<1>11. ASSUME opt.measured, key' # Unsigned, NEW e \in 1..opt.esps, key' \in esp'[e].stubs
       PROVE  4 \in measured'
  <2>0. esp \in [1..opt.esps -> [stubs : SUBSET (0..MaxKeys), loader : 0..MaxKeys]]
    BY <1>1 DEF Base, DiskOK
  <2>1. CASE CreateKeys(c)
    <3>1. c.cmd # "create_key"
      BY <2>0, <2>1, <1>11 DEF CreateKeys
    <3>2. key' = key /\ esp' = esp
      BY <2>1, <3>1, <1>11 DEF CreateKeys
    <3>3. QED BY <3>2, <1>6, <1>11 DEF PolicyInv, Measures
  <2>2. CASE EnrollKeys(c) \/ LockTpm(c)
    <3>1. key' = key /\ esp' = esp
      BY <2>2 DEF EnrollKeys, LockTpm, pki
    <3>2. QED BY <3>1, <1>6, <1>11 DEF PolicyInv, Measures
  <2>3. CASE RunLzbt(c)
    <3>1. CASE c.cmd = "stubs"
      BY <3>1, <1>9, <1>11
    <3>2. CASE c.cmd = "collect"
      BY <3>2, <1>6, <1>7, <1>11 DEF PolicyInv, Hooked
    <3>3. CASE c.cmd = "loader"
      <4>1. key' = key /\ esp' = [esp EXCEPT ![c.esp].loader = SignedLoader(c.esp)]
        BY <2>3, <3>3 DEF RunLzbt, pki
      <4>2. esp'[e].stubs = esp[e].stubs
        BY <2>0, <4>1
      <4>3. QED BY <4>1, <4>2, <1>6, <1>11 DEF PolicyInv, Measures
    <3>4. QED BY <2>3, <3>1, <3>2, <3>3 DEF RunLzbt
  <2>4. QED BY <1>4, <2>1, <2>2, <2>3
<1>12. Measures'
  <2>1. policy' \subseteq measured'
    BY <1>5, <1>6, <1>9
  <2>2. QED BY <2>1, <1>4, <1>6, <1>11 DEF PolicyInv, Measures, SecureBootOn
<1>13. Hooked'
  <2>1. HookOrder(todo')
    BY <1>2, OrderInRest DEF PolicyInv, Hooked
  <2>2. ASSUME opt.measured PROVE 4 \in measured' \/ StubsFirst(todo')
    BY <1>2, <1>6, <1>9, <2>2, OrderInRest DEF PolicyInv, Hooked
  <2>3. QED BY <1>4, <2>1, <2>2 DEF Hooked, HookOrder, StubsFirst
<1>14. Binding'
  <2>1. SUFFICES ASSUME job = "cryptenroll" PROVE Binding'
    BY <1>4 DEF Binding
  <2>2. opt'.measured /\ SecureBootOn'
    BY <2>1, <1>4 DEF PolicyInv, Binding, SecureBootOn
  <2>3. \A first, then : Follows(todo, first, then) /\ c.cmd # first => Follows(todo, first, then)'
    <3>1. SUFFICES ASSUME NEW first, NEW then, Follows(todo, first, then), c.cmd # first
                   PROVE  Follows(todo', first, then)
      BY DEF Follows
    <3>2. QED BY <3>1, <1>2, FollowsInRest
  <2>4. policy' = {4, 7} \/ Follows(todo, "policy", "cryptenroll")'
    BY <2>1, <2>3, <1>8, <1>9 DEF PolicyInv, Binding
  <2>5. bound' \/ Follows(todo, "cryptenroll", "touch")'
    BY <2>1, <2>3, <1>9 DEF PolicyInv, Binding
  <2>6. QED BY <2>2, <2>4, <2>5 DEF Binding
<1>15. QED BY <1>1, <1>10, <1>12, <1>13, <1>14 DEF PolicyInv

\* The failure of a command, seen by the service or not, skips no policy.
LEMMA PolicyFails == PolicyInv /\ CommandFails => PolicyInv'
<1> SUFFICES ASSUME PolicyInv, CommandFails PROVE PolicyInv'
  OBVIOUS
<1>1. Base' /\ Base
  BY CommandFailsBase DEF PolicyInv
<1>2. /\ machine = "up" /\ todo # <<>>
      /\ UNCHANGED <<opt, pki, auth, esp, firmware, machine, pending, tpm, prepared>>
      /\ job' = IF todo' = <<>> THEN "none" ELSE job
      /\ todo' = AfterFailure(Head(todo), Tail(todo))
  BY <1>1, FailureParts
<1>3. /\ HookOrder(todo')
      /\ StubsFirst(todo) => StubsFirst(todo')
      /\ Follows(todo, "policy", "cryptenroll") => Follows(todo', "policy", "cryptenroll")
      /\ Follows(todo, "cryptenroll", "touch") => Follows(todo', "cryptenroll", "touch")
  BY <1>1, <1>2, OrderAfterFailure DEF PolicyInv, Hooked
<1>4. EnrolledPolicyIsFull' /\ Measures'
  BY <1>2 DEF PolicyInv, EnrolledPolicyIsFull, Measures, SecureBootOn, pki, tpm
<1>5. Hooked'
  <2>1. HookOrder(todo)' /\ (StubsFirst(todo) => StubsFirst(todo)')
    BY <1>3 DEF HookOrder, StubsFirst
  <2>2. QED BY <1>2, <2>1 DEF PolicyInv, Hooked, tpm
<1>6. Binding'
  <2>1. /\ Follows(todo, "policy", "cryptenroll") => Follows(todo, "policy", "cryptenroll")'
        /\ Follows(todo, "cryptenroll", "touch") => Follows(todo, "cryptenroll", "touch")'
    BY <1>3 DEF Follows
  <2>2. QED BY <1>2, <2>1 DEF PolicyInv, Binding, SecureBootOn, tpm
<1>7. QED BY <1>1, <1>4, <1>5, <1>6 DEF PolicyInv

\* One step of the machine.
LEMMA PolicyStep == PolicyInv /\ [Next]_vars => PolicyInv'
<1> SUFFICES ASSUME PolicyInv, [Next]_vars PROVE PolicyInv'
  OBVIOUS
<1>1. Base' /\ Base
  BY BaseStep DEF PolicyInv
<1>2. CASE UNCHANGED vars
  <2>1. Measures' /\ Binding' /\ EnrolledPolicyIsFull'
    BY <1>2 DEF PolicyInv, Measures, Binding, Follows, EnrolledPolicyIsFull, SecureBootOn,
                vars, pki, running, tpm
  <2>2. Hooked'
    BY <1>2 DEF PolicyInv, Hooked, HookOrder, StubsFirst, vars, running, tpm
  <2>3. QED BY <1>1, <2>1, <2>2 DEF PolicyInv
<1>3. CASE FinishJob
  <2>1. job' = "none" /\ todo' = <<>> /\ machine = "up" /\ machine' \in {"up", "off"}
    BY <1>3 DEF FinishJob, Off
  <2>2. Hooked'
    BY <2>1, NothingInOrder DEF Hooked
  <2>3. Measures' /\ Binding' /\ EnrolledPolicyIsFull'
    BY <1>3, <2>1 DEF PolicyInv, FinishJob, Measures, Binding, EnrolledPolicyIsFull,
                      SecureBootOn, pki, tpm
  <2>4. QED BY <1>1, <2>2, <2>3 DEF PolicyInv
<1>4. QED BY <1>2, <1>3, PolicyPowerOn, PolicyOff, PolicyStartSystem, PolicyStart,
             PolicyRebuild, PolicyRun, PolicyFails DEF Next, Progress

\* In every configuration, whatever fails and whether or not the hook tells: a
\* volume is bound only to a policy that covers the boot chain and the Secure
\* Boot state, it is remembered only when it is bound, and no later policy
\* covers less.
THEOREM EnrolledPolicyIsFullHolds == Spec => []EnrolledPolicyIsFull
<1>1. PolicyInv => EnrolledPolicyIsFull
  BY DEF PolicyInv
<1>2. QED BY <1>1, PolicyInit, PolicyStep, PTL DEF Spec

-----------------------------------------------------------------------------
(* Where the hook's status tells of every failure.                         *)

\* Either no command fails for a reason of its own, or lzbt for one mount point
\* is all of the hook, and then its status is the hook's.  Without this
\* SuccessMeansSigned is false: see Provisioning_hook_status.cfg.
FailuresAreSeen ==
  \A s \in Settings : s.failures = 0 \/ (s.esps = 1 /\ s.measured = FALSE)

\* A command that has failed for a reason of its own is the hook's last lzbt.
LEMMA OwnFailure ==
  ASSUME FailuresAreSeen, Base, Event("failures")
  PROVE  opt.esps = 1 /\ opt.measured = FALSE
<1>1. used["failures"] \in Nat /\ used["failures"] < opt["failures"]
  BY DEF Base, CountsOK, Bounded, Event
<1>2. opt.failures # 0
  BY <1>1
<1>3. QED BY <1>2 DEF FailuresAreSeen, Base

ToDo(c) == \E i \in 1..Len(todo) : todo[i] = c

\* `install` has failed, and so will the service.
WillFail == todo # <<>> /\ todo[Len(todo)].cmd = "exit_1"

\* What prepare-sb-auto-enroll has not signed, it is yet to sign.
Signing ==
  job = "prepare" =>
    \/ WillFail
    \/ \A e \in 1..opt.esps :
         /\ esp[e].stubs = {key} \/ ToDo([cmd |-> "collect", esp |-> e])
         /\ esp[e].loader = key \/ ToDo([cmd |-> "loader", esp |-> e])

SignedInv == Base /\ Signing /\ SuccessMeansSigned

\* lzbt undoes no signature of its key, and in the end all are of it.
LEMMA LzbtSigns ==
  ASSUME Base, NEW c \in Command, c.esp \in 1..opt.esps, RunLzbt(c), key # Unsigned
  PROVE  /\ \A e \in 1..opt.esps : /\ esp[e].stubs = {key} => esp'[e].stubs = {key}
                                   /\ esp[e].loader = key => esp'[e].loader = key
         /\ c.cmd = "collect" => esp'[c.esp].stubs = {key}
         /\ c.cmd = "loader" => esp'[c.esp].loader = key
<1>1. esp \in [1..opt.esps -> [stubs : SUBSET (0..MaxKeys), loader : 0..MaxKeys]]
  BY DEF Base, DiskOK
<1>2. SignedLoader(c.esp) = key
  BY DEF SignedLoader, Signer
<1>3. CASE c.cmd = "stubs" /\ esp' = [esp EXCEPT ![c.esp].stubs = @ \cup {Signer}]
  BY <1>1, <1>3 DEF Signer
<1>4. CASE c.cmd = "loader" /\ esp' = [esp EXCEPT ![c.esp].loader = SignedLoader(c.esp)]
  BY <1>1, <1>2, <1>4
<1>5. CASE c.cmd = "collect" /\ esp' = [esp EXCEPT ![c.esp].stubs = {Signer}]
  BY <1>1, <1>5 DEF Signer
<1>6. QED BY <1>3, <1>4, <1>5 DEF RunLzbt

\* Nothing has succeeded to begin with.
LEMMA SignedInit == Init => SignedInv
BY BaseInit DEF SignedInv, Signing, SuccessMeansSigned, Init

\* A machine whose files are all signed is not refused by the firmware.
LEMMA SignedPowerOn == SignedInv /\ PowerOn => SignedInv'
<1> SUFFICES ASSUME SignedInv, PowerOn PROVE SignedInv'
  OBVIOUS
<1>1. Base' /\ Base
  BY PowerOnBase DEF SignedInv
<1>2. Signing'
  BY DEF SignedInv, PowerOn, Signing, WillFail, ToDo, pki
<1>3. ASSUME prepared PROVE machine' # "dead"
  <2>1. DOMAIN esp = 1..opt.esps /\ 1 \in 1..opt.esps
    BY <1>1, SettingsAssumption DEF Base, DiskOK
  <2>2. esp[1].loader = key /\ esp[1].stubs = {key} /\ key # Unsigned
    BY <1>3, <2>1 DEF SignedInv, SuccessMeansSigned, Signed
  <2>3. firmware \in {Unsigned, key}
    BY <1>1 DEF Base, OneKey
  <2>4. Accepts(1)
    BY <2>2, <2>3 DEF Accepts, SecureBootOn
  <2>5. \E e \in DOMAIN esp : Accepts(e)
    BY <2>1, <2>4
  <2>6. QED BY <2>5 DEF PowerOn
<1>4. SuccessMeansSigned'
  BY <1>3 DEF SignedInv, PowerOn, SuccessMeansSigned, Signed, pki
<1>5. QED BY <1>1, <1>2, <1>4 DEF SignedInv

\* A service that starts has all ESPs on its list.
LEMMA SignedStart ==
  ASSUME SignedInv, NEW s \in Services, StartService(s)
  PROVE  SignedInv'
<1>1. Base' /\ Base
  BY StartServiceBase DEF SignedInv
<1>2. SuccessMeansSigned'
  BY DEF SignedInv, StartService, SuccessMeansSigned, Signed, pki
<1>3. CASE job' = s /\ todo' = Script(s)
  <2>1. ASSUME s = "prepare"
        PROVE  \A e \in 1..opt.esps : ToDo([cmd |-> "collect", esp |-> e])'
                                      /\ ToDo([cmd |-> "loader", esp |-> e])'
    <3>1. todo' = PrepareSbAutoEnroll
      BY <1>3, <2>1 DEF Script
    <3>2. QED BY <3>1, <1>1, PrepareCommands DEF ToDo, Base
  <2>2. opt' = opt
    BY DEF StartService
  <2>3. QED BY <1>1, <1>2, <1>3, <2>1, <2>2 DEF SignedInv, Signing
<1>4. CASE UNCHANGED <<job, todo>>
  BY <1>1, <1>2, <1>4 DEF SignedInv, StartService, Signing, WillFail, ToDo, pki
<1>5. QED BY <1>3, <1>4 DEF StartService

\* A command that succeeds signs what it takes off the list.
LEMMA SignedRun == SignedInv /\ RunCommand => SignedInv'
<1> SUFFICES ASSUME SignedInv, RunCommand PROVE SignedInv'
  OBVIOUS
<1> DEFINE c == Head(todo)
<1>1. Base' /\ Base
  BY RunCommandBase DEF SignedInv
<1>2. machine = "up" /\ todo # <<>>
  BY DEF RunCommand
<1>3. /\ Len(todo) \in Nat \ {0} /\ c = todo[1] /\ c \in Command
      /\ BelongsTo(c, job) /\ job # "none"
      /\ todo' \in Seq(Command) /\ Len(todo') = Len(todo) - 1
      /\ \A i \in 1..(Len(todo) - 1) : todo'[i] = todo[i + 1] /\ i + 1 \in 1..Len(todo)
  BY <1>1, <1>2, NextCommand DEF RunCommand
<1>4. /\ UNCHANGED <<opt, used, firmware, machine, pending, job, prepared>>
      /\ CreateKeys(c) \/ EnrollKeys(c) \/ RunLzbt(c) \/ LockTpm(c)
  BY DEF RunCommand
<1>5. DOMAIN esp = 1..opt.esps /\ DOMAIN esp' = 1..opt.esps
  BY <1>1, <1>4 DEF Base, DiskOK
<1>6. CreateKeys(c) => job = "generate" /\ key = Unsigned
  <2>1. SUFFICES ASSUME CreateKeys(c) PROVE job = "generate" /\ key = Unsigned
    OBVIOUS
  <2>2. job = "generate"
    BY <1>3, <2>1 DEF CreateKeys, BelongsTo, HookCommand
  <2>3. QED BY <1>1, <1>2, <2>2 DEF Base, Generating, DiskOK
<1>7. ASSUME ~CreateKeys(c), key # Unsigned
      PROVE  /\ key' = key
             /\ \A e \in 1..opt.esps : /\ esp[e].stubs = {key} => esp'[e].stubs = {key}
                                       /\ esp[e].loader = key => esp'[e].loader = key
             /\ c.cmd = "collect" /\ c.esp \in 1..opt.esps => esp'[c.esp].stubs = {key}
             /\ c.cmd = "loader" /\ c.esp \in 1..opt.esps => esp'[c.esp].loader = key
  <2>1. key' = key
    BY <1>4, <1>7 DEF EnrollKeys, RunLzbt, LockTpm, pki
  <2>2. CASE RunLzbt(c)
    <3>1. c.esp \in 1..opt.esps
      BY <2>2, <1>3 DEF RunLzbt, BelongsTo, HookCommand
    <3>2. QED BY <2>1, <2>2, <3>1, <1>1, <1>3, <1>7, LzbtSigns
  <2>3. CASE EnrollKeys(c) \/ LockTpm(c)
    BY <2>1, <2>3 DEF EnrollKeys, LockTpm, AuthFiles
  <2>4. QED BY <1>4, <1>7, <2>2, <2>3
<1>8. SuccessMeansSigned'
  <2>1. SUFFICES ASSUME prepared
                 PROVE  /\ key' # Unsigned /\ machine' # "dead"
                        /\ \A e \in 1..opt.esps : esp'[e].loader = key' /\ esp'[e].stubs = {key'}
    BY <1>4, <1>5 DEF SuccessMeansSigned, Signed
  <2>2. /\ key # Unsigned /\ machine # "dead"
        /\ \A e \in 1..opt.esps : esp[e].loader = key /\ esp[e].stubs = {key}
    BY <2>1, <1>5 DEF SignedInv, SuccessMeansSigned, Signed
  <2>3. QED BY <2>2, <1>4, <1>6, <1>7
<1>9. Signing'
  <2>1. SUFFICES ASSUME job = "prepare"
                 PROVE  \/ WillFail'
                        \/ \A e \in 1..opt.esps :
                             /\ esp'[e].stubs = {key'} \/ ToDo([cmd |-> "collect", esp |-> e])'
                             /\ esp'[e].loader = key' \/ ToDo([cmd |-> "loader", esp |-> e])'
    BY <1>4 DEF Signing
  <2>2. ~CreateKeys(c)
    BY <1>6, <2>1
  <2>3. key # Unsigned
    <3>1. c.cmd = "enroll_keys" => keystate = "full"
      BY <1>4, <2>2 DEF EnrollKeys, RunLzbt, LockTpm, AuthFiles
    <3>2. QED BY <3>1, <2>1, <1>1, <1>3 DEF Base, Exporting, DiskOK
  <2>4. CASE WillFail
    <3>1. c.cmd # "exit_1"
      BY <1>4 DEF CreateKeys, EnrollKeys, RunLzbt, LockTpm, AuthFiles
    <3>2. PICK n \in Nat : Len(todo) = n + 1
      <4>1. Len(todo) - 1 \in Nat /\ Len(todo) = (Len(todo) - 1) + 1
        BY <1>3
      <4>2. QED BY <4>1
    <3>3. n # 0 /\ todo[n + 1].cmd = "exit_1"
      BY <2>4, <3>1, <3>2, <1>3 DEF WillFail
    <3>4. Len(todo') = n /\ todo'[n] = todo[n + 1]
      BY <1>3, <3>2, <3>3
    <3>5. todo' # <<>>
      BY <3>3, <3>4
    <3>6. QED BY <3>3, <3>4, <3>5 DEF WillFail
  <2>5. CASE ~WillFail
    <3>1. SUFFICES ASSUME NEW e \in 1..opt.esps
                   PROVE  /\ esp'[e].stubs = {key'} \/ ToDo([cmd |-> "collect", esp |-> e])'
                          /\ esp'[e].loader = key' \/ ToDo([cmd |-> "loader", esp |-> e])'
      OBVIOUS
    <3>2. /\ esp[e].stubs = {key} \/ ToDo([cmd |-> "collect", esp |-> e])
          /\ esp[e].loader = key \/ ToDo([cmd |-> "loader", esp |-> e])
      BY <2>1, <2>5 DEF SignedInv, Signing
    <3>3. ASSUME NEW d, ToDo(d), d # c PROVE ToDo(d)'
      <4>1. PICK i \in 1..Len(todo) : todo[i] = d
        BY <3>3 DEF ToDo
      <4>2. i # 1
        BY <4>1, <3>3, <1>3
      <4>3. i - 1 \in 1..(Len(todo) - 1) /\ (i - 1) + 1 = i
        BY <4>2, <1>3
      <4>4. todo'[i - 1] = d
        BY <4>1, <4>3, <1>3
      <4>5. i - 1 \in 1..Len(todo')
        BY <4>3, <1>3
      <4>6. QED BY <4>4, <4>5 DEF ToDo
    <3>4. CASE c = [cmd |-> "collect", esp |-> e]
      <4>1. esp'[e].stubs = {key'}
        BY <3>4, <1>7, <2>2, <2>3
      <4>2. [cmd |-> "loader", esp |-> e] # c
        BY <3>4
      <4>3. QED BY <4>1, <4>2, <3>2, <3>3, <1>7, <2>2, <2>3
    <3>5. CASE c = [cmd |-> "loader", esp |-> e]
      <4>1. esp'[e].loader = key'
        BY <3>5, <1>7, <2>2, <2>3
      <4>2. [cmd |-> "collect", esp |-> e] # c
        BY <3>5
      <4>3. QED BY <4>1, <4>2, <3>2, <3>3, <1>7, <2>2, <2>3
    <3>6. CASE c # [cmd |-> "collect", esp |-> e] /\ c # [cmd |-> "loader", esp |-> e]
      BY <3>2, <3>3, <3>6, <1>7, <2>2, <2>3
    <3>7. QED BY <3>4, <3>5, <3>6
  <2>6. QED BY <2>4, <2>5
<1>10. QED BY <1>1, <1>8, <1>9 DEF SignedInv

\* A command that fails takes the service's success with it.
LEMMA SignedFails ==
  ASSUME FailuresAreSeen, SignedInv, CommandFails
  PROVE  SignedInv'
<1> DEFINE c == Head(todo)
           rest == Tail(todo)
<1>1. Base' /\ Base
  BY CommandFailsBase DEF SignedInv
<1>2. /\ machine = "up" /\ todo # <<>>
      /\ UNCHANGED <<opt, pki, auth, esp, firmware, machine, pending, tpm, prepared>>
      /\ todo' = AfterFailure(c, rest)
      /\ job' = IF todo' = <<>> THEN "none" ELSE job
      /\ \/ /\ used' = used
            /\ \/ c.cmd = "exit_1"
               \/ c.cmd = "enroll_keys" /\ keystate # "full"
               \/ c.cmd = "stubs" /\ keystate = "half"
         \/ Event("failures")
  BY <1>1, FailureParts
<1>3. /\ Len(todo) \in Nat \ {0} /\ c = todo[1] /\ c \in Command
      /\ BelongsTo(c, job) /\ job # "none"
      /\ rest \in Seq(Command) /\ Len(rest) = Len(todo) - 1
      /\ \A i \in 1..(Len(todo) - 1) : rest[i] = todo[i + 1] /\ i + 1 \in 1..Len(todo)
  BY <1>1, <1>2, NextCommand
<1>4. SuccessMeansSigned'
  BY <1>2 DEF SignedInv, SuccessMeansSigned, Signed, pki
<1>5. ASSUME job = "prepare", todo' # <<>> PROVE WillFail'
  <2>1. CASE c.cmd \in AuthFiles
    BY <2>1, <1>2, <1>3, AfterFailedFile DEF WillFail
  <2>2. CASE c.cmd \notin AuthFiles
    <3>1. PICK i \in 1..Len(rest) : GoesOnWith(c, rest[i])
      BY <2>2, <1>2, <1>3, <1>5, AfterFailureKeeps
    <3>2. IsHook(c) /\ IsHook(rest[i]) /\ rest[i].esp # c.esp
      BY <3>1 DEF GoesOnWith
    <3>3. keystate = "full"
      BY <3>2, <1>1, <1>3, <1>5 DEF Base, Exporting, IsHook
    <3>4. Event("failures")
      BY <1>2, <3>2, <3>3 DEF IsHook
    <3>5. opt.esps = 1 /\ opt.measured = FALSE
      BY <3>4, <1>1, OwnFailure
    <3>6. BelongsTo(rest[i], job)
      BY <1>1, <1>3 DEF Base, Running
    <3>7. c.esp \in 1..1 /\ rest[i].esp \in 1..1
      BY <3>2, <3>5, <3>6, <1>3, <1>5 DEF BelongsTo, HookCommand, IsHook
    <3>8. QED BY <3>2, <3>7
  <2>3. QED BY <2>1, <2>2
<1>6. Signing'
  BY <1>2, <1>5 DEF Signing
<1>7. QED BY <1>1, <1>4, <1>6 DEF SignedInv

\* A service that succeeds has nothing left on its list.
LEMMA SignedFinish == SignedInv /\ FinishJob => SignedInv'
<1> SUFFICES ASSUME SignedInv, FinishJob PROVE SignedInv'
  OBVIOUS
<1>1. Base' /\ Base
  BY FinishJobBase DEF SignedInv
<1>2. job' = "none"
  BY DEF FinishJob, Off
<1>3. Signing'
  BY <1>2 DEF Signing
<1>4. machine' # "dead"
  BY DEF FinishJob, Off
<1>5. ASSUME job = "prepare" PROVE key # Unsigned /\ \A e \in DOMAIN esp : Signed(e)
  <2>1. todo = <<>> /\ Len(todo) = 0
    BY DEF FinishJob
  <2>2. key # Unsigned
    BY <1>1, <1>5, <2>1 DEF Base, Exporting, DiskOK
  <2>3. \A d : ~ToDo(d)
    BY <2>1 DEF ToDo
  <2>4. \A e \in 1..opt.esps : esp[e].stubs = {key} /\ esp[e].loader = key
    BY <1>5, <2>1, <2>3 DEF SignedInv, Signing, WillFail
  <2>5. QED BY <2>2, <2>4, <1>1 DEF Signed, Base, DiskOK
<1>6. SuccessMeansSigned'
  BY <1>4, <1>5 DEF SignedInv, FinishJob, SuccessMeansSigned, Signed, pki
<1>7. QED BY <1>1, <1>3, <1>6 DEF SignedInv

\* One step of the machine.
LEMMA SignedStep ==
  ASSUME FailuresAreSeen
  PROVE  SignedInv /\ [Next]_vars => SignedInv'
<1> SUFFICES ASSUME SignedInv, [Next]_vars PROVE SignedInv'
  OBVIOUS
<1>1. Base'
  BY BaseStep DEF SignedInv
<1>2. CASE UNCHANGED vars
  BY <1>1, <1>2 DEF SignedInv, Signing, WillFail, ToDo, SuccessMeansSigned, Signed, vars, pki,
                    running, tpm
<1>3. CASE Enroll \/ Reset \/ Reboot
  BY <1>1, <1>3 DEF SignedInv, Enroll, Reset, Reboot, Off, Signing, SuccessMeansSigned, Signed, pki
<1>4. CASE StartSystem
  BY <1>1, <1>4 DEF SignedInv, StartSystem, Signing, WillFail, ToDo, SuccessMeansSigned, Signed, pki
<1>5. CASE Rebuild
  BY <1>1, <1>5 DEF SignedInv, Rebuild, Signing, SuccessMeansSigned, Signed, pki
<1>6. QED BY <1>2, <1>3, <1>4, <1>5, SignedPowerOn, SignedStart, SignedRun, SignedFails,
             SignedFinish DEF Next, Progress

\* If the hook's status tells of every failure, prepare-sb-auto-enroll succeeds
\* only when everything on every mount point is signed with the enrolled key,
\* and from then on the machine boots, whatever is reset, rebuilt or fails.
THEOREM SuccessMeansSignedHolds ==
  ASSUME FailuresAreSeen
  PROVE  Spec => []SuccessMeansSigned
<1>1. SignedInv => SuccessMeansSigned
  BY DEF SignedInv
<1>2. QED BY <1>1, SignedInit, SignedStep, PTL DEF Spec
=============================================================================
