-------------------------- MODULE CommandLineProofs --------------------------
(***************************************************************************)
(* The command line runs the command of the rule, sends what was answered, *)
(* tells all commands and keeps the configuration, for every program,      *)
(* server, user and set of files, over failed starts and restarts.         *)
(*                                                                         *)
(* First the order of the paths, then one invariant for the commands, one  *)
(* for the services, one for the prompts and one for the files.            *)
(***************************************************************************)
EXTENDS CommandLine, SequenceTheorems, WellFoundedInduction, TLAPS

-----------------------------------------------------------------------------
\* Text and its order.

LEMMA Least ==
  ASSUME NEW S, S \subseteq Nat, S # {}
  PROVE  Min(S) \in S /\ \A y \in S : Min(S) <= y
<1>1. PICK x \in S : \A y \in S : ~ (<<y, x>> \in OpToRel(<, Nat))
  BY WFMin, NatLessThanWellFounded, Zenon
<1>2. \A y \in S : ~ (y < x)
  BY <1>1 DEF OpToRel
<1>3. \A y \in S : x <= y
  BY <1>2
<1> QED BY <1>3 DEF Min

LEMMA Greatest ==
  ASSUME NEW n \in Nat, NEW I, I \subseteq 1..n, I # {}
  PROVE  Max(I) \in I /\ \A i \in I : Max(I) >= i
<1> DEFINE J == {n - i : i \in I}
<1>1. J \subseteq Nat /\ J # {}
  <2>1. \A i \in I : i \in 1..n /\ n - i \in Nat
    OBVIOUS
  <2> QED
    BY <2>1
<1>2. Min(J) \in J /\ \A j \in J : Min(J) <= j
  <2> HIDE DEF J
  <2> QED
    BY <1>1, Least
<1>3. PICK k \in I : Min(J) = n - k
  BY <1>2
<1>4. ASSUME NEW i \in I PROVE k >= i
  <2>1. n - k <= n - i
    BY <1>2, <1>3
  <2>2. i \in 1..n /\ k \in 1..n
    OBVIOUS
  <2> QED
    BY <2>1, <2>2
<1>5. \E j \in I : \A i \in I : j >= i
  BY <1>4
<1> QED
  BY <1>5 DEF Max

LEMMA PrefixIs ==
  ASSUME NEW a \in Seq(Nat), NEW b \in Seq(Nat)
  PROVE  IsPrefix(a, b) <=> Len(a) <= Len(b) /\ \A i \in 1..Len(a) : a[i] = b[i]
<1>1. CASE Len(a) <= Len(b)
  <2>1. /\ SubSeq(a, 1, Len(a)) = a
        /\ SubSeq(b, 1, Len(a)) \in Seq(Nat) /\ Len(SubSeq(b, 1, Len(a))) = Len(a)
        /\ \A i \in 1..Len(a) : SubSeq(b, 1, Len(a))[i] = b[i]
    BY <1>1
  <2>2. a = SubSeq(b, 1, Len(a)) <=> \A i \in 1..Len(a) : a[i] = b[i]
    BY <2>1, SeqEqual, Zenon
  <2> QED
    BY <1>1, <2>1, <2>2 DEF IsPrefix
<1>2. CASE ~ (Len(a) <= Len(b))
  BY <1>2 DEF IsPrefix
<1> QED
  BY <1>1, <1>2

LEMMA StrictPrefixIs ==
  ASSUME NEW a \in Seq(Nat), NEW b \in Seq(Nat)
  PROVE  IsStrictPrefix(a, b) <=> Len(a) < Len(b) /\ \A i \in 1..Len(a) : a[i] = b[i]
<1>1. Len(a) = Len(b) /\ (\A i \in 1..Len(a) : a[i] = b[i]) => a = b
  BY SeqEqual
<1> QED
  BY <1>1, PrefixIs DEF IsStrictPrefix

\* The path a goes before b at character n.
Differ(a, b, n) ==
  /\ n \in 1..Len(a) /\ n <= Len(b) /\ a[n] < b[n]
  /\ \A k \in 1..(n - 1) : a[k] = b[k]

LEMMA BeforeIs ==
  ASSUME NEW a \in Seq(Nat), NEW b \in Seq(Nat)
  PROVE  Before(a, b) <=>
           \/ Len(a) < Len(b) /\ \A i \in 1..Len(a) : a[i] = b[i]
           \/ \E n \in Nat : Differ(a, b, n)
<1>1. DOMAIN a = 1..Len(a) /\ DOMAIN b = 1..Len(b) /\ Len(a) \in Nat /\ Len(b) \in Nat
  OBVIOUS
<1>2. ASSUME NEW n
      PROVE  n \in DOMAIN a \cap DOMAIN b <=> n \in 1..Len(a) /\ n <= Len(b)
  BY <1>1
<1>3. (\E n \in DOMAIN a \cap DOMAIN b :
         a[n] < b[n] /\ \A k \in 1..(n - 1) : a[k] = b[k])
        <=> \E n \in 1..Len(a) : Differ(a, b, n)
  BY <1>2, Zenon DEF Differ
<1>4. (\E n \in Nat : Differ(a, b, n)) <=> \E n \in 1..Len(a) : Differ(a, b, n)
  <2>1. 1..Len(a) \subseteq Nat
    BY <1>1
  <2> QED
    BY <2>1, Zenon DEF Differ
<1> QED
  BY <1>3, <1>4, StrictPrefixIs, Zenon DEF Before

\* Of two paths one goes before the other, ...
LEMMA BeforeTotal ==
  ASSUME NEW a \in Seq(Nat), NEW b \in Seq(Nat), a # b
  PROVE  Before(a, b) \/ Before(b, a)
<1> DEFINE D == {n \in 1..Len(a) : n <= Len(b) /\ a[n] # b[n]}
<1>1. CASE D = {}
  <2>1. \A i \in 1..Len(a) : i <= Len(b) => a[i] = b[i]
    BY <1>1
  <2>2. CASE Len(a) < Len(b)
    <3>1. \A i \in 1..Len(a) : a[i] = b[i]
      BY <2>1, <2>2
    <3> QED
      BY <3>1, <2>2, BeforeIs, Zenon
  <2>3. CASE Len(b) < Len(a)
    <3>1. \A i \in 1..Len(b) : b[i] = a[i]
      BY <2>1, <2>3
    <3> QED
      BY <3>1, <2>3, BeforeIs, Zenon
  <2>4. CASE Len(a) = Len(b)
    BY <2>1, <2>4, SeqEqual
  <2> QED
    BY <2>2, <2>3, <2>4
<1>2. CASE D # {}
  <2>1. PICK n \in D : \A k \in D : n <= k
    <3>1. D \subseteq Nat
      OBVIOUS
    <3> HIDE DEF D
    <3> QED
      BY <1>2, <3>1, Least
  <2>2. /\ n \in 1..Len(a) /\ n <= Len(b) /\ a[n] # b[n] /\ n \in 1..Len(b)
    BY <2>1
  <2>3. ASSUME NEW k \in 1..(n - 1)
        PROVE  a[k] = b[k]
    <3>1. k \in 1..Len(a) /\ k <= Len(b) /\ ~ (n <= k)
      BY <2>2
    <3> QED
      BY <2>1, <3>1
  <2>4. a[n] \in Nat /\ b[n] \in Nat
    BY <2>2, ElementOfSeq
  <2>5. Differ(a, b, n) \/ Differ(b, a, n)
    BY <2>2, <2>3, <2>4 DEF Differ
  <2>6. n \in Nat
    BY <2>2
  <2> QED
    BY <2>5, <2>6, BeforeIs, Zenon
<1> QED
  BY <1>1, <1>2

\* ... and what goes before one that goes before a third goes before that.
LEMMA BeforeTransitive ==
  ASSUME NEW a \in Seq(Nat), NEW b \in Seq(Nat), NEW c \in Seq(Nat),
         Before(a, b), Before(b, c)
  PROVE  Before(a, c)
<1> DEFINE Begins(s, t) == Len(s) < Len(t) /\ \A i \in 1..Len(s) : s[i] = t[i]
<1>1. \/ Begins(a, b)
      \/ \E n \in Nat : Differ(a, b, n)
  BY BeforeIs, Zenon
<1>2. \/ Begins(b, c)
      \/ \E n \in Nat : Differ(b, c, n)
  BY BeforeIs, Zenon
<1>3. SUFFICES Begins(a, c) \/ \E n \in Nat : Differ(a, c, n)
  BY BeforeIs, Zenon
<1>4. CASE Begins(a, b) /\ Begins(b, c)
  BY <1>4
<1>5. ASSUME Begins(a, b), NEW n \in Nat, Differ(b, c, n)
      PROVE  Begins(a, c) \/ Differ(a, c, n)
  <2>1. /\ n \in 1..Len(b) /\ n <= Len(c) /\ b[n] < c[n]
        /\ \A i \in 1..(n - 1) : b[i] = c[i]
    BY <1>5 DEF Differ
  <2>2. \A i \in 1..Len(a) : a[i] = b[i]
    BY <1>5
  <2>3. CASE Len(a) < n
    <3>1. \A i \in 1..Len(a) : i \in 1..(n - 1) /\ a[i] = c[i]
      BY <2>1, <2>2, <2>3
    <3>2. Len(a) < Len(c)
      BY <2>1, <2>3
    <3> QED
      BY <3>1, <3>2
  <2>4. CASE n <= Len(a)
    <3>1. n \in 1..Len(a) /\ \A i \in 1..(n - 1) : i \in 1..Len(a)
      BY <2>1, <2>4
    <3>2. a[n] < c[n] /\ \A i \in 1..(n - 1) : a[i] = c[i]
      BY <2>1, <2>2, <3>1
    <3> QED
      BY <2>1, <3>1, <3>2 DEF Differ
  <2> QED
    BY <2>1, <2>3, <2>4
<1>6. ASSUME NEW n \in Nat, Differ(a, b, n), Begins(b, c)
      PROVE  Differ(a, c, n)
  BY <1>6 DEF Differ
<1>7. ASSUME NEW n \in Nat, Differ(a, b, n), NEW k \in Nat, Differ(b, c, k)
      PROVE  \E l \in Nat : Differ(a, c, l)
  <2>1. /\ n \in 1..Len(a) /\ n <= Len(b) /\ a[n] < b[n]
        /\ \A i \in 1..(n - 1) : a[i] = b[i]
    BY <1>7 DEF Differ
  <2>2. /\ k \in 1..Len(b) /\ k <= Len(c) /\ b[k] < c[k]
        /\ \A i \in 1..(k - 1) : b[i] = c[i]
    BY <1>7 DEF Differ
  <2>0. Len(a) \in Nat /\ Len(b) \in Nat /\ Len(c) \in Nat
    OBVIOUS
  <2>3. CASE n < k
    <3>1. n \in 1..(k - 1) /\ n <= Len(c) /\ \A i \in 1..(n - 1) : i \in 1..(k - 1)
      <4>1. n \in 1..Len(a) /\ k \in 1..Len(b) /\ k <= Len(c)
        BY <2>1, <2>2, Zenon
      <4> QED
        BY ONLY <2>0, <4>1, <2>3
    <3>2. a[n] < c[n] /\ \A i \in 1..(n - 1) : a[i] = c[i]
      BY <2>1, <2>2, <3>1
    <3> QED
      BY <2>1, <3>1, <3>2 DEF Differ
  <2>4. CASE n = k
    <3>1. a[n] \in Nat /\ b[n] \in Nat /\ c[n] \in Nat
      <4>1. n \in 1..Len(a) /\ n \in 1..Len(b) /\ n \in 1..Len(c)
        BY <2>1, <2>2, <2>4
      <4> QED
        BY <4>1, ElementOfSeq
    <3>2. a[n] < b[n] /\ b[n] < c[n]
      BY <2>1, <2>2, <2>4, Zenon
    <3>3. a[n] < c[n]
      BY ONLY <3>1, <3>2
    <3>4. \A i \in 1..(n - 1) : a[i] = c[i]
      BY <2>1, <2>2, <2>4, Zenon
    <3>5. n \in 1..Len(a) /\ n <= Len(c)
      BY <2>1, <2>2, <2>4, Zenon
    <3> QED
      BY <3>3, <3>4, <3>5, Zenon DEF Differ
  <2>5. CASE k < n
    <3>1. k \in 1..(n - 1) /\ k \in 1..Len(a) /\ \A i \in 1..(k - 1) : i \in 1..(n - 1)
      <4>1. n \in 1..Len(a) /\ k \in 1..Len(b)
        BY <2>1, <2>2, Zenon
      <4> QED
        BY ONLY <2>0, <4>1, <2>5
    <3>2. a[k] < c[k] /\ \A i \in 1..(k - 1) : a[i] = c[i]
      BY <2>1, <2>2, <3>1
    <3> QED
      BY <2>2, <3>1, <3>2 DEF Differ
  <2> QED
    BY <2>3, <2>4, <2>5
<1> QED
  BY <1>1, <1>2, <1>4, <1>5, <1>6, <1>7

\* Of two beginnings of a line the one that goes before the other begins it.
LEMMA BeforeOnLine ==
  ASSUME NEW a \in Seq(Nat), NEW b \in Seq(Nat), NEW l \in Seq(Nat),
         Before(a, b), IsPrefix(a, l), IsPrefix(b, l)
  PROVE  IsPrefix(a, b)
<1>1. CASE Len(a) < Len(b) /\ \A i \in 1..Len(a) : a[i] = b[i]
  <2>1. Len(a) <= Len(b)
    BY <1>1
  <2> QED
    BY <1>1, <2>1, PrefixIs, Zenon
<1>2. ASSUME NEW n \in Nat, Differ(a, b, n)
      PROVE  FALSE
  <2>1. \A i \in 1..Len(a) : a[i] = l[i]
    BY PrefixIs, Zenon
  <2>2. \A i \in 1..Len(b) : b[i] = l[i]
    BY PrefixIs, Zenon
  <2>3. n \in 1..Len(a) /\ n \in 1..Len(b) /\ a[n] < b[n]
    BY <1>2 DEF Differ
  <2>4. a[n] = b[n] /\ a[n] \in Nat
    BY <2>1, <2>2, <2>3
  <2> QED
    BY <2>3, <2>4
<1> QED
  BY <1>1, <1>2, BeforeIs, Zenon


\* A list gone through element by element.
LEMMA RestIs ==
  ASSUME NEW S, NEW s \in Seq(S), NEW d \in 0..Len(s)
  PROVE  LET r == SubSeq(s, d + 1, Len(s)) IN
         /\ r = <<>> => d = Len(s)
         /\ r # <<>> => /\ d + 1 \in 1..Len(s) /\ Head(r) = s[d + 1]
                       /\ Tail(r) = SubSeq(s, (d + 1) + 1, Len(s))
<1> DEFINE r == SubSeq(s, d + 1, Len(s))
<1>1. Len(r) = Len(s) - d /\ Len(s) \in Nat /\ d \in Nat /\ d <= Len(s)
  OBVIOUS
<1>2. r \in Seq(S)
  OBVIOUS
<1>3. ASSUME r = <<>> PROVE d = Len(s)
  <2> HIDE DEF r
  <2>1. Len(r) = 0
    BY <1>3
  <2> QED
    BY <1>1, <2>1
<1>4. ASSUME r # <<>>
      PROVE  /\ d + 1 \in 1..Len(s) /\ Head(r) = s[d + 1]
             /\ Tail(r) = SubSeq(s, (d + 1) + 1, Len(s))
  <2>1. d + 1 \in 1..Len(s)
    <3> HIDE DEF r
    <3>1. Len(r) # 0
      BY <1>2, <1>4
    <3> QED
      BY <1>1, <3>1
  <2>2. Head(r) = s[d + 1]
    BY <2>1
  <2>3. Tail(r) = SubSeq(s, (d + 1) + 1, Len(s))
    BY <1>1, <2>1, SeqDef
  <2> QED
    BY <2>1, <2>2, <2>3
<1> QED
  BY <1>3, <1>4

-----------------------------------------------------------------------------
\* The table of commands.

LEMMA CommandNameIs ==
  ASSUME NEW srv \in AllServices
  PROVE  CommandName(srv) \in Seq(Nat)
<1> DEFINE name == lowerName(srv.name)
<1>1. name \in Seq(Nat) /\ ServiceSuffix \in Seq(Nat)
  BY TextAssumption
<1>2. SubSeq(name, 1, Len(name) - Len(ServiceSuffix)) \in Seq(Nat)
  <2> HIDE DEF name
  <2> DEFINE n == Len(name) - Len(ServiceSuffix)
  <2>1. n \in Int /\ n <= Len(name)
    BY <1>1
  <2>2. \A i \in 1..n : name[i] \in Nat
    BY <1>1, <2>1
  <2> HIDE DEF n
  <2> QED
    BY <1>1, <2>1, <2>2, SubSeqProperties
<1> QED
  BY <1>1, <1>2 DEF CommandName

LEMMA CommandIs ==
  ASSUME NEW c \in Commands
  PROVE  c.path \in Seq(Nat)
<1>1. CASE c = HelpCommand
  BY <1>1, TextAssumption DEF HelpCommand
<1>2. ASSUME NEW srv \in AllServices, c = ServiceCommand(srv)
      PROVE  c.path \in Seq(Nat)
  BY <1>2, CommandNameIs DEF ServiceCommand
<1>3. ASSUME NEW d \in Custom, c = CustomCommand(d)
      PROVE  c.path \in Seq(Nat)
  BY <1>3, TextAssumption DEF CustomCommand
<1> QED
  BY <1>1, <1>2, <1>3 DEF Commands, ServiceCommands

LEMMA AppendIs ==
  ASSUME NEW S, NEW s \in Seq(S), NEW e \in S
  PROVE  /\ Append(s, e) \in Seq(S) /\ Len(Append(s, e)) = Len(s) + 1
         /\ \A i \in 1..Len(s) : Append(s, e)[i] = s[i]
         /\ Append(s, e)[Len(s) + 1] = e
  OBVIOUS

LEMMA InsertAtIs ==
  ASSUME NEW S, NEW s \in Seq(S), NEW e \in S, NEW n \in 1..Len(s)
  PROVE  /\ InsertAt(s, n, e) \in Seq(S) /\ Len(InsertAt(s, n, e)) = Len(s) + 1
         /\ \A i \in 1..(n - 1) : InsertAt(s, n, e)[i] = s[i]
         /\ InsertAt(s, n, e)[n] = e
         /\ \A i \in (n + 1)..(Len(s) + 1) : InsertAt(s, n, e)[i] = s[i - 1]
<1> DEFINE a == SubSeq(s, 1, n - 1)
           b == SubSeq(s, n, Len(s))
<1>1. a \in Seq(S) /\ Len(a) = n - 1 /\ \A i \in 1..(n - 1) : a[i] = s[i]
  OBVIOUS
<1>2. b \in Seq(S) /\ Len(b) = Len(s) - n + 1 /\ \A i \in 1..Len(b) : b[i] = s[n + i - 1]
  OBVIOUS
<1>3. InsertAt(s, n, e) = (a \o <<e>>) \o b
  BY DEF InsertAt
<1> HIDE DEF a, b
<1>4. a \o <<e>> \in Seq(S) /\ Len(a \o <<e>>) = n /\ (a \o <<e>>)[n] = e
      /\ \A i \in 1..(n - 1) : (a \o <<e>>)[i] = s[i]
  BY <1>1
<1> DEFINE t == a \o <<e>>
<1>5. /\ t \o b \in Seq(S) /\ Len(t \o b) = Len(t) + Len(b)
      /\ \A i \in 1..(Len(t) + Len(b)) :
           (t \o b)[i] = IF i <= Len(t) THEN t[i] ELSE b[i - Len(t)]
  <2>1. t \in Seq(S) /\ b \in Seq(S)
    BY <1>2, <1>4
  <2> HIDE DEF t
  <2> QED
    BY <2>1, ConcatProperties, Zenon
<1>6. /\ InsertAt(s, n, e) = t \o b /\ Len(t) = n /\ t[n] = e
      /\ \A i \in 1..(n - 1) : t[i] = s[i]
  BY <1>3, <1>4
<1> HIDE DEF t
<1>7. Len(s) \in Nat /\ n \in 1..Len(s) /\ Len(t) + Len(b) = Len(s) + 1
  BY <1>2, <1>6
<1>8. \A i \in 1..n : (t \o b)[i] = t[i]
  BY <1>5, <1>6, <1>7
<1>9. ASSUME NEW i \in (n + 1)..(Len(s) + 1)
      PROVE  (t \o b)[i] = s[i - 1]
  <2>1. (t \o b)[i] = b[i - n] /\ i - n \in 1..Len(b)
    BY <1>2, <1>5, <1>6, <1>7
  <2>2. b[i - n] = s[n + (i - n) - 1]
    BY <1>2, <2>1
  <2> QED
    BY <1>7, <2>1, <2>2
<1> QED
  BY <1>5, <1>6, <1>7, <1>8, <1>9

SortedByPath(s) == \A i, j \in 1..Len(s) : i < j => Before(s[i].path, s[j].path)

\* A command gets its place in the order of the paths.
LEMMA InsertSorts ==
  ASSUME cmds \in Seq(Commands), SortedByPath(cmds), NEW c \in Commands
  PROVE  /\ Insert(c) \in Seq(Commands)
         /\ SortedByPath(Insert(c))
         /\ ToSet(cmds) \subseteq ToSet(Insert(c))
         /\ ToSet(Insert(c)) \subseteq ToSet(cmds) \cup {c}
         /\ \E d \in ToSet(Insert(c)) : d.path = c.path
<1> DEFINE I == {i \in 1..Len(cmds) : Before(c.path, cmds[i].path)}
           n == IF I # {} THEN Min(I) ELSE 0
           new == IF n = 0 THEN Append(cmds, c) ELSE InsertAt(cmds, n, c)
<1>1. CASE c.path \in {d.path : d \in ToSet(cmds)}
  <2>1. Insert(c) = cmds
    BY <1>1 DEF Insert
  <2> QED
    BY <1>1, <2>1
<1>2. CASE c.path \notin {d.path : d \in ToSet(cmds)}
  <2>1. Insert(c) = new
    BY <1>2 DEF Insert, SelectInSeq
  <2>2. DOMAIN cmds = 1..Len(cmds) /\ Len(cmds) \in Nat
    OBVIOUS
  <2>3. c.path \in Seq(Nat) /\ \A i \in 1..Len(cmds) : cmds[i].path \in Seq(Nat)
    BY CommandIs
  <2>4. \A i \in 1..Len(cmds) : i \notin I => Before(cmds[i].path, c.path)
    <3>1. \A i \in 1..Len(cmds) : cmds[i].path # c.path
      BY <1>2, <2>2 DEF ToSet
    <3> QED
      BY <2>3, <3>1, BeforeTotal
  <2>5. CASE I = {}
    <3>1. new = Append(cmds, c)
      BY <2>5
    <3> HIDE DEF new
    <3>2. /\ new \in Seq(Commands) /\ Len(new) = Len(cmds) + 1
          /\ \A i \in 1..Len(cmds) : new[i] = cmds[i]
          /\ new[Len(cmds) + 1] = c
      BY <3>1, AppendIs
    <3>3. SortedByPath(new)
      <4> SUFFICES ASSUME NEW i \in 1..Len(new), NEW j \in 1..Len(new), i < j
                   PROVE  Before(new[i].path, new[j].path)
        BY DEF SortedByPath
      <4>1. CASE j <= Len(cmds)
        BY <3>2, <4>1 DEF SortedByPath
      <4>2. CASE j = Len(cmds) + 1
        BY <2>4, <2>5, <3>2, <4>2
      <4> QED
        BY <3>2, <4>1, <4>2
    <3>4. ToSet(new) = ToSet(cmds) \cup {c}
      BY <2>2, <3>2 DEF ToSet
    <3> QED
      BY <2>1, <3>2, <3>3, <3>4
  <2>6. CASE I # {}
    <3>1. n \in I /\ \A i \in I : n <= i
      <4>1. I \subseteq Nat /\ n = Min(I)
        BY <2>6
      <4> HIDE DEF I, n
      <4> QED
        BY <2>6, <4>1, Least
    <3>2. new = InsertAt(cmds, n, c) /\ n \in 1..Len(cmds)
      BY <2>6, <3>1
    <3> HIDE DEF new, n, I
    <3>3. /\ new \in Seq(Commands) /\ Len(new) = Len(cmds) + 1
          /\ \A i \in 1..(n - 1) : new[i] = cmds[i]
          /\ new[n] = c
          /\ \A i \in (n + 1)..(Len(cmds) + 1) : new[i] = cmds[i - 1]
      <4>1. n \in 1..Len(cmds)
        BY <3>2
      <4>2. /\ InsertAt(cmds, n, c) \in Seq(Commands)
            /\ Len(InsertAt(cmds, n, c)) = Len(cmds) + 1
            /\ \A i \in 1..(n - 1) : InsertAt(cmds, n, c)[i] = cmds[i]
            /\ InsertAt(cmds, n, c)[n] = c
            /\ \A i \in (n + 1)..(Len(cmds) + 1) : InsertAt(cmds, n, c)[i] = cmds[i - 1]
        BY <4>1, InsertAtIs
      <4> QED
        BY <3>2, <4>2
    <3>4. \A i \in 1..(n - 1) : Before(cmds[i].path, c.path)
      <4>1. \A i \in 1..(n - 1) : i \in 1..Len(cmds) /\ i \notin I
        BY <3>1, <3>2
      <4> QED
        BY <2>4, <4>1 DEF I
    <3>5. \A i \in n..Len(cmds) : Before(c.path, cmds[i].path)
      <4> SUFFICES ASSUME NEW i \in n..Len(cmds) PROVE Before(c.path, cmds[i].path)
        OBVIOUS
      <4>1. Before(c.path, cmds[n].path)
        BY <3>1 DEF I
      <4>2. i = n \/ Before(cmds[n].path, cmds[i].path)
        BY <3>2 DEF SortedByPath
      <4>3. i \in 1..Len(cmds)
        BY <3>2
      <4> QED
        BY <2>3, <3>2, <4>1, <4>2, <4>3, BeforeTransitive
    <3>6. SortedByPath(new)
      <4> SUFFICES ASSUME NEW i \in 1..Len(new), NEW j \in 1..Len(new), i < j
                   PROVE  Before(new[i].path, new[j].path)
        BY DEF SortedByPath
      <4>1. CASE j < n
        <5>1. new[i] = cmds[i] /\ new[j] = cmds[j]
              /\ i \in 1..Len(cmds) /\ j \in 1..Len(cmds)
          BY <3>2, <3>3, <4>1
        <5> QED
          BY <5>1 DEF SortedByPath
      <4>2. CASE j = n
        BY <3>2, <3>3, <3>4, <4>2
      <4>3. CASE i < n /\ n < j
        <5>1. new[i] = cmds[i] /\ new[j] = cmds[j - 1] /\ i < j - 1
              /\ i \in 1..Len(cmds) /\ j - 1 \in 1..Len(cmds)
          BY <3>2, <3>3, <4>3
        <5> QED
          BY <5>1 DEF SortedByPath
      <4>4. CASE i = n
        <5>1. new[j] = cmds[j - 1] /\ j - 1 \in n..Len(cmds)
          BY <3>2, <3>3, <4>4
        <5> QED
          BY <3>3, <3>5, <4>4, <5>1
      <4>5. CASE n < i
        <5>1. new[i] = cmds[i - 1] /\ new[j] = cmds[j - 1] /\ i - 1 < j - 1
              /\ i - 1 \in 1..Len(cmds) /\ j - 1 \in 1..Len(cmds)
          BY <3>2, <3>3, <4>5
        <5> QED
          BY <5>1 DEF SortedByPath
      <4> QED
        BY <3>2, <4>1, <4>2, <4>3, <4>4, <4>5
    <3>7. /\ ToSet(cmds) \subseteq ToSet(new)
          /\ ToSet(new) \subseteq ToSet(cmds) \cup {c}
          /\ c \in ToSet(new)
      <4>1. ASSUME NEW i \in 1..Len(cmds)
            PROVE  \E j \in 1..Len(new) : new[j] = cmds[i]
        <5>1. CASE i < n
          BY <3>2, <3>3, <5>1
        <5>2. CASE n <= i
          <6>1. i + 1 \in 1..Len(new) /\ new[i + 1] = cmds[i]
            BY <3>2, <3>3, <5>2
          <6> QED
            BY <6>1
        <5> QED
          BY <3>2, <5>1, <5>2
      <4>2. ASSUME NEW j \in 1..Len(new)
            PROVE  new[j] = c \/ \E i \in 1..Len(cmds) : new[j] = cmds[i]
        <5>1. CASE j < n
          BY <3>2, <3>3, <5>1
        <5>2. CASE n < j
          <6>1. j - 1 \in 1..Len(cmds) /\ j \in (n + 1)..(Len(cmds) + 1)
            BY <3>2, <3>3, <5>2
          <6>2. new[j] = cmds[j - 1]
            BY <3>3, <6>1
          <6> QED
            BY <6>1, <6>2
        <5> QED
          BY <3>2, <3>3, <5>1, <5>2
      <4>3. DOMAIN new = 1..Len(new) /\ n \in 1..Len(new)
        BY <3>2, <3>3
      <4>4. ASSUME NEW d \in ToSet(cmds) PROVE d \in ToSet(new)
        BY <2>2, <4>1, <4>3 DEF ToSet
      <4>5. ASSUME NEW d \in ToSet(new) PROVE d \in ToSet(cmds) \cup {c}
        BY <2>2, <4>2, <4>3 DEF ToSet
      <4> QED
        BY <3>3, <4>3, <4>4, <4>5 DEF ToSet
    <3> QED
      BY <2>1, <3>3, <3>6, <3>7
  <2> QED
    BY <2>5, <2>6
<1> QED
  BY <1>1, <1>2

-----------------------------------------------------------------------------
\* The invariants.

\* The commands are sorted, every service's path is that of a command, and a
\* command of a service is of one of the services known.
CommandInv ==
  /\ SortedByPath(cmds)
  /\ \A s \in ToSet(services) : \E c \in ToSet(cmds) : c.path = s.path
  /\ \A c \in ToSet(cmds) : c.kind = "mgr" => c \in ToSet(services)

Paths == {s.path : s \in ToSet(services)}

\* The services known are those of the part of the server's list gone through,
\* and after it those of the list, unless a start failed halfway.
ServiceInv ==
  /\ \A i, j \in 1..Len(services) : services[i].path = services[j].path => i = j
  /\ halfway => services # <<>>
  /\ pc = "register" =>
       /\ ~halfway
       /\ \E list \in ApiLists : \E d \in 0..Len(list) :
            /\ todo = SubSeq(list, d + 1, Len(list))
            /\ Paths = {CommandName(list[i]) : i \in 1..d}
  /\ pc # "register" /\ ~halfway =>
       \E list \in ApiLists \cup {<<>>} :
         Paths = {CommandName(srv) : srv \in ToSet(list)}

\* The frames are records, each one deeper in the request than the next.
IsStack(fr) ==
  /\ fr \in Seq(ToSet(fr))
  /\ \A i \in 1..Len(fr) :
       /\ fr[i] = [path |-> fr[i].path, fields |-> fr[i].fields]
       /\ fr[i].path \in Seq(ToSet(fr[i].path))
       /\ Len(fr[i].path) = Len(fr) - i

IsRequest(r) ==
  r = [service |-> r.service, method |-> r.method, data |-> r.data, asked |-> r.asked]

\* The first e fields of the object f were prompted for.
InnerAsked(f, e) ==
  \A j \in 1..e :
    \E w \in Answers : <<<<f.tag, f.fields[j].tag>>, w>> \in request.asked

Entered(f) == f.type = "struct" /\ DataAt(<<f.tag>>) # {}

\* The first d fields of the method m were prompted for, and the prompts are
\* inside of the last of them or at the next one.
AskedOf(m, d) ==
  LET k == Len(frames) IN
  /\ frames[k].fields = SubSeq(m.fields, d + 1, Len(m.fields))
  /\ \A i \in 1..d : FieldSent(m.fields[i])
  /\ \A x \in request.data :
       Len(x[1]) = 1 => \E i \in 1..d : x[1] = <<m.fields[i].tag>>
  /\ \A i \in 1..d :
       Entered(m.fields[i]) /\ (k = 1 \/ i # d)
         => InnerAsked(m.fields[i], Len(m.fields[i].fields))
  /\ k > 1 =>
       /\ d > 0
       /\ frames[k - 1].path = <<m.fields[d].tag>>
       /\ \E e \in 0..Len(m.fields[d].fields) :
            /\ frames[k - 1].fields
                 = SubSeq(m.fields[d].fields, e + 1, Len(m.fields[d].fields))
            /\ InnerAsked(m.fields[d], e)

AskInv ==
  pc \in {"prompt", "exec"} =>
    \E s \in ToSet(services) : \E m \in ToSet(s.runs.methods) :
      /\ AskedFor(s, m)
      /\ \E d \in 0..Len(m.fields) : AskedOf(m, d)

ExecInv == pc = "exec" => Len(frames) = 1 /\ frames[1].fields = <<>>

\* A first file that is a single service is what is known.
FileInv ==
  cfg.services # <<>> /\ files # <<>> /\ files[1].form = "single"
    => files[1].services = cfg.services

FilesOK ==
  \A i \in 1..Len(files) :
    /\ files[i].form \in {"list", "single"} => files[i].services # <<>>
    /\ files[i].form = "empty" => files[i].services = <<>>

\* A file that is being written is empty, and what goes into it is in memory.
WriteInv ==
  pc = "write" =>
    /\ cfg.file \in 1..Len(files) /\ files[cfg.file] = Truncated
    /\ cfg.services # <<>>
    /\ cfg.last = cfg.active /\ cfg.active \in ToSet(cfg.services)

CfgType == [services : Seq(STRING), last : STRING, active : STRING, file : Nat]

-----------------------------------------------------------------------------
\* The files and the configuration.

\* The file that gave the services last, of the first n.
LEMMA ServicesReadIs ==
  ASSUME TypeOK, NEW n \in 0..Len(files)
  PROVE  /\ ServicesRead(n) \in Seq(STRING)
         /\ \/ /\ ServicesRead(n) = cfg.services
               /\ \A i \in 1..n : files[i].form = "list" => files[i].services = <<>>
               /\ \A i \in 1..n : files[i].form = "bad" => files[i].services = <<>>
            \/ \E k \in 1..n :
                 /\ files[k].form \in {"list", "bad"} /\ files[k].services # <<>>
                 /\ ServicesRead(n) = files[k].services
                 /\ \A i \in 1..n : i > k => ~ (/\ files[i].form \in {"list", "bad"}
                                                /\ files[i].services # <<>>)
<1> DEFINE T(f) == f.form \in {"list", "bad"} /\ f.services # <<>>
           I == {i \in 1..n : T(files[i])}
           m == IF I # {} THEN Max(I) ELSE 0
<1>1. files \in Seq(ConfigFile) /\ Len(files) \in Nat /\ n \in Nat
  BY DEF TypeOK
<1>2. Len(SubSeq(files, 1, n)) = n /\ \A i \in 1..n : SubSeq(files, 1, n)[i] = files[i]
  BY <1>1
<1>3. ServicesRead(n) = IF m = 0 THEN cfg.services ELSE files[m].services
  <2>1. {i \in 1..Len(SubSeq(files, 1, n)) : T(SubSeq(files, 1, n)[i])} = I
    BY <1>2
  <2> QED
    BY <2>1 DEF ServicesRead, SelectLastInSeq
<1>4. CASE I = {}
  <2>1. ServicesRead(n) = cfg.services
    BY <1>3, <1>4
  <2>2. \A i \in 1..n : ~ T(files[i])
    BY <1>4
  <2> QED
    BY <2>1, <2>2 DEF TypeOK
<1>5. CASE I # {}
  <2>1. I \subseteq 1..n
    OBVIOUS
  <2>2. Max(I) \in I /\ \A i \in I : Max(I) >= i
    <3> HIDE DEF I
    <3> QED
      BY <1>1, <1>5, <2>1, Greatest
  <2>3. PICK k \in 1..n : k = Max(I) /\ T(files[k]) /\ \A i \in 1..n : T(files[i]) => k >= i
    BY <2>2
  <2>4. m = k /\ k # 0
    BY <1>5, <2>3
  <2> HIDE DEF m, I
  <2>5. ServicesRead(n) = files[k].services
    BY <1>3, <2>4
  <2>6. \A i \in 1..n : i > k => ~ T(files[i])
    BY <2>3
  <2>7. files[k] \in ConfigFile
    BY <1>1, <2>3
  <2> QED
    BY <2>3, <2>5, <2>6, <2>7 DEF ConfigFile
<1> QED
  BY <1>4, <1>5

LEMMA LastReadIs ==
  ASSUME TypeOK, NEW n \in 0..Len(files)
  PROVE  LastRead(n) \in STRING
<1> DEFINE I == {i \in 1..n : files[i].last # NoService}
<1>1. files \in Seq(ConfigFile) /\ Len(files) \in Nat /\ n \in Nat
  BY DEF TypeOK
<1>2. Len(SubSeq(files, 1, n)) = n /\ \A i \in 1..n : SubSeq(files, 1, n)[i] = files[i]
  BY <1>1
<1>3. LastRead(n) = LET m == IF I # {} THEN Max(I) ELSE 0
                    IN  IF m = 0 THEN cfg.last ELSE files[m].last
  <2>1. {i \in 1..Len(SubSeq(files, 1, n)) : SubSeq(files, 1, n)[i].last # NoService} = I
    BY <1>2
  <2> QED
    BY <2>1 DEF LastRead, SelectLastInSeq
<1>4. I # {} => Max(I) \in 1..n
  <2>1. I \subseteq 1..n
    OBVIOUS
  <2> HIDE DEF I
  <2> QED
    BY <1>1, <2>1, Greatest
<1>5. cfg.last \in STRING
  BY DEF TypeOK
<1>6. ASSUME NEW i \in 1..n PROVE files[i].last \in STRING
  <2>1. files[i] \in ConfigFile
    BY <1>1
  <2> QED
    BY <2>1 DEF ConfigFile
<1> HIDE DEF I
<1> QED
  BY <1>3, <1>4, <1>5, <1>6

LEMMA ChosenIs ==
  ASSUME TypeOK, Chosen # 0
  PROVE  /\ Chosen \in 1..Len(files) /\ Usable(Chosen)
         /\ \A j \in 1..(Chosen - 1) : ~ Usable(j)
<1> DEFINE I == {i \in 1..Len(files) : Usable(i)}
<1>1. Chosen = IF I = {} THEN 0 ELSE Min(I)
  <2>1. {i \in DOMAIN files : Usable(i)} = I
    BY DEF TypeOK
  <2> QED
    BY <2>1 DEF Chosen
<1>2. I # {} /\ I \subseteq Nat
  BY <1>1
<1>3. Chosen \in I /\ \A y \in I : Chosen <= y
  <2> HIDE DEF I
  <2>1. Chosen = Min(I)
    BY <1>1, <1>2
  <2> QED
    BY <1>2, <2>1, Least
<1>4. Len(files) \in Nat
  BY DEF TypeOK
<1>5. ASSUME NEW j \in 1..(Chosen - 1) PROVE ~ Usable(j)
  <2>1. j \in 1..Len(files) /\ ~ (Chosen <= j)
    BY <1>3, <1>4
  <2> QED
    BY <1>3, <2>1
<1> QED
  BY <1>3, <1>5

\* A single service in the first file is taken, whatever follows it.
LEMMA FirstSingle ==
  ASSUME TypeOK, files # <<>>, files[1].form = "single"
  PROVE  Chosen = 1
<1> DEFINE I == {i \in 1..Len(files) : Usable(i)}
<1>1. 1 \in I /\ I \subseteq Nat /\ \A i \in I : 1 <= i
  <2>1. Len(files) \in Nat /\ Len(files) # 0
    BY DEF TypeOK
  <2> QED
    BY <2>1 DEF Usable
<1>2. Chosen = IF I = {} THEN 0 ELSE Min(I)
  <2>1. {i \in DOMAIN files : Usable(i)} = I
    BY DEF TypeOK
  <2> QED
    BY <2>1 DEF Chosen
<1> HIDE DEF I
<1>3. Min(I) \in I /\ \A y \in I : Min(I) <= y
  BY <1>1, Least
<1> QED
  BY <1>1, <1>2, <1>3

\* What is read has services, among them those of the file it was read from,
\* which are all of them if it is the first and a single one.
LEMMA LoadedIs ==
  ASSUME TypeOK, FilesOK, FileInv
  PROVE  /\ Loaded \in CfgType /\ Loaded.file = Chosen
         /\ Chosen # 0 =>
              /\ Loaded.services # <<>>
              /\ Active(Loaded) \in STRING /\ Active(Loaded) \in ToSet(Loaded.services)
              /\ Legible(files)
                   => ToSet(files[Chosen].services) \subseteq ToSet(Loaded.services)
         /\ files # <<>> /\ files[1].form = "single"
              => Loaded.services = files[1].services
<1> DEFINE n == IF Chosen = 0 THEN Len(files) ELSE Chosen
           f == files[Chosen]
<1>1. files \in Seq(ConfigFile) /\ Len(files) \in Nat /\ n \in 0..Len(files)
  BY ChosenIs DEF TypeOK
<1>2. /\ ServicesRead(n) \in Seq(STRING) /\ LastRead(n) \in STRING
      /\ Chosen \in Nat /\ cfg \in CfgType
  BY <1>1, ServicesReadIs, LastReadIs, ChosenIs DEF TypeOK, CfgType
<1>3. Chosen # 0 =>
        /\ Chosen \in 1..Len(files) /\ n = Chosen /\ f \in ConfigFile
        /\ f.form = "single" \/ ServicesRead(Chosen) # <<>>
        /\ f.form # "bad"
        /\ f.services \in Seq(STRING)
        /\ f.form \in {"list", "single"} => f.services # <<>>
        /\ f.form = "empty" => f.services = <<>>
  <2> SUFFICES ASSUME Chosen # 0
               PROVE  /\ Chosen \in 1..Len(files) /\ n = Chosen /\ f \in ConfigFile
                      /\ f.form = "single" \/ ServicesRead(Chosen) # <<>>
                      /\ f.form # "bad"
                      /\ f.services \in Seq(STRING)
                      /\ f.form \in {"list", "single"} => f.services # <<>>
                      /\ f.form = "empty" => f.services = <<>>
    OBVIOUS
  <2>1. Chosen \in 1..Len(files) /\ Usable(Chosen)
    BY ChosenIs
  <2>2. f \in ConfigFile
    BY <1>1, <2>1
  <2>3. /\ f.form \in {"list", "single"} => f.services # <<>>
        /\ f.form = "empty" => f.services = <<>>
    BY <2>1 DEF FilesOK
  <2>4. f.form # "bad" /\ (f.form = "single" \/ ServicesRead(Chosen) # <<>>)
    BY <2>1 DEF Usable
  <2>5. f.services \in Seq(STRING)
    BY <2>2 DEF ConfigFile
  <2> QED
    BY <2>1, <2>2, <2>3, <2>4, <2>5
<1> HIDE DEF f
<1>4. Loaded = [cfg EXCEPT
        !.services = IF Chosen # 0 /\ ServicesRead(n) = <<>> THEN files[n].services
                     ELSE ServicesRead(n),
        !.last = LastRead(n), !.file = Chosen]
  BY DEF Loaded
<1> HIDE DEF n
<1>5. /\ Loaded \in CfgType /\ Loaded.file = Chosen
      /\ Chosen = 0 => Loaded.services = ServicesRead(n)
      /\ Chosen # 0 /\ ServicesRead(Chosen) = <<>> => Loaded.services = f.services
      /\ Chosen # 0 /\ ServicesRead(Chosen) # <<>> =>
           Loaded.services = ServicesRead(Chosen)
  <2>1. Chosen # 0 => n = Chosen /\ files[n].services = f.services
                      /\ f.services \in Seq(STRING)
    BY <1>3 DEF f
  <2> QED
    BY <1>2, <1>4, <2>1 DEF CfgType
<1>6. Chosen # 0 => Loaded.services # <<>>
  BY <1>3, <1>5
<1>7. Chosen # 0 => Active(Loaded) \in STRING /\ Active(Loaded) \in ToSet(Loaded.services)
  <2> SUFFICES ASSUME Chosen # 0
               PROVE  Active(Loaded) \in STRING /\ Active(Loaded) \in ToSet(Loaded.services)
    OBVIOUS
  <2>1. /\ Loaded.last \in STRING /\ Loaded.services \in Seq(STRING)
        /\ Loaded.services[1] \in STRING /\ 1 \in DOMAIN Loaded.services
    BY <1>5, <1>6 DEF CfgType
  <2> QED
    BY <2>1 DEF Active, ToSet
<1>8. ASSUME files # <<>>, files[1].form = "single"
      PROVE  Loaded.services = files[1].services
  <2>1. Chosen = 1 /\ f = files[1] /\ 1 \in 0..Len(files)
    BY <1>1, <1>8, FirstSingle DEF f
  <2>2. ServicesRead(1) = cfg.services
    <3>1. \A k \in 1..1 : k = 1
      OBVIOUS
    <3> QED
      BY <1>8, <2>1, <3>1, ServicesReadIs
  <2>3. CASE cfg.services = <<>>
    BY <1>5, <2>1, <2>2, <2>3
  <2>4. CASE cfg.services # <<>>
    BY <1>5, <1>8, <2>1, <2>2, <2>4 DEF FileInv
  <2> QED
    BY <2>3, <2>4
<1>9. ASSUME Chosen # 0, Legible(files)
      PROVE  ToSet(f.services) \subseteq ToSet(Loaded.services)
  <2>1. CASE f.form = "list"
    <3>1. ServicesRead(Chosen) = f.services
      <4>1. Chosen \in 1..Chosen /\ Chosen \in 0..Len(files)
        BY <1>1, <1>3, <1>9
      <4>2. f.services # <<>> /\ f = files[Chosen]
        BY <1>3, <1>9, <2>1 DEF f
      <4>3. PICK k \in 1..Chosen :
              /\ ServicesRead(Chosen) = files[k].services
              /\ \A i \in 1..Chosen : i > k => ~ (/\ files[i].form \in {"list", "bad"}
                                                  /\ files[i].services # <<>>)
        BY <2>1, <4>1, <4>2, ServicesReadIs
      <4>4. k = Chosen
        BY <2>1, <4>1, <4>2, <4>3
      <4> QED
        BY <4>2, <4>3, <4>4
    <3> QED
      BY <1>3, <1>5, <1>9, <2>1, <3>1
  <2>2. CASE f.form = "single" /\ Chosen = 1
    BY <1>3, <1>8, <1>9, <2>2 DEF f
  <2>3. CASE f.form = "single" /\ Chosen # 1
    <3>1. \A j \in 1..(Chosen - 1) : files[j].form # "bad" /\ ~ Usable(j)
      <4>1. \A j \in 1..(Chosen - 1) : j \in DOMAIN files /\ j < Chosen
        BY <1>1, <1>3, <1>9
      <4>2. Chosen \in DOMAIN files
        BY <1>1, <1>3, <1>9
      <4> QED
        BY <1>9, <2>3, <4>1, <4>2, ChosenIs DEF Legible, f
    <3>2. \A j \in 1..(Chosen - 1) : files[j].form # "single" /\ ServicesRead(j) = <<>>
      BY <3>1 DEF Usable
    <3>3. 1 \in 1..(Chosen - 1) /\ Chosen - 1 \in 1..(Chosen - 1)
          /\ Chosen - 1 \in 0..Len(files) /\ Chosen \in 0..Len(files)
      BY <1>1, <1>3, <1>9, <2>3
    <3>4. cfg.services = <<>> /\ \A i \in 1..(Chosen - 1) :
                                    files[i].form = "list" => files[i].services = <<>>
      BY <3>2, <3>3, ServicesReadIs
    <3>5. \A i \in 1..Chosen : i \in 1..(Chosen - 1) \/ i = Chosen
      BY <1>3, <1>9
    <3>6. \A i \in 1..Chosen : ~ (/\ files[i].form \in {"list", "bad"}
                                  /\ files[i].services # <<>>)
      BY <2>3, <3>1, <3>4, <3>5 DEF f
    <3>7. ServicesRead(Chosen) = <<>>
      BY <3>3, <3>4, <3>6, ServicesReadIs
    <3> QED
      BY <1>5, <1>9, <3>7
  <2>4. CASE f.form = "empty"
    BY <1>3, <1>9, <2>4 DEF ToSet
  <2> QED
    BY <1>3, <1>9, <2>1, <2>2, <2>3, <2>4 DEF ConfigFile, FileForms
<1> QED
  BY <1>5, <1>6, <1>7, <1>8, <1>9 DEF f

\* One file is changed.
LEMMA FilePut ==
  ASSUME TypeOK, FilesOK, NEW n \in 1..Len(files), NEW w \in ConfigFile,
         w.form \in {"list", "single"} => w.services # <<>>,
         w.form = "empty" => w.services = <<>>,
         files' = [files EXCEPT ![n] = w]
  PROVE  /\ files' \in Seq(ConfigFile) /\ Len(files') = Len(files) /\ FilesOK'
         /\ files'[n] = w
         /\ \A i \in 1..Len(files) : i # n => files'[i] = files[i]
         /\ DOMAIN files = 1..Len(files) /\ DOMAIN files' = 1..Len(files)
<1>1. files \in Seq(ConfigFile)
  BY DEF TypeOK
<1>2. /\ files' \in Seq(ConfigFile) /\ Len(files') = Len(files)
      /\ files'[n] = w
      /\ \A i \in 1..Len(files) : i # n => files'[i] = files[i]
      /\ DOMAIN files = 1..Len(files) /\ DOMAIN files' = 1..Len(files)
  BY <1>1
<1>3. ASSUME NEW i \in 1..Len(files)
      PROVE  /\ files'[i].form \in {"list", "single"} => files'[i].services # <<>>
             /\ files'[i].form = "empty" => files'[i].services = <<>>
  <2>1. CASE i = n
    BY <1>2, <2>1
  <2>2. CASE i # n
    BY <1>2, <2>2 DEF FilesOK
  <2> QED
    BY <2>1, <2>2
<1> QED
  BY <1>2, <1>3 DEF FilesOK

\* What the files name but the changed one.
LEMMA StillNamed ==
  ASSUME TypeOK, NEW n \in 1..Len(files), NEW S,
         ToSet(files[n].services) \subseteq NamedIn(files') \cup S,
         DOMAIN files' = DOMAIN files, DOMAIN files = 1..Len(files),
         \A i \in 1..Len(files) : i # n => files'[i] = files[i]
  PROVE  NamedIn(files) \subseteq NamedIn(files') \cup S
<1> SUFFICES ASSUME NEW g \in ToSet(files), NEW s \in ToSet(g.services)
             PROVE  s \in NamedIn(files') \cup S
  BY DEF NamedIn
<1>1. PICK i \in 1..Len(files) : g = files[i]
  BY DEF ToSet
<1>2. CASE i = n
  BY <1>1, <1>2
<1>3. CASE i # n
  <2>1. files'[i] = g /\ files'[i] \in ToSet(files')
    BY <1>1, <1>3 DEF ToSet
  <2> QED
    BY <2>1 DEF NamedIn
<1> QED
  BY <1>2, <1>3

LEMMA TruncatedIs ==
  /\ Truncated \in ConfigFile /\ Truncated.form = "empty" /\ Truncated.services = <<>>
  /\ [Truncated EXCEPT !.form = "bad"] \in ConfigFile
  /\ [Truncated EXCEPT !.form = "bad"].form = "bad"
<1> DEFINE b == [form |-> "bad", services |-> <<>>, last |-> NoService]
<1>1. NoService \in STRING /\ <<>> \in Seq(STRING)
  BY FilesAssumption
<1>2. [Truncated EXCEPT !.form = "bad"] = b
  BY ONLY DEF Truncated
<1>3. b \in ConfigFile /\ b.form = "bad"
  BY ONLY <1>1 DEF ConfigFile, FileForms
<1> QED
  BY <1>1, <1>2, <1>3 DEF Truncated, ConfigFile, FileForms

\* The start reads the files, and empties the one it took before it writes it.
LEMMA CfgSetupIs ==
  ASSUME TypeOK, FilesOK, FileInv, CfgSetup
  PROVE  /\ files' \in Seq(ConfigFile) /\ cfg' \in CfgType
         /\ FilesOK' /\ FileInv' /\ WriteInv'
         /\ Legible(files) /\ pc' = "write" =>
              NamedIn(files) \subseteq NamedIn(files') \cup ToSet(cfg'.services)
<1> DEFINE a == Active(Loaded)
<1>1. /\ Loaded \in CfgType /\ Loaded.file = Chosen
      /\ Chosen # 0 =>
           /\ Loaded.services # <<>>
           /\ a \in STRING /\ a \in ToSet(Loaded.services)
           /\ Legible(files)
                => ToSet(files[Chosen].services) \subseteq ToSet(Loaded.services)
      /\ files # <<>> /\ files[1].form = "single" => Loaded.services = files[1].services
  BY LoadedIs
<1>2. files \in Seq(ConfigFile)
  BY DEF TypeOK
<1> HIDE DEF a
<1>3. CASE NoFileFits
  <2>1. cfg' = Loaded /\ files' = files /\ pc' = "failed"
    BY <1>3 DEF NoFileFits
  <2> QED
    BY <1>1, <1>2, <2>1 DEF FilesOK, FileInv, WriteInv
<1>4. CASE ConfigRead
  <2>1. /\ Chosen # 0 /\ cfg' = [Loaded EXCEPT !.last = a, !.active = a]
        /\ \/ pc' = "setup" /\ files' = files
           \/ pc' = "write" /\ files' = [files EXCEPT ![Chosen] = Truncated]
    BY <1>4 DEF ConfigRead, a
  <2>2. /\ cfg' \in CfgType /\ cfg'.services = Loaded.services /\ cfg'.file = Chosen
        /\ cfg'.last = a /\ cfg'.active = a
    BY <1>1, <2>1 DEF CfgType
  <2>3. CASE pc' = "setup" /\ files' = files
    BY <1>1, <1>2, <2>2, <2>3 DEF FilesOK, FileInv, WriteInv
  <2>4. CASE pc' = "write" /\ files' = [files EXCEPT ![Chosen] = Truncated]
    <3>1. Chosen \in 1..Len(files)
      BY <2>1, ChosenIs
    <3>2. /\ files' \in Seq(ConfigFile) /\ Len(files') = Len(files) /\ FilesOK'
          /\ files'[Chosen] = Truncated
          /\ \A i \in 1..Len(files) : i # Chosen => files'[i] = files[i]
          /\ DOMAIN files = 1..Len(files) /\ DOMAIN files' = 1..Len(files)
      BY <2>4, <3>1, TruncatedIs, FilePut
    <3>3. FileInv'
      <4> SUFFICES ASSUME files' # <<>>, files'[1].form = "single"
                   PROVE  files'[1].services = cfg'.services
        BY DEF FileInv
      <4>1. CASE Chosen = 1
        BY <3>2, <4>1, TruncatedIs
      <4>2. CASE Chosen # 1
        <5>1. files # <<>> /\ 1 \in 1..Len(files)
          BY <1>2, <3>1
        <5>2. files'[1] = files[1]
          BY <3>2, <4>2, <5>1
        <5> QED
          BY <4>2, <5>1, <5>2, FirstSingle
      <4> QED
        BY <4>1, <4>2
    <3>4. WriteInv'
      BY <1>1, <2>1, <2>2, <3>1, <3>2 DEF WriteInv, Truncated
    <3>5. ASSUME Legible(files)
          PROVE  NamedIn(files) \subseteq NamedIn(files') \cup ToSet(cfg'.services)
      <4>1. ToSet(files[Chosen].services) \subseteq NamedIn(files') \cup ToSet(cfg'.services)
        BY <1>1, <2>1, <2>2, <3>5
      <4> QED
        BY <3>1, <3>2, <4>1, StillNamed
    <3> QED
      BY <2>2, <3>2, <3>3, <3>4, <3>5
  <2> QED
    BY <2>1, <2>3, <2>4
<1> QED
  BY <1>3, <1>4 DEF CfgSetup

LEMMA WrittenIs ==
  ASSUME cfg \in CfgType, cfg.services # <<>>
  PROVE  /\ Written(cfg) \in ConfigFile /\ Written(cfg).form = "list"
         /\ Written(cfg).services = cfg.services /\ Written(cfg).last = cfg.last
         /\ \A w \in Torn(cfg) :
              /\ w \in ConfigFile /\ w.form # "single"
              /\ w.form = "list" => w.services # <<>>
              /\ w.form = "empty" => w.services = <<>>
<1>1. /\ cfg.services \in Seq(STRING) /\ cfg.last \in STRING /\ Len(cfg.services) \in Nat
  BY DEF CfgType
<1>2. /\ Written(cfg) \in ConfigFile /\ Written(cfg).form = "list"
      /\ Written(cfg).services = cfg.services /\ Written(cfg).last = cfg.last
  BY <1>1 DEF Written, ConfigFile, FileForms
<1>3. ASSUME NEW n \in 0..(Len(cfg.services) - 1)
      PROVE  LET w == [form |-> IF n = 0 THEN "empty" ELSE "list",
                       services |-> SubSeq(cfg.services, 1, n), last |-> cfg.last] IN
             /\ w \in ConfigFile /\ w.form # "single"
             /\ w.form = "list" => w.services # <<>>
             /\ w.form = "empty" => w.services = <<>>
  <2> DEFINE t == SubSeq(cfg.services, 1, n)
             q == IF n = 0 THEN "empty" ELSE "list"
  <2>1. t \in Seq(STRING) /\ (n = 0 => t = <<>>) /\ (n # 0 => t # <<>>)
    BY <1>1
  <2>2. q \in FileForms /\ q # "single" /\ (q = "list" => n # 0) /\ (q = "empty" => n = 0)
    BY DEF FileForms
  <2> HIDE DEF t, q
  <2>3. LET w == [form |-> q, services |-> t, last |-> cfg.last] IN
          /\ w \in ConfigFile /\ w.form # "single"
          /\ w.form = "list" => w.services # <<>>
          /\ w.form = "empty" => w.services = <<>>
    BY <1>1, <2>1, <2>2 DEF ConfigFile
  <2> QED
    BY <2>3 DEF t, q
<1> QED
  BY <1>2, <1>3, TruncatedIs DEF Torn

\* A write ends: the file is as it was put together, or was cut off.
LEMMA WriteEndsIs ==
  ASSUME TypeOK, FilesOK, FileInv, WriteInv, CfgWrite \/ CfgWriteFails
  PROVE  /\ files' \in Seq(ConfigFile) /\ FilesOK' /\ FileInv'
         /\ pc = "write" /\ pc' = "setup"
         /\ UNCHANGED <<cfg, todo, cmds, services, mu, waiting, halfway, prompt>>
         /\ CfgWrite =>
              /\ NamedIn(files) \cup ToSet(cfg.services) \subseteq NamedIn(files')
              /\ \E g \in ToSet(files') : g.last = cfg.active /\ g.last \in ToSet(g.services)
<1>1. /\ cfg \in CfgType /\ pc = "write" /\ pc' = "setup"
      /\ UNCHANGED <<cfg, todo, cmds, services, mu, waiting, halfway, prompt>>
      /\ cfg.file \in 1..Len(files) /\ files[cfg.file] = Truncated
      /\ cfg.services # <<>>
      /\ cfg.last = cfg.active /\ cfg.active \in ToSet(cfg.services)
  BY DEF CfgWrite, CfgWriteFails, WriteEnds, TypeOK, WriteInv, CfgType
<1>2. PICK w \in {Written(cfg)} \cup Torn(cfg) :
        /\ files' = [files EXCEPT ![cfg.file] = w]
        /\ CfgWrite => w = Written(cfg)
  <2>1. CASE CfgWrite
    BY <2>1 DEF CfgWrite, WriteEnds
  <2>2. CASE ~ CfgWrite
    BY <2>2 DEF CfgWriteFails, WriteEnds
  <2> QED
    BY <2>1, <2>2
<1>3. /\ w \in ConfigFile /\ w.form # "single"
      /\ w.form = "list" => w.services # <<>>
      /\ w.form = "empty" => w.services = <<>>
  BY <1>1, WrittenIs
<1>4. /\ files' \in Seq(ConfigFile) /\ Len(files') = Len(files) /\ FilesOK'
      /\ files'[cfg.file] = w
      /\ \A i \in 1..Len(files) : i # cfg.file => files'[i] = files[i]
      /\ DOMAIN files = 1..Len(files) /\ DOMAIN files' = 1..Len(files)
  BY <1>1, <1>2, <1>3, FilePut
<1>5. FileInv'
  <2> SUFFICES ASSUME cfg.services # <<>>, files' # <<>>, files'[1].form = "single"
               PROVE  files'[1].services = cfg.services
    BY <1>1 DEF FileInv
  <2>1. 1 \in 1..Len(files) /\ files # <<>>
    BY <1>1, <1>4
  <2>2. files'[1] = files[1]
    BY <1>3, <1>4, <2>1
  <2> QED
    BY <2>1, <2>2 DEF FileInv
<1>6. ASSUME CfgWrite
      PROVE  /\ NamedIn(files) \cup ToSet(cfg.services) \subseteq NamedIn(files')
             /\ \E g \in ToSet(files') : g.last = cfg.active /\ g.last \in ToSet(g.services)
  <2>1. /\ w \in ToSet(files') /\ w.services = cfg.services /\ w.last = cfg.last
    BY <1>1, <1>2, <1>4, <1>6, WrittenIs DEF ToSet
  <2>2. ToSet(cfg.services) \subseteq NamedIn(files')
    BY <2>1 DEF NamedIn
  <2>3. ToSet(files[cfg.file].services) \subseteq NamedIn(files') \cup {}
    BY <1>1, TruncatedIs DEF ToSet
  <2>4. NamedIn(files) \subseteq NamedIn(files') \cup {}
    BY <1>1, <1>4, <2>3, StillNamed
  <2> QED
    BY <1>1, <2>1, <2>2, <2>4
<1> QED
  BY <1>1, <1>4, <1>5, <1>6

-----------------------------------------------------------------------------
\* The frames of the prompts.

LEMMA EmptyStack == IsStack(<<>>)
  BY DEF IsStack

LEMMA SeqOfItself ==
  ASSUME NEW S, NEW s \in Seq(S)
  PROVE  s \in Seq(ToSet(s))
<1>1. \A i \in 1..Len(s) : s[i] \in ToSet(s)
  BY DEF ToSet
<1>2. Len(s) \in Nat /\ s = [i \in 1..Len(s) |-> s[i]]
  OBVIOUS
<1> QED
  BY <1>1, <1>2, IsASeq

\* The first prompt of an object is done: the frame has one field less.
LEMMA StackRest ==
  ASSUME NEW fr, IsStack(fr), fr # <<>>
  PROVE  LET r == <<[Head(fr) EXCEPT !.fields = Tail(@)]>> \o Tail(fr) IN
         /\ IsStack(r) /\ Len(r) = Len(fr) /\ r # <<>>
         /\ r[1] = [path |-> fr[1].path, fields |-> Tail(fr[1].fields)]
         /\ \A i \in 2..Len(fr) : r[i] = fr[i]
<1> DEFINE x == [Head(fr) EXCEPT !.fields = Tail(@)]
           r == <<x>> \o Tail(fr)
           S == ToSet(fr) \cup {x}
<1>1. /\ fr \in Seq(ToSet(fr)) /\ Len(fr) \in Nat \ {0} /\ Head(fr) = fr[1]
      /\ fr[1] = [path |-> fr[1].path, fields |-> fr[1].fields]
  BY DEF IsStack
<1>2. x = [path |-> fr[1].path, fields |-> Tail(fr[1].fields)]
  <2>2. PICK h, p, q, y : /\ h = Head(fr) /\ p = fr[1].path /\ q = fr[1].fields
                          /\ y = Tail(Head(fr).fields)
    OBVIOUS
  <2>3. h = [path |-> p, fields |-> q]
    BY <1>1, <2>2
  <2>4. [h EXCEPT !.fields = y] = [path |-> p, fields |-> y]
    BY ONLY <2>3
  <2>5. y = Tail(q)
    BY <1>1, <2>2
  <2> QED
    BY <2>2, <2>4, <2>5
<1>3. /\ Tail(fr) \in Seq(ToSet(fr)) /\ Len(Tail(fr)) = Len(fr) - 1
      /\ \A i \in 1..(Len(fr) - 1) : Tail(fr)[i] = fr[i + 1]
  BY <1>1
<1> HIDE DEF x
<1>4. /\ r \in Seq(S) /\ Len(r) = Len(fr) /\ r[1] = x
      /\ \A i \in 2..Len(fr) : r[i] = fr[i]
  <2>1. Tail(fr) \in Seq(S) /\ <<x>> \in Seq(S)
    BY <1>3
  <2>2. /\ r \in Seq(S) /\ Len(r) = Len(<<x>>) + Len(Tail(fr))
        /\ \A i \in 1..(Len(<<x>>) + Len(Tail(fr))) :
             r[i] = IF i <= Len(<<x>>) THEN <<x>>[i] ELSE Tail(fr)[i - Len(<<x>>)]
    <3> HIDE DEF S
    <3> QED
      BY <2>1, ConcatProperties, Zenon
  <2>3. Len(<<x>>) = 1 /\ <<x>>[1] = x
    OBVIOUS
  <2> HIDE DEF r, S
  <2>4. Len(r) = Len(fr)
    BY <1>1, <1>3, <2>2, <2>3
  <2>5. r[1] = x
    BY <1>1, <1>3, <2>2, <2>3
  <2>6. ASSUME NEW i \in 2..Len(fr) PROVE r[i] = fr[i]
    <3>1. r[i] = Tail(fr)[i - 1] /\ i - 1 \in 1..(Len(fr) - 1)
      BY <1>1, <1>3, <2>2, <2>3
    <3>2. Tail(fr)[i - 1] = fr[(i - 1) + 1] /\ (i - 1) + 1 = i
      BY <1>3, <3>1
    <3> QED
      BY <3>1, <3>2
  <2> QED
    BY <2>2, <2>4, <2>5, <2>6
<1> HIDE DEF r, S
<1>5. r \in Seq(ToSet(r))
  BY <1>4, SeqOfItself
<1>6. ASSUME NEW i \in 1..Len(r)
      PROVE  /\ r[i] = [path |-> r[i].path, fields |-> r[i].fields]
             /\ r[i].path \in Seq(ToSet(r[i].path))
             /\ Len(r[i].path) = Len(r) - i
  <2>1. CASE i = 1
    <3>1. r[1].path = fr[1].path /\ r[1].fields = Tail(fr[1].fields)
          /\ r[1] = [path |-> r[1].path, fields |-> r[1].fields]
      BY <1>2, <1>4
    <3>2. fr[1].path \in Seq(ToSet(fr[1].path)) /\ Len(fr[1].path) = Len(fr) - 1
      BY <1>1 DEF IsStack
    <3> QED
      BY <1>4, <2>1, <3>1, <3>2
  <2>2. CASE i # 1
    <3>1. i \in 2..Len(fr) /\ i \in 1..Len(fr) /\ r[i] = fr[i]
      BY <1>1, <1>4, <2>2
    <3> QED
      BY <1>4, <3>1 DEF IsStack
  <2> QED
    BY <2>1, <2>2
<1>7. IsStack(r)
  BY <1>5, <1>6 DEF IsStack
<1>8. r # <<>>
  BY <1>1, <1>4
<1> QED
  BY <1>2, <1>4, <1>7, <1>8 DEF r, x

\* An object is gone into.
LEMMA StackPush ==
  ASSUME NEW fr, IsStack(fr), fr # <<>>, NEW p, NEW q,
         p \in Seq(ToSet(p)), Len(p) = Len(fr)
  PROVE  LET r == <<[path |-> p, fields |-> q]>> \o fr IN
         /\ IsStack(r) /\ Len(r) = Len(fr) + 1 /\ r # <<>>
         /\ r[1] = [path |-> p, fields |-> q]
         /\ \A i \in 1..Len(fr) : r[i + 1] = fr[i]
<1> DEFINE x == [path |-> p, fields |-> q]
           r == <<x>> \o fr
           S == ToSet(fr) \cup {x}
<1>1. fr \in Seq(ToSet(fr)) /\ Len(fr) \in Nat
  BY DEF IsStack
<1> HIDE DEF x
<1>4. /\ r \in Seq(S) /\ Len(r) = Len(fr) + 1 /\ r[1] = x
      /\ \A i \in 1..Len(fr) : r[i + 1] = fr[i]
  <2>1. fr \in Seq(S) /\ <<x>> \in Seq(S)
    BY <1>1
  <2>2. /\ r \in Seq(S) /\ Len(r) = Len(<<x>>) + Len(fr)
        /\ \A i \in 1..(Len(<<x>>) + Len(fr)) :
             r[i] = IF i <= Len(<<x>>) THEN <<x>>[i] ELSE fr[i - Len(<<x>>)]
    <3> HIDE DEF S
    <3> QED
      BY <2>1, ConcatProperties, Zenon
  <2>3. Len(<<x>>) = 1 /\ <<x>>[1] = x
    OBVIOUS
  <2> HIDE DEF r, S
  <2>4. Len(r) = Len(fr) + 1 /\ r[1] = x
    BY <1>1, <2>2, <2>3
  <2>5. ASSUME NEW i \in 1..Len(fr) PROVE r[i + 1] = fr[i]
    <3>1. i + 1 \in 1..(1 + Len(fr)) /\ ~ (i + 1 <= 1) /\ (i + 1) - 1 = i
      BY <1>1
    <3> QED
      BY <2>2, <2>3, <3>1
  <2> QED
    BY <2>2, <2>4, <2>5
<1> HIDE DEF r, S
<1>5. r \in Seq(ToSet(r))
  BY <1>4, SeqOfItself
<1>6. ASSUME NEW i \in 1..Len(r)
      PROVE  /\ r[i] = [path |-> r[i].path, fields |-> r[i].fields]
             /\ r[i].path \in Seq(ToSet(r[i].path))
             /\ Len(r[i].path) = Len(r) - i
  <2>1. CASE i = 1
    <3>1. r[1].path = p /\ r[1].fields = q
      BY <1>4 DEF x
    <3> QED
      BY <1>1, <1>4, <2>1, <3>1 DEF x
  <2>2. CASE i # 1
    <3>1. i - 1 \in 1..Len(fr) /\ (i - 1) + 1 = i
      BY <1>1, <1>4, <2>2
    <3>2. r[i] = fr[i - 1]
      BY <1>4, <3>1
    <3>3. Len(r) - i = Len(fr) - (i - 1)
      BY <1>1, <1>4
    <3> QED
      BY <3>1, <3>2, <3>3 DEF IsStack
  <2> QED
    BY <2>1, <2>2
<1>7. IsStack(r)
  BY <1>5, <1>6 DEF IsStack
<1>8. r # <<>>
  BY <1>1, <1>4
<1> QED
  BY <1>4, <1>7, <1>8 DEF r, x

\* An object is left.
LEMMA StackPop ==
  ASSUME NEW fr, IsStack(fr), Len(fr) > 1
  PROVE  /\ IsStack(Tail(fr)) /\ Len(Tail(fr)) = Len(fr) - 1 /\ Tail(fr) # <<>>
         /\ \A i \in 1..(Len(fr) - 1) : Tail(fr)[i] = fr[i + 1]
<1>1. fr \in Seq(ToSet(fr)) /\ Len(fr) \in Nat
  BY DEF IsStack
<1>2. /\ Tail(fr) \in Seq(ToSet(fr)) /\ Len(Tail(fr)) = Len(fr) - 1 /\ Tail(fr) # <<>>
      /\ \A i \in 1..(Len(fr) - 1) : Tail(fr)[i] = fr[i + 1]
  <2>1. fr # <<>>
    BY <1>1
  <2>2. /\ Tail(fr) \in Seq(ToSet(fr)) /\ Len(Tail(fr)) = Len(fr) - 1
        /\ \A i \in 1..(Len(fr) - 1) : Tail(fr)[i] = fr[i + 1]
    BY <1>1, <2>1
  <2>3. Len(Tail(fr)) # Len(<<>>)
    BY <1>1, <2>2
  <2> QED
    BY <2>2, <2>3, Zenon
<1>3. Tail(fr) \in Seq(ToSet(Tail(fr)))
  BY <1>2, SeqOfItself
<1>4. ASSUME NEW i \in 1..Len(Tail(fr))
      PROVE  /\ Tail(fr)[i] = [path |-> Tail(fr)[i].path, fields |-> Tail(fr)[i].fields]
             /\ Tail(fr)[i].path \in Seq(ToSet(Tail(fr)[i].path))
             /\ Len(Tail(fr)[i].path) = Len(Tail(fr)) - i
  <2>1. i + 1 \in 1..Len(fr) /\ Tail(fr)[i] = fr[i + 1]
        /\ Len(fr) - (i + 1) = Len(Tail(fr)) - i
    BY <1>1, <1>2
  <2> QED
    BY <2>1 DEF IsStack
<1> QED
  BY <1>2, <1>3, <1>4 DEF IsStack

-----------------------------------------------------------------------------
\* The steps of the start.

IInv ==
  /\ TypeOK /\ FilesOK /\ FileInv /\ CommandInv /\ ServiceInv
  /\ IsStack(frames) /\ IsRequest(request) /\ ExecInv /\ ShortestPathRuns

LEMMA InitIInv == Init => IInv
<1> SUFFICES ASSUME Init PROVE IInv
  OBVIOUS
<1>1. files \in Seq(ConfigFile) /\ FilesOK
  BY FilesAssumption DEF Init, FilesOK
<1>2. HelpCommand \in Commands /\ HelpCommand.kind = "help"
  BY DEF Commands, HelpCommand
<1>3. TypeOK
  <2>1. cfg \in CfgType
    BY FilesAssumption DEF Init, NoCfg, CfgType
  <2>2. cmds \in Seq(Commands) /\ services \in Seq(ServiceCommands)
        /\ todo \in Seq(AllServices)
    BY <1>2 DEF Init
  <2>3. /\ pc = "down" /\ mu = "free" /\ frames = <<>> /\ halfway = FALSE
        /\ waiting = {} /\ line = NoLine
    BY DEF Init
  <2> QED
    BY <1>1, <2>1, <2>2, <2>3 DEF TypeOK, CfgType
<1>4. FileInv /\ ExecInv /\ ShortestPathRuns
  BY DEF Init, NoCfg, FileInv, ExecInv, ShortestPathRuns
<1>5. CommandInv
  <2>1. cmds = <<HelpCommand>> /\ services = <<>>
    BY DEF Init
  <2>2. ToSet(cmds) = {HelpCommand} /\ ToSet(services) = {}
    BY <2>1 DEF ToSet
  <2>3. SortedByPath(cmds)
    BY <2>1 DEF SortedByPath
  <2> QED
    BY <1>2, <2>2, <2>3 DEF CommandInv
<1>6. ServiceInv
  <2>1. services = <<>> /\ ~halfway /\ pc = "down"
    BY DEF Init
  <2>2. Paths = {} /\ {CommandName(srv) : srv \in ToSet(<<>>)} = {}
    BY <2>1 DEF Paths, ToSet
  <2> QED
    BY <2>1, <2>2 DEF ServiceInv
<1>7. IsStack(frames) /\ IsRequest(request)
  BY EmptyStack DEF Init, IsRequest, NoRequest
<1> QED
  BY <1>1, <1>3, <1>4, <1>5, <1>6, <1>7 DEF IInv

LEMMA CommandsKept ==
  ASSUME CommandInv, UNCHANGED <<cmds, services>>
  PROVE  CommandInv'
  BY DEF CommandInv, SortedByPath, ToSet

LEMMA ServicesKept ==
  ASSUME ServiceInv, UNCHANGED <<services, todo, halfway>>,
         pc = "register" <=> pc' = "register"
  PROVE  ServiceInv'
<1>1. Paths' = Paths
  BY DEF Paths
<1> QED
  BY <1>1 DEF ServiceInv

\* A step between two places of the start.
LEMMA MovesIInv ==
  ASSUME IInv, UNCHANGED <<files, cfg, services, cmds, halfway, mu, waiting, prompt>>,
         todo' \in Seq(AllServices), ServiceInv',
         {pc, pc'} \subseteq {"down", "failed", "setup", "register", "hooks", "line",
                             "invoke", "closed", "crashed"}
  PROVE  IInv'
<1>1. TypeOK'
  BY DEF IInv, TypeOK, prompt
<1>2. FilesOK' /\ FileInv' /\ CommandInv'
  BY CommandsKept DEF IInv, FilesOK, FileInv
<1>3. mu' = "free"
  BY DEF IInv, TypeOK
<1>4. ExecInv' /\ ShortestPathRuns'
  BY <1>3 DEF ExecInv, ShortestPathRuns
<1> QED
  BY <1>1, <1>2, <1>4 DEF IInv, prompt

LEMMA CfgSetupIInv ==
  ASSUME IInv, CfgSetup
  PROVE  IInv'
<1>1. files' \in Seq(ConfigFile) /\ FilesOK' /\ FileInv' /\ cfg' \in CfgType
  BY CfgSetupIs DEF IInv
<1>2. /\ UNCHANGED <<todo, cmds, services, mu, waiting, halfway, prompt>>
      /\ pc \in {"down", "failed", "closed"} /\ pc' \in {"failed", "setup", "write"}
  BY DEF CfgSetup, NoFileFits, ConfigRead
<1>3. TypeOK'
  BY <1>1, <1>2 DEF IInv, TypeOK, CfgType, prompt
<1>4. CommandInv' /\ ServiceInv'
  BY <1>2, CommandsKept, ServicesKept DEF IInv
<1>5. ExecInv' /\ ShortestPathRuns'
  BY <1>2, <1>3 DEF TypeOK, ExecInv, ShortestPathRuns
<1> QED
  BY <1>1, <1>2, <1>3, <1>4, <1>5 DEF IInv, prompt

LEMMA WriteEndsIInv ==
  ASSUME IInv, WriteInv, CfgWrite \/ CfgWriteFails
  PROVE  IInv'
<1>1. /\ files' \in Seq(ConfigFile) /\ FilesOK' /\ FileInv'
      /\ pc = "write" /\ pc' = "setup"
      /\ UNCHANGED <<cfg, todo, cmds, services, mu, waiting, halfway, prompt>>
  BY WriteEndsIs DEF IInv
<1>2. TypeOK'
  BY <1>1 DEF IInv, TypeOK, prompt
<1>3. CommandInv' /\ ServiceInv'
  BY <1>1, CommandsKept, ServicesKept DEF IInv
<1>4. ExecInv' /\ ShortestPathRuns'
  BY <1>1, <1>2 DEF TypeOK, ExecInv, ShortestPathRuns
<1> QED
  BY <1>1, <1>2, <1>3, <1>4 DEF IInv, prompt

LEMMA ApiListIInv ==
  ASSUME IInv,
         ApiListKnown \/ ApiListFails \/ \E list \in ApiLists : ApiListAnswers(list)
  PROVE  IInv'
<1>1. CASE ApiListKnown \/ ApiListFails
  <2>1. /\ UNCHANGED <<files, cfg, services, cmds, todo, halfway, mu, waiting, prompt>>
        /\ pc = "setup" /\ pc' \in {"hooks", "failed"}
    BY <1>1 DEF ApiListKnown, ApiListFails
  <2>2. ServiceInv'
    BY <2>1, ServicesKept DEF IInv
  <2> QED
    BY <2>1, <2>2, MovesIInv DEF IInv, TypeOK
<1>2. ASSUME NEW list \in ApiLists, ApiListAnswers(list)
      PROVE  IInv'
  <2>1. /\ UNCHANGED <<files, cfg, services, cmds, halfway, mu, waiting, prompt>>
        /\ pc = "setup" /\ services = <<>> /\ pc' = "register" /\ todo' = list
        /\ list \in Seq(AllServices)
    BY <1>2, TextAssumption DEF ApiListAnswers
  <2>2. ServiceInv'
    <3>1. Paths' = {} /\ ~halfway'
      BY <2>1 DEF Paths, ToSet, IInv, ServiceInv
    <3>2. todo' = SubSeq(list, 0 + 1, Len(list)) /\ 0 \in 0..Len(list)
      BY <2>1
    <3>3. {CommandName(list[i]) : i \in 1..0} = {}
      OBVIOUS
    <3>4. \E l \in ApiLists : \E d \in 0..Len(l) :
            /\ todo' = SubSeq(l, d + 1, Len(l))
            /\ Paths' = {CommandName(l[i]) : i \in 1..d}
      BY <3>1, <3>2, <3>3
    <3>5. services' = <<>> /\ Len(services') = 0 /\ pc' = "register"
      BY <2>1
    <3>6. \A i, j \in 1..Len(services') : services'[i].path = services'[j].path => i = j
      BY <3>5
    <3> QED
      BY <3>1, <3>4, <3>5, <3>6, Zenon DEF ServiceInv
  <2> QED
    BY <2>1, <2>2, MovesIInv
<1> QED
  BY <1>1, <1>2

LEMMA MgrSetupFailsIInv ==
  ASSUME IInv, MgrSetupFails
  PROVE  IInv'
<1>1. /\ UNCHANGED <<files, cfg, services, cmds, mu, waiting, prompt>>
      /\ pc = "register" /\ pc' = "failed" /\ todo' = <<>>
      /\ halfway' = (services # <<>>)
  BY DEF MgrSetupFails
<1>2. ServiceInv'
  <2>1. services = <<>> => Paths' = {} /\ {CommandName(srv) : srv \in ToSet(<<>>)} = {}
    BY <1>1 DEF Paths, ToSet
  <2> QED
    BY <1>1, <2>1 DEF IInv, ServiceInv
<1>3. TypeOK'
  BY <1>1 DEF IInv, TypeOK, prompt
<1>4. CommandInv' /\ FilesOK' /\ FileInv'
  BY <1>1, CommandsKept DEF IInv, FilesOK, FileInv
<1>5. ExecInv' /\ ShortestPathRuns'
  BY <1>1, <1>3 DEF TypeOK, ExecInv, ShortestPathRuns
<1> QED
  BY <1>1, <1>2, <1>3, <1>4, <1>5 DEF IInv, prompt

LEMMA MgrSetupEndsIInv ==
  ASSUME IInv, MgrSetupEnds
  PROVE  IInv'
<1>1. /\ UNCHANGED <<files, cfg, services, cmds, todo, halfway, mu, waiting, prompt>>
      /\ pc = "register" /\ pc' = "hooks" /\ todo = <<>>
  BY DEF MgrSetupEnds
<1>2. ServiceInv'
  <2>1. PICK list \in ApiLists : \E d \in 0..Len(list) :
          /\ todo = SubSeq(list, d + 1, Len(list))
          /\ Paths = {CommandName(list[i]) : i \in 1..d}
    BY <1>1 DEF IInv, ServiceInv
  <2>2. PICK d \in 0..Len(list) :
          /\ todo = SubSeq(list, d + 1, Len(list))
          /\ Paths = {CommandName(list[i]) : i \in 1..d}
    BY <2>1
  <2>3. list \in Seq(AllServices)
    BY TextAssumption
  <2>4. d = Len(list)
    BY <1>1, <2>2, <2>3, RestIs
  <2>5. ToSet(list) = {list[i] : i \in 1..d}
    BY <2>3, <2>4 DEF ToSet
  <2>6. Paths' = {CommandName(srv) : srv \in ToSet(list)}
    BY <1>1, <2>2, <2>5 DEF Paths
  <2> QED
    BY <1>1, <2>6 DEF IInv, ServiceInv
<1> QED
  BY <1>1, <1>2, MovesIInv DEF IInv, TypeOK

\* A command is put into the table, by the start or by another goroutine, while
\* no command runs.
LEMMA InsertCommandInv ==
  ASSUME IInv, NEW c \in Commands, cmds' = Insert(c),
         \/ UNCHANGED services /\ c.kind # "mgr"
         \/ services' = Append(services, c) /\ c \in ServiceCommands
  PROVE  cmds' \in Seq(Commands) /\ CommandInv'
<1>1. /\ Insert(c) \in Seq(Commands)
      /\ SortedByPath(Insert(c))
      /\ ToSet(cmds) \subseteq ToSet(Insert(c))
      /\ ToSet(Insert(c)) \subseteq ToSet(cmds) \cup {c}
      /\ \E d \in ToSet(Insert(c)) : d.path = c.path
  BY InsertSorts DEF IInv, TypeOK, CommandInv
<1>2. /\ SortedByPath(cmds')
      /\ ToSet(cmds) \subseteq ToSet(cmds')
      /\ ToSet(cmds') \subseteq ToSet(cmds) \cup {c}
      /\ \E d \in ToSet(cmds') : d.path = c.path
  BY <1>1
<1>3. /\ ToSet(services) \subseteq ToSet(services')
      /\ ToSet(services') \subseteq ToSet(services) \cup {c}
      /\ c.kind = "mgr" => c \in ToSet(services')
      /\ c \notin ToSet(services') => ToSet(services') \subseteq ToSet(services)
  <2>1. CASE UNCHANGED services /\ c.kind # "mgr"
    BY <2>1
  <2>2. CASE services' = Append(services, c)
    <3>1. services \in Seq(Commands)
      BY DEF IInv, TypeOK, Commands
    <3>2. /\ services' \in Seq(Commands) /\ Len(services') = Len(services) + 1
          /\ \A i \in 1..Len(services) : services'[i] = services[i]
          /\ services'[Len(services) + 1] = c
      BY <2>2, <3>1, AppendIs
    <3> QED
      BY <3>1, <3>2 DEF ToSet
  <2> QED
    BY <2>1, <2>2
<1>4. \A s \in ToSet(services') : \E d \in ToSet(cmds') : d.path = s.path
  BY <1>2, <1>3 DEF IInv, CommandInv
<1>5. \A d \in ToSet(cmds') : d.kind = "mgr" => d \in ToSet(services')
  BY <1>2, <1>3 DEF IInv, CommandInv
<1> QED
  BY <1>1, <1>2, <1>4, <1>5 DEF CommandInv

LEMMA MgrRegisterIInv ==
  ASSUME IInv, MgrRegister
  PROVE  IInv'
<1> DEFINE srv == Head(todo)
           ms  == ServiceCommand(srv)
<1>1. /\ UNCHANGED <<files, cfg, pc, mu, waiting, halfway, prompt>>
      /\ pc = "register" /\ todo # <<>> /\ todo' = Tail(todo)
      /\ \/ ms.path \in Paths /\ UNCHANGED <<cmds, services>>
         \/ /\ ms.path \notin Paths
            /\ services' = Append(services, ms) /\ cmds' = Insert(ms)
  BY DEF MgrRegister, Paths
<1>2. /\ todo \in Seq(AllServices) /\ srv \in AllServices /\ Tail(todo) \in Seq(AllServices)
      /\ services \in Seq(ServiceCommands) /\ cmds \in Seq(Commands)
  BY <1>1 DEF IInv, TypeOK
<1>3. ms \in ServiceCommands /\ ms \in Commands /\ ms.path = CommandName(srv)
  BY <1>2 DEF ServiceCommands, Commands, ServiceCommand
<1>4. PICK list \in ApiLists : \E d \in 0..Len(list) :
        /\ todo = SubSeq(list, d + 1, Len(list))
        /\ Paths = {CommandName(list[i]) : i \in 1..d}
  BY <1>1 DEF IInv, ServiceInv
<1>5. PICK d \in 0..Len(list) :
        /\ todo = SubSeq(list, d + 1, Len(list))
        /\ Paths = {CommandName(list[i]) : i \in 1..d}
  BY <1>4
<1>6. list \in Seq(AllServices)
  BY TextAssumption
<1>7. /\ d + 1 \in 1..Len(list) /\ srv = list[d + 1]
      /\ Tail(todo) = SubSeq(list, (d + 1) + 1, Len(list))
  BY <1>1, <1>5, <1>6, RestIs
<1> HIDE DEF ms, srv
<1>8. {CommandName(list[i]) : i \in 1..(d + 1)} = Paths \cup {ms.path}
  <2>1. 1..(d + 1) = 1..d \cup {d + 1}
    BY <1>7
  <2> QED
    BY <1>3, <1>5, <1>7, <2>1
<1>9. CASE ms.path \in Paths /\ UNCHANGED <<cmds, services>>
  <2>1. Paths' = Paths
    BY <1>9 DEF Paths
  <2>2. /\ d + 1 \in 0..Len(list)
        /\ todo' = SubSeq(list, (d + 1) + 1, Len(list))
        /\ Paths' = {CommandName(list[i]) : i \in 1..(d + 1)}
    <3>1. Paths \cup {ms.path} = Paths
      BY <1>9
    <3> QED
      BY <1>1, <1>7, <1>8, <2>1, <3>1
  <2>3. ServiceInv'
    BY <1>1, <1>9, <2>2 DEF IInv, ServiceInv
  <2> QED
    BY <1>1, <1>2, <1>9, <2>3, MovesIInv
<1>10. CASE /\ ms.path \notin Paths
            /\ services' = Append(services, ms) /\ cmds' = Insert(ms)
  <2>1. /\ services' \in Seq(ServiceCommands) /\ Len(services') = Len(services) + 1
        /\ \A i \in 1..Len(services) : services'[i] = services[i]
        /\ services'[Len(services) + 1] = ms
    BY <1>2, <1>3, <1>10, AppendIs
  <2>2. /\ Len(services) \in Nat /\ DOMAIN services = 1..Len(services)
        /\ DOMAIN services' = 1..Len(services')
    BY <1>2, <2>1
  <2>3. Paths' = Paths \cup {ms.path}
    <3>1. ToSet(services') = ToSet(services) \cup {ms}
      BY <2>1, <2>2 DEF ToSet
    <3> QED
      BY <3>1 DEF Paths
  <2>4. \A i, j \in 1..Len(services') : services'[i].path = services'[j].path => i = j
    <3>1. \A i \in 1..Len(services) : services[i].path # ms.path
      BY <1>10, <2>2 DEF Paths, ToSet
    <3>2. \A i, j \in 1..Len(services) : services[i].path = services[j].path => i = j
      BY DEF IInv, ServiceInv
    <3> QED
      BY <2>1, <2>2, <3>1, <3>2
  <2>5. ServiceInv'
    <3>1. Paths' = {CommandName(list[i]) : i \in 1..(d + 1)} /\ d + 1 \in 0..Len(list)
      BY <1>7, <1>8, <2>3
    <3>2. pc' = "register" /\ ~halfway'
      BY <1>1 DEF IInv, ServiceInv
    <3> QED
      BY <1>1, <1>7, <2>4, <3>1, <3>2 DEF ServiceInv
  <2>6. cmds' \in Seq(Commands) /\ CommandInv'
    BY <1>3, <1>10, InsertCommandInv
  <2>7. TypeOK'
    BY <1>1, <1>2, <2>1, <2>6 DEF IInv, TypeOK, prompt
  <2>8. FilesOK' /\ FileInv' /\ ExecInv' /\ ShortestPathRuns'
    BY <1>1, <2>7 DEF IInv, FilesOK, FileInv, TypeOK, ExecInv, ShortestPathRuns
  <2> QED
    BY <1>1, <2>5, <2>6, <2>7, <2>8 DEF IInv, prompt
<1> QED
  BY <1>1, <1>9, <1>10

LEMMA RegisterIInv ==
  ASSUME IInv, NEW c \in Custom, Register(c)
  PROVE  IInv'
<1>1. /\ UNCHANGED <<files, cfg, pc, todo, cmds, services, mu, halfway, prompt>>
      /\ waiting' = waiting \cup {c}
  BY DEF Register
<1>2. TypeOK'
  BY <1>1 DEF IInv, TypeOK, prompt
<1>3. CommandInv' /\ ServiceInv'
  BY <1>1, CommandsKept, ServicesKept DEF IInv
<1>4. FilesOK' /\ FileInv' /\ ExecInv' /\ ShortestPathRuns'
  BY <1>1 DEF IInv, FilesOK, FileInv, ExecInv, ShortestPathRuns, prompt
<1> QED
  BY <1>1, <1>2, <1>3, <1>4 DEF IInv, prompt

LEMMA RegisterCommonCommandIInv ==
  ASSUME IInv, NEW c \in Custom, RegisterCommonCommand(c)
  PROVE  IInv'
<1>1. /\ UNCHANGED <<files, cfg, pc, todo, services, mu, halfway, prompt>>
      /\ waiting' = waiting \ {c} /\ mu = "free"
      /\ cmds' = Insert(CustomCommand(c))
  BY DEF RegisterCommonCommand
<1>2. CustomCommand(c) \in Commands /\ CustomCommand(c).kind = "custom"
  BY DEF Commands, CustomCommand
<1>3. cmds' \in Seq(Commands) /\ CommandInv'
  BY <1>1, <1>2, InsertCommandInv
<1>4. TypeOK'
  BY <1>1, <1>3 DEF IInv, TypeOK, prompt
<1>5. ServiceInv'
  BY <1>1, ServicesKept DEF IInv
<1>6. FilesOK' /\ FileInv' /\ ExecInv' /\ ShortestPathRuns'
  BY <1>1 DEF IInv, FilesOK, FileInv, ExecInv, ShortestPathRuns, prompt
<1> QED
  BY <1>1, <1>3, <1>4, <1>5, <1>6 DEF IInv, prompt

LEMMA SetupFuncsIInv ==
  ASSUME IInv, SetupFuncs
  PROVE  IInv'
<1>1. /\ UNCHANGED <<files, cfg, services, cmds, todo, halfway, mu, waiting, prompt>>
      /\ pc = "hooks" /\ pc' \in {"line", "failed"}
  BY DEF SetupFuncs
<1>2. ServiceInv'
  BY <1>1, ServicesKept DEF IInv
<1> QED
  BY <1>1, <1>2, MovesIInv DEF IInv, TypeOK

LEMMA RestartIInv ==
  ASSUME IInv, Restart
  PROVE  IInv'
<1>1. /\ files' = files /\ cfg' = NoCfg /\ pc' = "down" /\ todo' = <<>> /\ halfway' = FALSE
      /\ cmds' = <<HelpCommand>> /\ services' = <<>> /\ mu' = "free" /\ waiting' = {}
      /\ line' = NoLine /\ frames' = <<>> /\ request' = NoRequest
  BY DEF Restart
<1>2. HelpCommand \in Commands /\ HelpCommand.kind = "help"
  BY DEF Commands, HelpCommand
<1>3. TypeOK'
  <2>1. cfg' \in CfgType
    BY <1>1, FilesAssumption DEF NoCfg, CfgType
  <2>2. cmds' \in Seq(Commands) /\ services' \in Seq(ServiceCommands)
        /\ todo' \in Seq(AllServices)
    BY <1>1, <1>2
  <2> QED
    BY <1>1, <2>1, <2>2 DEF IInv, TypeOK, CfgType
<1>4. FilesOK' /\ FileInv' /\ ExecInv' /\ ShortestPathRuns'
  BY <1>1 DEF IInv, NoCfg, FilesOK, FileInv, ExecInv, ShortestPathRuns
<1>5. CommandInv'
  <2>1. ToSet(cmds') = {HelpCommand} /\ ToSet(services') = {}
    BY <1>1 DEF ToSet
  <2>2. SortedByPath(cmds')
    BY <1>1 DEF SortedByPath
  <2> QED
    BY <1>2, <2>1, <2>2 DEF CommandInv
<1>6. ServiceInv'
  <2>1. Paths' = {} /\ {CommandName(srv) : srv \in ToSet(<<>>)} = {}
    BY <1>1 DEF Paths, ToSet
  <2> QED
    BY <1>1, <2>1 DEF ServiceInv
<1>7. IsStack(frames') /\ IsRequest(request')
  BY <1>1, EmptyStack DEF IsRequest, NoRequest
<1> QED
  BY <1>3, <1>4, <1>5, <1>6, <1>7 DEF IInv

-----------------------------------------------------------------------------
\* The steps of a line.

LEMMA ReadLineIInv ==
  ASSUME IInv, NEW l \in Lines, ReadLine(l)
  PROVE  IInv'
<1>1. /\ UNCHANGED <<files, cfg, todo, cmds, services, mu, waiting, halfway, frames, request>>
      /\ pc = "line" /\ pc' = "invoke" /\ line' = l
  BY DEF ReadLine
<1>2. TypeOK'
  BY <1>1 DEF IInv, TypeOK
<1>3. CommandInv' /\ ServiceInv'
  BY <1>1, CommandsKept, ServicesKept DEF IInv
<1>4. FilesOK' /\ FileInv' /\ ExecInv' /\ ShortestPathRuns'
  BY <1>1 DEF IInv, FilesOK, FileInv, TypeOK, ExecInv, ShortestPathRuns
<1> QED
  BY <1>1, <1>2, <1>3, <1>4 DEF IInv

\* ^C on an empty line, and the crash.
LEMMA LoopEndsIInv ==
  ASSUME IInv, Interrupt \/ FlagParsePanics
  PROVE  IInv'
<1>1. /\ UNCHANGED <<files, cfg, services, cmds, todo, halfway, mu, waiting, prompt>>
      /\ pc \in {"line", "invoke"} /\ pc' \in {"closed", "crashed"}
  BY DEF Interrupt, FlagParsePanics, Invoking
<1>2. ServiceInv'
  BY <1>1, ServicesKept DEF IInv
<1> QED
  BY <1>1, <1>2, MovesIInv DEF IInv, TypeOK

\* A line that is answered leaves the mutex free.
LEMMA AnsweredIInv ==
  ASSUME IInv, NEW a, Answered(a), mu' = "free", pc # "register"
  PROVE  IInv'
<1>1. /\ UNCHANGED <<files, cfg, todo, cmds, services, waiting, halfway>>
      /\ pc' = "line" /\ line' = NoLine /\ frames' = <<>> /\ request' = NoRequest
  BY DEF Answered
<1>2. TypeOK'
  BY <1>1 DEF IInv, TypeOK
<1>3. CommandInv' /\ ServiceInv'
  BY <1>1, CommandsKept, ServicesKept DEF IInv
<1>4. FilesOK' /\ FileInv' /\ ExecInv' /\ ShortestPathRuns'
  BY <1>1 DEF IInv, FilesOK, FileInv, ExecInv, ShortestPathRuns
<1>5. IsStack(frames') /\ IsRequest(request')
  BY <1>1, EmptyStack DEF IsRequest, NoRequest
<1> QED
  BY <1>2, <1>3, <1>4, <1>5 DEF IInv

\* The first command a line begins with has the shortest path of all of them.
LEMMA FirstIsShortest ==
  ASSUME TypeOK, CommandInv, NEW n \in DOMAIN cmds, Matches(n)
  PROVE  /\ cmds[n] \in ToSet(cmds)
         /\ IsPrefix(cmds[n].path, line.path)
         /\ \A d \in ToSet(cmds) :
              IsPrefix(d.path, line.path) => IsPrefix(cmds[n].path, d.path)
<1>1. cmds \in Seq(Commands) /\ n \in 1..Len(cmds) /\ DOMAIN cmds = 1..Len(cmds)
  BY DEF TypeOK
<1>2. line.path \in Seq(Nat)
  <2>1. CASE line = NoLine
    <3>1. line.path = <<>>
      BY <2>1 DEF NoLine
    <3> QED
      BY <3>1
  <2>2. CASE line \in Lines
    BY <2>2, TextAssumption
  <2> QED
    BY <2>1, <2>2 DEF TypeOK
<1>3. \A i \in 1..Len(cmds) : cmds[i].path \in Seq(Nat)
  BY <1>1, CommandIs
<1>4. /\ IsPrefix(cmds[n].path, line.path)
      /\ \A k \in 1..(n - 1) : ~IsPrefix(cmds[k].path, line.path)
  BY DEF Matches
<1>5. ASSUME NEW j \in 1..Len(cmds), IsPrefix(cmds[j].path, line.path)
      PROVE  IsPrefix(cmds[n].path, cmds[j].path)
  <2>1. ~ (j < n)
    BY <1>1, <1>4, <1>5
  <2>2. CASE j = n
    BY <1>1, <1>3, <2>2, PrefixIs
  <2>3. CASE n < j
    <3>1. Before(cmds[n].path, cmds[j].path)
      BY <1>1, <2>3 DEF CommandInv, SortedByPath
    <3>2. cmds[n].path \in Seq(Nat) /\ cmds[j].path \in Seq(Nat)
      BY <1>1, <1>3
    <3> QED
      BY <1>2, <1>4, <1>5, <3>1, <3>2, BeforeOnLine
  <2> QED
    BY <1>1, <2>1, <2>2, <2>3
<1>6. \A d \in ToSet(cmds) :
        IsPrefix(d.path, line.path) => IsPrefix(cmds[n].path, d.path)
  <2> SUFFICES ASSUME NEW d \in ToSet(cmds), IsPrefix(d.path, line.path)
               PROVE  IsPrefix(cmds[n].path, d.path)
    OBVIOUS
  <2>1. PICK j \in 1..Len(cmds) : d = cmds[j]
    BY <1>1 DEF ToSet
  <2> QED
    BY <1>5, <2>1
<1> QED
  BY <1>1, <1>4, <1>6 DEF ToSet

LEMMA CustomActionIInv ==
  ASSUME IInv, NEW n \in DOMAIN cmds, CustomAction(n)
  PROVE  IInv'
<1>1. /\ pc = "invoke" /\ mu = "free" /\ Matches(n) /\ cmds[n].kind = "custom"
  BY DEF CustomAction, Runs, Invoking
<1>2. CASE cmds[n].runs.registers
  <2>1. /\ UNCHANGED <<files, cfg, todo, cmds, services, waiting, halfway, prompt>>
        /\ pc' = "stuck" /\ mu' = "cli"
    BY <1>2 DEF CustomAction
  <2>2. TypeOK'
    BY <1>1, <2>1 DEF IInv, TypeOK, prompt
  <2>3. CommandInv' /\ ServiceInv'
    BY <1>1, <2>1, CommandsKept, ServicesKept DEF IInv
  <2>4. FilesOK' /\ FileInv' /\ ExecInv'
    BY <2>1 DEF IInv, FilesOK, FileInv, ExecInv
  <2>5. ShortestPathRuns'
    <3>1. /\ cmds[n] \in ToSet(cmds)
          /\ IsPrefix(cmds[n].path, line.path)
          /\ \A d \in ToSet(cmds) :
               IsPrefix(d.path, line.path) => IsPrefix(cmds[n].path, d.path)
      BY <1>1, FirstIsShortest DEF IInv
    <3>2. cmds' = cmds /\ line' = line
      BY <2>1 DEF prompt
    <3> QED
      BY <1>1, <1>2, <2>1, <3>1, <3>2 DEF ShortestPathRuns
  <2> QED
    BY <2>1, <2>2, <2>3, <2>4, <2>5 DEF IInv, prompt
<1>3. CASE ~ cmds[n].runs.registers
  BY <1>1, <1>3, AnsweredIInv DEF CustomAction
<1> QED
  BY <1>2, <1>3

LEMMA OneFrame ==
  ASSUME NEW p, p = <<>>, NEW q
  PROVE  LET fr == <<[path |-> p, fields |-> q]>> IN
         /\ IsStack(fr) /\ fr # <<>> /\ Len(fr) = 1
         /\ fr[1] = [path |-> p, fields |-> q]
<1> DEFINE x  == [path |-> p, fields |-> q]
           fr == <<x>>
<1>1. x = [path |-> x.path, fields |-> x.fields] /\ x.path = p
  OBVIOUS
<1>2. p \in Seq(ToSet(p)) /\ Len(p) = 0
  OBVIOUS
<1> HIDE DEF x
<1>3. fr # <<>> /\ Len(fr) = 1 /\ fr[1] = x
  OBVIOUS
<1>4. fr \in Seq({x})
  OBVIOUS
<1> HIDE DEF fr
<1>5. fr \in Seq(ToSet(fr))
  BY <1>4, SeqOfItself
<1>6. ASSUME NEW i \in 1..Len(fr)
      PROVE  /\ fr[i] = [path |-> fr[i].path, fields |-> fr[i].fields]
             /\ fr[i].path \in Seq(ToSet(fr[i].path))
             /\ Len(fr[i].path) = Len(fr) - i
  <2>1. i = 1 /\ fr[i] = x /\ fr[i].path = p /\ Len(fr) - i = 0
    BY <1>1, <1>3
  <2> QED
    BY <1>1, <1>2, <2>1, Zenon
<1>7. IsStack(fr)
  BY <1>5, <1>6 DEF IsStack
<1> QED
  BY <1>3, <1>7 DEF fr, x

LEMMA ActionIInv ==
  ASSUME IInv, NEW n \in DOMAIN cmds, Action(n)
  PROVE  IInv'
<1> DEFINE m == cmds[n].runs.methods[Method(n)]
<1>1. /\ pc = "invoke" /\ mu = "free" /\ Matches(n) /\ cmds[n].kind = "mgr"
      /\ UNCHANGED <<files, cfg, todo, cmds, services, waiting, halfway, line>>
      /\ pc' = "prompt" /\ mu' = "cli"
      /\ frames' = <<[path |-> <<>>, fields |-> m.fields]>>
      /\ request' = [service |-> cmds[n].runs.name, method |-> VarArg(n),
                     data |-> {}, asked |-> {}]
  BY DEF Action, Runs, Invoking
<1>2. IsStack(frames') /\ frames' # <<>>
  <2> HIDE DEF m
  <2> QED
    BY <1>1, OneFrame
<1>3. IsRequest(request') /\ request'.service = cmds[n].runs.name
  BY <1>1 DEF IsRequest
<1>4. TypeOK'
  BY <1>1, <1>2 DEF IInv, TypeOK
<1>5. CommandInv' /\ ServiceInv'
  BY <1>1, CommandsKept, ServicesKept DEF IInv
<1>6. FilesOK' /\ FileInv' /\ ExecInv'
  BY <1>1 DEF IInv, FilesOK, FileInv, ExecInv
<1>7. ShortestPathRuns'
  <2>1. /\ cmds[n] \in ToSet(cmds)
        /\ IsPrefix(cmds[n].path, line.path)
        /\ \A d \in ToSet(cmds) :
             IsPrefix(d.path, line.path) => IsPrefix(cmds[n].path, d.path)
    BY <1>1, FirstIsShortest DEF IInv
  <2>2. cmds' = cmds /\ line' = line
    BY <1>1
  <2> QED
    BY <1>1, <1>3, <2>1, <2>2 DEF ShortestPathRuns
<1> QED
  BY <1>2, <1>3, <1>4, <1>5, <1>6, <1>7 DEF IInv

LEMMA InvokeStepIInv ==
  ASSUME IInv, pc = "invoke", InvokeStep
  PROVE  IInv'
<1>1. mu = "free"
  BY DEF IInv, TypeOK
<1>2. CASE FlagParsePanics
  BY <1>2, LoopEndsIInv
<1>3. CASE NoCommand
  BY <1>1, <1>3, AnsweredIInv DEF NoCommand
<1>4. ASSUME NEW n \in DOMAIN cmds, cmdHelp(n) \/ help(n)
      PROVE  IInv'
  BY <1>1, <1>4, AnsweredIInv DEF cmdHelp, help
<1>5. ASSUME NEW n \in DOMAIN cmds, CustomAction(n) \/ Action(n)
      PROVE  IInv'
  BY <1>5, CustomActionIInv, ActionIInv
<1> QED
  BY <1>2, <1>3, <1>4, <1>5 DEF InvokeStep

-----------------------------------------------------------------------------
\* The steps of the prompts and of the request.

LEMMA TakenIs ==
  ASSUME IsRequest(request), NEW v, NEW data
  PROVE  /\ IsRequest(Taken(v, data))
         /\ Taken(v, data).service = request.service
         /\ Taken(v, data).method = request.method
         /\ Taken(v, data).asked = request.asked \cup {<<At, v>>}
         /\ Taken(v, data).data = request.data \cup data
<1>1. PICK r, a, b, c, d, na, nd :
        /\ r = request /\ a = request.service /\ b = request.method
        /\ c = request.data /\ d = request.asked
        /\ na = request.asked \cup {<<At, v>>} /\ nd = request.data \cup data
  OBVIOUS
<1>2. r = [service |-> a, method |-> b, data |-> c, asked |-> d]
  BY <1>1 DEF IsRequest
<1>3. [r EXCEPT !.asked = na, !.data = nd]
        = [service |-> a, method |-> b, data |-> nd, asked |-> na]
  <2>1. PICK s : s = [r EXCEPT !.asked = na]
    OBVIOUS
  <2>2. [r EXCEPT !.asked = na] = [service |-> a, method |-> b, data |-> c, asked |-> na]
    BY ONLY <1>2
  <2>3. s = [service |-> a, method |-> b, data |-> c, asked |-> na]
    BY <2>1, <2>2
  <2>4. [s EXCEPT !.data = nd] = [service |-> a, method |-> b, data |-> nd, asked |-> na]
    BY ONLY <2>3
  <2>5. [r EXCEPT !.asked = na, !.data = nd] = [s EXCEPT !.data = nd]
    BY <2>1
  <2> QED
    BY <2>4, <2>5
<1>4. Taken(v, data) = [r EXCEPT !.asked = na, !.data = nd]
  BY <1>1 DEF Taken
<1>5. Taken(v, data) = [service |-> a, method |-> b, data |-> nd, asked |-> na]
  BY <1>3, <1>4
<1> QED
  BY <1>1, <1>5 DEF IsRequest

\* A prompt answered or an object left: the command goes on.
LEMMA PromptsOn ==
  ASSUME IInv, pc = "prompt",
         UNCHANGED <<files, cfg, pc, todo, cmds, services, mu, waiting, halfway, line>>,
         IsStack(frames)', frames' # <<>>,
         IsRequest(request)', request'.service = request.service
  PROVE  IInv'
<1>1. TypeOK'
  BY DEF IInv, TypeOK
<1>2. CommandInv' /\ ServiceInv'
  BY CommandsKept, ServicesKept DEF IInv
<1>3. FilesOK' /\ FileInv' /\ ExecInv' /\ ShortestPathRuns'
  BY DEF IInv, FilesOK, FileInv, ExecInv, ShortestPathRuns
<1> QED
  BY <1>1, <1>2, <1>3 DEF IInv

\* The frames while a field of the innermost object is prompted for.
LEMMA PromptFrames ==
  ASSUME IInv, Prompting
  PROVE  /\ IsStack(frames) /\ frames # <<>> /\ Frame = frames[1]
         /\ Field = Head(frames[1].fields) /\ frames[1].fields # <<>>
         /\ At = Append(frames[1].path, Field.tag)
         /\ At \in Seq(ToSet(At)) /\ Len(At) = Len(frames)
         /\ IsStack(Rest) /\ Rest # <<>> /\ Len(Rest) = Len(frames)
         /\ Rest[1] = [path |-> frames[1].path, fields |-> Tail(frames[1].fields)]
         /\ \A i \in 2..Len(frames) : Rest[i] = frames[i]
<1>1. IsStack(frames) /\ frames # <<>>
  BY DEF IInv, TypeOK, Prompting
<1>2. frames \in Seq(ToSet(frames)) /\ 1 \in 1..Len(frames) /\ Frame = frames[1]
  BY <1>1 DEF IsStack, Frame
<1>3. /\ Field = Head(frames[1].fields) /\ frames[1].fields # <<>>
      /\ At = Append(frames[1].path, Field.tag)
  BY <1>2 DEF Prompting, Field, At
<1>4. /\ frames[1].path \in Seq(ToSet(frames[1].path))
      /\ Len(frames[1].path) = Len(frames) - 1
  BY <1>1, <1>2 DEF IsStack
<1>5. At \in Seq(ToSet(At)) /\ Len(At) = Len(frames)
  <2>1. PICK p, t : p = frames[1].path /\ t = Field.tag
    OBVIOUS
  <2>2. p \in Seq(ToSet(p) \cup {t}) /\ Len(p) = Len(frames) - 1
    BY <1>4, <2>1
  <2>3. Append(p, t) \in Seq(ToSet(p) \cup {t}) /\ Len(Append(p, t)) = Len(p) + 1
    BY <2>2
  <2>4. Append(p, t) \in Seq(ToSet(Append(p, t)))
    BY <2>3, SeqOfItself
  <2> QED
    BY <1>2, <1>3, <2>1, <2>2, <2>3, <2>4
<1>6. Rest = <<[Head(frames) EXCEPT !.fields = Tail(@)]>> \o Tail(frames)
  BY DEF Rest, Frame
<1>7. /\ IsStack(Rest) /\ Rest # <<>> /\ Len(Rest) = Len(frames)
      /\ Rest[1] = [path |-> frames[1].path, fields |-> Tail(frames[1].fields)]
      /\ \A i \in 2..Len(frames) : Rest[i] = frames[i]
  BY <1>1, <1>6, StackRest
<1> QED
  BY <1>1, <1>2, <1>3, <1>5, <1>7

\* The object that is gone into is the innermost frame, the rest follows.
LEMMA GoneInto ==
  ASSUME IInv, Prompting
  PROVE  LET r == <<[path |-> At, fields |-> Field.fields]>> \o Rest IN
         /\ IsStack(r) /\ Len(r) = Len(frames) + 1 /\ r # <<>>
         /\ r[1] = [path |-> At, fields |-> Field.fields]
         /\ \A i \in 1..Len(frames) : r[i + 1] = Rest[i]
<1>1. /\ At \in Seq(ToSet(At)) /\ Len(At) = Len(Rest)
      /\ IsStack(Rest) /\ Rest # <<>> /\ Len(Rest) = Len(frames)
  BY PromptFrames
<1>2. PICK p, q, fr : p = At /\ q = Field.fields /\ fr = Rest
  OBVIOUS
<1>3. /\ p \in Seq(ToSet(p)) /\ Len(p) = Len(fr)
      /\ IsStack(fr) /\ fr # <<>> /\ Len(fr) = Len(frames)
  BY <1>1, <1>2
<1>4. LET r == <<[path |-> p, fields |-> q]>> \o fr IN
      /\ IsStack(r) /\ Len(r) = Len(fr) + 1 /\ r # <<>>
      /\ r[1] = [path |-> p, fields |-> q]
      /\ \A i \in 1..Len(fr) : r[i + 1] = fr[i]
  BY <1>3, StackPush
<1> QED
  BY <1>2, <1>3, <1>4

LEMMA AnswerObjectIInv ==
  ASSUME IInv, NEW v \in Answers, AnswerObject(v)
  PROVE  IInv'
<1>1. /\ Prompting /\ pc = "prompt"
      /\ UNCHANGED <<files, cfg, pc, todo, cmds, services, mu, waiting, halfway, line>>
  BY DEF AnswerObject, Prompting
<1>2. IsStack(frames)' /\ frames' # <<>>
  <2>1. \/ frames' = <<[path |-> At, fields |-> Field.fields]>> \o Rest
        \/ frames' = Rest
    BY DEF AnswerObject
  <2> QED
    BY <1>1, <2>1, GoneInto, PromptFrames
<1>3. IsRequest(request)' /\ request'.service = request.service
  <2>1. \E data : request' = Taken(v, data)
    BY DEF AnswerObject
  <2> QED
    BY <2>1, TakenIs DEF IInv
<1> QED
  BY <1>1, <1>2, <1>3, PromptsOn

LEMMA AnswerScalarIInv ==
  ASSUME IInv, NEW v \in Answers, AnswerScalar(v)
  PROVE  IInv'
<1>1. /\ Prompting /\ pc = "prompt" /\ frames' = Rest
      /\ UNCHANGED <<files, cfg, pc, todo, cmds, services, mu, waiting, halfway, line>>
      /\ \E data : request' = Taken(v, data)
  BY DEF AnswerScalar, Prompting
<1>2. IsStack(frames)' /\ frames' # <<>>
  BY <1>1, PromptFrames
<1>3. IsRequest(request)' /\ request'.service = request.service
  BY <1>1, TakenIs DEF IInv
<1> QED
  BY <1>1, <1>2, <1>3, PromptsOn

LEMMA LeaveObjectIInv ==
  ASSUME IInv, LeaveObject
  PROVE  IInv'
<1>1. /\ pc = "prompt" /\ Len(frames) > 1 /\ frames' = Tail(frames)
      /\ UNCHANGED <<files, cfg, pc, todo, cmds, services, mu, waiting, halfway, line, request>>
  BY DEF LeaveObject
<1>2. IsStack(frames)' /\ frames' # <<>>
  BY <1>1, StackPop DEF IInv
<1> QED
  BY <1>1, <1>2, PromptsOn DEF IInv

LEMMA SendIInv ==
  ASSUME IInv, Send
  PROVE  IInv'
<1>1. /\ pc = "prompt" /\ Frame.fields = <<>> /\ Len(frames) = 1 /\ pc' = "exec"
      /\ UNCHANGED <<files, cfg, todo, cmds, services, mu, waiting, halfway, prompt>>
  BY DEF Send
<1>2. TypeOK'
  BY <1>1 DEF IInv, TypeOK, prompt
<1>3. CommandInv' /\ ServiceInv'
  BY <1>1, CommandsKept, ServicesKept DEF IInv
<1>4. ExecInv'
  <2>1. Frame = frames[1]
    BY <1>1 DEF IInv, IsStack, Frame
  <2> QED
    BY <1>1, <2>1 DEF ExecInv, prompt
<1>5. FilesOK' /\ FileInv' /\ ShortestPathRuns'
  BY <1>1 DEF IInv, FilesOK, FileInv, ShortestPathRuns, prompt
<1> QED
  BY <1>1, <1>2, <1>3, <1>4, <1>5 DEF IInv, prompt

LEMMA LoopStepIInv ==
  ASSUME IInv, LoopStep
  PROVE  IInv'
<1>1. CASE pc = "invoke" /\ InvokeStep
  BY <1>1, InvokeStepIInv
<1>2. CASE pc = "prompt" /\ PromptStep
  <2>1. ASSUME NEW v \in Answers, AnswerObject(v) \/ AnswerScalar(v)
        PROVE  IInv'
    BY <2>1, AnswerObjectIInv, AnswerScalarIInv
  <2>2. CASE InputFails
    BY <1>2, <2>2, AnsweredIInv DEF InputFails
  <2>3. CASE LeaveObject \/ Send
    BY <2>3, LeaveObjectIInv, SendIInv
  <2> QED
    BY <1>2, <2>1, <2>2, <2>3 DEF PromptStep
<1>3. CASE pc = "exec" /\ ExecStep
  <2>1. mu' = "free" /\ \E a : Answered(a)
    BY <1>3 DEF ExecStep, ExecDenied, ExecDone
  <2> QED
    BY <1>3, <2>1, AnsweredIInv
<1> QED
  BY <1>1, <1>2, <1>3 DEF LoopStep

LEMMA StutterIInv ==
  ASSUME IInv, UNCHANGED vars
  PROVE  IInv'
<1>1. UNCHANGED <<files, cfg, pc, todo, cmds, services, mu, waiting, line, frames,
                  request, halfway>>
  BY DEF vars
<1>2. TypeOK'
  BY <1>1 DEF IInv, TypeOK
<1>3. CommandInv' /\ ServiceInv'
  BY <1>1, CommandsKept, ServicesKept DEF IInv
<1>4. FilesOK' /\ FileInv' /\ ExecInv' /\ ShortestPathRuns'
  BY <1>1 DEF IInv, FilesOK, FileInv, ExecInv, ShortestPathRuns
<1> QED
  BY <1>1, <1>2, <1>3, <1>4 DEF IInv

LEMMA NextIInv ==
  ASSUME IInv, WriteInv, [Next]_vars
  PROVE  IInv'
<1>1. CASE StartStep
  BY <1>1, CfgSetupIInv, WriteEndsIInv, ApiListIInv, MgrSetupFailsIInv, MgrRegisterIInv,
     MgrSetupEndsIInv, SetupFuncsIInv, Zenon DEF StartStep
<1>2. CASE LoopStep
  BY <1>2, LoopStepIInv
<1>3. CASE Interrupt
  BY <1>3, LoopEndsIInv
<1>4. CASE Restart
  BY <1>4, RestartIInv
<1>5. ASSUME NEW l \in Lines, ReadLine(l)
      PROVE  IInv'
  BY <1>5, ReadLineIInv
<1>6. ASSUME NEW c \in Custom, Register(c) \/ RegisterCommonCommand(c)
      PROVE  IInv'
  BY <1>6, RegisterIInv, RegisterCommonCommandIInv
<1>7. CASE UNCHANGED vars
  BY <1>7, StutterIInv
<1> QED
  BY <1>1, <1>2, <1>3, <1>4, <1>5, <1>6, <1>7, Zenon DEF Next

\* The steps that change the files are the first ones of a start.
LEMMA FileSteps ==
  ASSUME [Next]_vars
  PROVE  \/ CfgSetup \/ CfgWrite \/ CfgWriteFails
         \/ files' = files /\ (cfg' = cfg \/ pc' = "down") /\ (pc' = "write" => pc = "write")
<1>1. CASE UNCHANGED vars
  BY <1>1 DEF vars
<1>2. ASSUME LoopStep
      PROVE  files' = files /\ cfg' = cfg /\ pc' # "write"
  <2>1. CASE pc = "invoke" /\ InvokeStep
    BY <2>1 DEF InvokeStep, FlagParsePanics, NoCommand, cmdHelp, help, CustomAction, Action,
       Answered
  <2>2. CASE pc = "prompt" /\ PromptStep
    BY <2>2 DEF PromptStep, AnswerObject, AnswerScalar, InputFails, LeaveObject, Send,
       Answered
  <2>3. CASE pc = "exec" /\ ExecStep
    BY <2>3 DEF ExecStep, ExecDenied, ExecDone, Answered
  <2> QED
    BY <1>2, <2>1, <2>2, <2>3 DEF LoopStep
<1>3. ASSUME Interrupt \/ \E l \in Lines : ReadLine(l)
      PROVE  files' = files /\ cfg' = cfg /\ pc' # "write"
  BY <1>3 DEF Interrupt, ReadLine
<1>4. ASSUME NEW c \in Custom, Register(c) \/ RegisterCommonCommand(c)
      PROVE  files' = files /\ cfg' = cfg /\ pc' = pc
  BY <1>4 DEF Register, RegisterCommonCommand
<1>5. Restart => files' = files /\ pc' = "down"
  BY DEF Restart
<1>6. ASSUME \/ ApiListKnown \/ ApiListFails \/ MgrSetupFails \/ MgrRegister
             \/ MgrSetupEnds \/ SetupFuncs
             \/ \E list \in ApiLists : ApiListAnswers(list)
      PROVE  files' = files /\ cfg' = cfg /\ (pc' = "write" => pc = "write")
  BY <1>6 DEF ApiListKnown, ApiListFails, ApiListAnswers, MgrSetupFails, MgrRegister,
     MgrSetupEnds, SetupFuncs
<1> QED
  BY <1>1, <1>2, <1>3, <1>4, <1>5, <1>6, Zenon DEF Next, StartStep

LEMMA NextWriteInv ==
  ASSUME IInv, WriteInv, [Next]_vars
  PROVE  WriteInv'
<1>1. CASE CfgSetup
  BY <1>1, CfgSetupIs DEF IInv
<1>2. CASE CfgWrite \/ CfgWriteFails
  BY <1>2, WriteEndsIs DEF IInv, WriteInv
<1>3. CASE files' = files /\ (cfg' = cfg \/ pc' = "down") /\ (pc' = "write" => pc = "write")
  BY <1>3 DEF WriteInv
<1> QED
  BY <1>1, <1>2, <1>3, FileSteps

LEMMA WritesInvariant == Spec => [](IInv /\ WriteInv)
<1>1. Init => IInv /\ WriteInv
  BY InitIInv DEF Init, WriteInv
<1>2. IInv /\ WriteInv /\ [Next]_vars => (IInv /\ WriteInv)'
  BY NextIInv, NextWriteInv
<1> QED
  BY <1>1, <1>2, PTL DEF Spec

LEMMA Invariant == Spec => []IInv
  BY WritesInvariant, PTL

-----------------------------------------------------------------------------
\* The theorems.

\* Every variable holds a value of its kind, and the mutex is held just while a
\* command runs: no way out of a command leaves it locked but the command that
\* locks itself out.
THEOREM CommandsTypeCorrect == Spec => []TypeOK
<1>1. IInv => TypeOK
  BY DEF IInv
<1> QED
  BY <1>1, Invariant, PTL

\* Whatever commands are registered, in whatever order and by whichever
\* goroutine, a line runs the command with the shortest path it begins with.
THEOREM ShortestPathAlwaysRuns == Spec => []ShortestPathRuns
<1>1. IInv => ShortestPathRuns
  BY DEF IInv
<1> QED
  BY <1>1, Invariant, PTL

LEMMA HelpInv ==
  ASSUME IInv
  PROVE  HelpIsWhole
<1> SUFFICES ASSUME pc = "line" PROVE HelpIsWhole
  BY DEF HelpIsWhole
<1>1. ASSUME NEW c \in ToSet(cmds), c.path # HelpPath
      PROVE  c \in ToSet(services) \/ c.kind = "custom"
  <2>1. c \in Commands
    BY DEF IInv, TypeOK, ToSet
  <2>2. c.kind = "mgr" \/ c.kind = "custom"
    BY <1>1, <2>1 DEF Commands, ServiceCommands, HelpCommand, ServiceCommand, CustomCommand
  <2> QED
    BY <1>1, <2>2 DEF IInv, CommandInv
<1>2. ASSUME NEW s \in ToSet(services)
      PROVE  \E c \in ToSet(cmds) : c.path = s.path
  BY DEF IInv, CommandInv
<1>3. {c.path : c \in ToSet(cmds)} \ {HelpPath}
        = ({s.path : s \in ToSet(services)}
            \cup {c.path : c \in {d \in ToSet(cmds) : d.kind = "custom"}}) \ {HelpPath}
  BY <1>1, <1>2
<1>4. ~halfway =>
        \E list \in ApiLists \cup {<<>>} :
          {s.path : s \in ToSet(services)} = {CommandName(srv) : srv \in ToSet(list)}
  BY DEF IInv, ServiceInv, Paths
<1>5. IsInjective([i \in DOMAIN services |-> services[i].path])
  <2>1. DOMAIN services = 1..Len(services)
    BY DEF IInv, TypeOK
  <2> QED
    BY <2>1 DEF IInv, ServiceInv, IsInjective
<1> QED
  BY <1>3, <1>4, <1>5 DEF HelpIsWhole

\* The loop knows and tells the services of the server's list, each once, and
\* the program's own commands, over failed starts and names that collide.
THEOREM HelpAlwaysWhole == Spec => []HelpIsWhole
  BY HelpInv, Invariant, PTL

\* Whatever files there are, whatever an earlier start read and however often a
\* write was cut off: a start that opens a file has all that goes missing in
\* memory, and a write that ends has put all of it in the file, and the choice.
THEOREM ConfigAlwaysSurvives == Spec => ConfigSurvives
<1> DEFINE Survives ==
             /\ Legible(files) /\ pc' = "write" =>
                  NamedIn(files) \subseteq NamedIn(files') \cup ToSet(cfg'.services)
             /\ CfgWrite =>
                  /\ NamedIn(files) \cup ToSet(cfg.services) \subseteq NamedIn(files')
                  /\ \E g \in ToSet(files') :
                       g.last = cfg.active /\ g.last \in ToSet(g.services)
<1>1. ASSUME IInv, WriteInv, [Next]_vars
      PROVE  [Survives]_files
  <2> SUFFICES ASSUME files' # files PROVE Survives
    OBVIOUS
  <2>1. CASE CfgSetup
    <3>1. ~ CfgWrite
      BY <2>1 DEF CfgSetup, CfgWrite, WriteEnds
    <3>2. TypeOK /\ FilesOK /\ FileInv
      BY <1>1 DEF IInv
    <3> QED
      BY <2>1, <3>1, <3>2, CfgSetupIs
  <2>2. CASE CfgWrite \/ CfgWriteFails
    <3> HIDE DEF Survives
    <3>1. pc' # "write"
      BY <2>2 DEF CfgWrite, CfgWriteFails, WriteEnds
    <3>2. TypeOK /\ FilesOK /\ FileInv /\ WriteInv
      BY <1>1 DEF IInv
    <3>3. CfgWrite =>
            /\ NamedIn(files) \cup ToSet(cfg.services) \subseteq NamedIn(files')
            /\ \E g \in ToSet(files') :
                 g.last = cfg.active /\ g.last \in ToSet(g.services)
      BY <2>2, <3>2, WriteEndsIs
    <3> QED
      BY <3>1, <3>3 DEF Survives
  <2> QED
    BY <1>1, <2>1, <2>2, FileSteps
<1>2. IInv /\ WriteInv /\ [Next]_vars => [Survives]_files
  BY <1>1
<1> QED
  BY <1>2, WritesInvariant, PTL DEF Spec, ConfigSurvives

-----------------------------------------------------------------------------
\* What is sent is what was answered.  A method whose request lists a field
\* twice would be asked for it twice.

TagsDiffer ==
  \A srv \in AllServices : \A m \in ToSet(srv.methods) :
    \A i, j \in 1..Len(m.fields) : m.fields[i].tag = m.fields[j].tag => i = j

\* A method of a service that is known, as the server listed it.
IsMethod(m) == \E srv \in AllServices : m \in ToSet(srv.methods)

LEMMA MethodIs ==
  ASSUME NEW m, IsMethod(m)
  PROVE  /\ m.fields \in Seq(ToSet(m.fields)) /\ Len(m.fields) \in Nat
         /\ \A i \in 1..Len(m.fields) :
              m.fields[i].fields \in Seq(ToSet(m.fields[i].fields))
<1>1. /\ m.fields \in Seq(ToSet(m.fields))
      /\ \A f \in ToSet(m.fields) : f.fields \in Seq(ToSet(f.fields))
  BY TextAssumption DEF IsMethod
<1>2. \A i \in 1..Len(m.fields) : m.fields[i] \in ToSet(m.fields)
  BY <1>1
<1> QED
  BY <1>1, <1>2

\* The command begins: no field was prompted for.
LEMMA ActionAsks ==
  ASSUME IInv, NEW n \in DOMAIN cmds, Action(n)
  PROVE  AskInv'
<1>1. PICK s, m :
        /\ s = cmds[n] /\ m = s.runs.methods[Method(n)]
        /\ s.kind = "mgr" /\ Method(n) # 0
        /\ services' = services
        /\ frames' = <<[path |-> <<>>, fields |-> m.fields]>>
        /\ request' = [service |-> s.runs.name, method |-> VarArg(n),
                       data |-> {}, asked |-> {}]
  BY DEF Action, Runs
<1>2. s \in ToSet(services) /\ s \in ServiceCommands
  <2>1. s \in ToSet(cmds)
    BY <1>1 DEF IInv, TypeOK, ToSet
  <2>2. s \in ToSet(services)
    BY <1>1, <2>1 DEF IInv, CommandInv
  <2> QED
    BY <2>2 DEF IInv, TypeOK, ToSet
<1>3. s.runs \in AllServices /\ s.runs.methods \in Seq(ToSet(s.runs.methods))
  BY <1>2, TextAssumption DEF ServiceCommands, ServiceCommand
<1>4. Method(n) \in 1..Len(s.runs.methods)
  <2> DEFINE I == {i \in 1..Len(s.runs.methods) :
                    lowerName(s.runs.methods[i].name) = VarArg(n)}
  <2>1. Method(n) = IF I # {} THEN Max(I) ELSE 0
    BY <1>1 DEF Method, MethodNamed, SelectLastInSeq
  <2>2. I \subseteq 1..Len(s.runs.methods) /\ Len(s.runs.methods) \in Nat
    BY <1>3
  <2>3. Method(n) \in I
    <3> HIDE DEF I
    <3>1. I # {}
      BY <1>1, <2>1
    <3> QED
      BY <2>1, <2>2, <3>1, Greatest
  <2> QED
    BY <2>3
<1>5. m \in ToSet(s.runs.methods) /\ IsMethod(m)
  <2>1. m \in ToSet(s.runs.methods)
    BY <1>1, <1>3, <1>4 DEF ToSet
  <2> QED
    BY <1>3, <2>1 DEF IsMethod
<1>6. /\ Len(frames') = 1 /\ frames'[1].fields = m.fields
      /\ request'.method = VarArg(n) /\ request'.data = {}
      /\ request'.service = s.runs.name
  BY <1>1
<1>7. 0 \in 0..Len(m.fields) /\ m.fields = SubSeq(m.fields, 1, Len(m.fields))
  BY <1>5, MethodIs
<1>8. AskedOf(m, 0)'
  <2>1. \A i \in 1..0 : FALSE
    OBVIOUS
  <2>2. 0 + 1 = 1 /\ ~ (1 > 1)
    OBVIOUS
  <2> QED
    BY ONLY <1>6, <1>7, <2>1, <2>2, Zenon DEF AskedOf
<1>9. \E d \in 0..Len(m.fields) : AskedOf(m, d)'
  BY <1>7, <1>8
<1>10. AskedFor(s, m)'
  <2>1. Method(n) = MethodNamed(s.runs, VarArg(n))
    BY <1>1 DEF Method
  <2> QED
    BY <1>1, <1>6, <2>1, Zenon DEF AskedFor
<1> QED
  BY <1>1, <1>2, <1>5, <1>9, <1>10, Zenon DEF AskInv

\* What was prompted for and answered before stays so when the request grows by
\* other fields.
LEMMA Grows ==
  ASSUME request'.method = request.method,
         request.asked \subseteq request'.asked, request.data \subseteq request'.data,
         NEW f, \A x \in request'.data : x[1] = <<f.tag>> => x \in request.data
  PROVE  /\ FieldSent(f) => FieldSent(f)'
         /\ Entered(f)' => Entered(f)
         /\ \A e : InnerAsked(f, e) => InnerAsked(f, e)'
<1>1. Required(f)' = Required(f)
  BY DEF Required
<1>2. DataAt(<<f.tag>>)' = DataAt(<<f.tag>>)
  BY DEF DataAt
<1>3. FieldSent(f) => FieldSent(f)'
  BY <1>1, <1>2, Zenon DEF FieldSent
<1>4. Entered(f)' => Entered(f)
  BY <1>2 DEF Entered
<1>5. \A e : InnerAsked(f, e) => InnerAsked(f, e)'
  BY DEF InnerAsked
<1> QED
  BY <1>3, <1>4, <1>5

\* What AskedFor says is of the request's service and method only.
LEMMA AskedForKept ==
  ASSUME request'.service = request.service, request'.method = request.method,
         NEW s, NEW m, AskedFor(s, m)
  PROVE  AskedFor(s, m)'
  BY DEF AskedFor

\* What the answer v to the field at path a adds to the data.
Added(v, f, a) ==
  IF f.type = "struct"
  THEN IF v = "yes" \/ Required(f) THEN {<<a, "object">>} ELSE {}
  ELSE IF f.type \in DOMAIN Reads /\ v # "" THEN {<<a, Reads[f.type][v]>>} ELSE {}

LEMMA AddedAt ==
  ASSUME NEW v, NEW f, NEW a, NEW x \in Added(v, f, a)
  PROVE  x[1] = a
<1>1. x = <<a, "object">> \/ x = <<a, Reads[f.type][v]>>
  BY DEF Added
<1>2. \A y : <<a, y>>[1] = a
  OBVIOUS
<1> QED
  BY <1>1, <1>2

LEMMA AnswerIs ==
  ASSUME IInv, NEW v \in Answers, AnswerObject(v) \/ AnswerScalar(v)
  PROVE  /\ Prompting /\ services' = services /\ pc' = pc
         /\ request'.method = request.method /\ request'.service = request.service
         /\ request'.asked = request.asked \cup {<<At, v>>}
         /\ request'.data = request.data \cup Added(v, Field, At)
         /\ \A x \in request'.data : x \in request.data \/ x[1] = At
         /\ Field.type # "struct" /\ Field.type \in DOMAIN Reads /\ v # ""
              => v \in DOMAIN Reads[Field.type]
         /\ \/ /\ Field.type = "struct"
               /\ frames' = <<[path |-> At, fields |-> Field.fields]>> \o Rest
            \/ /\ Field.type = "struct" => Added(v, Field, At) = {}
               /\ frames' = Rest
<1>1. /\ Prompting /\ services' = services /\ pc' = pc
      /\ request' = Taken(v, Added(v, Field, At))
      /\ \/ /\ Field.type = "struct"
            /\ frames' = <<[path |-> At, fields |-> Field.fields]>> \o Rest
         \/ /\ Field.type = "struct" => Added(v, Field, At) = {}
            /\ frames' = Rest
  <2>1. CASE AnswerObject(v)
    BY <2>1, Zenon DEF AnswerObject, Added
  <2>2. CASE AnswerScalar(v)
    <3>1. /\ Prompting /\ services' = services /\ pc' = pc
          /\ Field.type # "struct" /\ frames' = Rest
          /\ request' = Taken(v, IF v # "" /\ Field.type \in DOMAIN Reads
                                 THEN {<<At, Reads[Field.type][v]>>} ELSE {})
      BY <2>2, Zenon DEF AnswerScalar
    <3>2. Added(v, Field, At) = IF v # "" /\ Field.type \in DOMAIN Reads
                                THEN {<<At, Reads[Field.type][v]>>} ELSE {}
      BY <3>1, Zenon DEF Added
    <3> QED
      BY <3>1, <3>2, Zenon
  <2> QED
    BY <2>1, <2>2
<1>2. /\ request'.method = request.method /\ request'.service = request.service
      /\ request'.asked = request.asked \cup {<<At, v>>}
      /\ request'.data = request.data \cup Added(v, Field, At)
  BY <1>1, TakenIs DEF IInv
<1>3. \A x \in request'.data : x \in request.data \/ x[1] = At
  BY <1>2, AddedAt
<1>4. Field.type # "struct" /\ Field.type \in DOMAIN Reads /\ v # ""
        => v \in DOMAIN Reads[Field.type]
  BY Zenon DEF AnswerObject, AnswerScalar
<1> QED
  BY <1>1, <1>2, <1>3, <1>4

LEMMA OneStep ==
  ASSUME NEW p, p \in Seq(ToSet(p)), Len(p) = 0, NEW t
  PROVE  Append(p, t) = <<t>>
<1>1. p = <<>>
  OBVIOUS
<1> QED
  BY <1>1

\* Two steps into the request.
LEMMA TwoSteps ==
  ASSUME NEW t, NEW u
  PROVE  Append(<<t>>, u) = <<t, u>>
<1> DEFINE S == {t, u}
<1>1. <<t>> \in Seq(S) /\ Len(<<t>>) = 1 /\ <<t>>[1] = t
  OBVIOUS
<1>2. /\ Append(<<t>>, u) \in Seq(S) /\ Len(Append(<<t>>, u)) = 2
      /\ Append(<<t>>, u)[1] = t /\ Append(<<t>>, u)[2] = u
  <2> DEFINE s == <<t>>
  <2> HIDE DEF s
  <2>1. s \in Seq(S) /\ u \in S /\ Len(s) = 1 /\ s[1] = t
    BY <1>1 DEF s
  <2>2. /\ Append(s, u) \in Seq(S) /\ Len(Append(s, u)) = Len(s) + 1
        /\ \A i \in 1..Len(s) : Append(s, u)[i] = s[i]
        /\ Append(s, u)[Len(s) + 1] = u
    BY <2>1, AppendIs
  <2>3. Append(s, u) \in Seq(S) /\ Len(Append(s, u)) = 2
        /\ Append(s, u)[1] = t /\ Append(s, u)[2] = u
    BY <2>1, <2>2
  <2> QED
    BY <2>3 DEF s
<1>3. /\ <<t, u>> \in Seq(S) /\ Len(<<t, u>>) = 2
      /\ <<t, u>>[1] = t /\ <<t, u>>[2] = u
  OBVIOUS
<1>4. \A i \in 1..2 : i = 1 \/ i = 2
  OBVIOUS
<1>5. \A i \in 1..2 : Append(<<t>>, u)[i] = <<t, u>>[i]
  BY <1>2, <1>3, <1>4, Zenon
<1> HIDE DEF S
<1> QED
  BY <1>2, <1>3, <1>5, SeqEqual, Zenon

\* A field of the request itself is answered: it is one of the fields done, and
\* when it is an object that is gone into its own fields come next.
LEMMA FieldAsks ==
  ASSUME IInv, TagsDiffer, NEW m, IsMethod(m), NEW d \in 0..Len(m.fields), AskedOf(m, d),
         Len(frames) = 1, NEW v \in Answers, AnswerObject(v) \/ AnswerScalar(v)
  PROVE  d + 1 \in 1..Len(m.fields) /\ AskedOf(m, d + 1)'
<1> DEFINE fs == m.fields
           f  == fs[d + 1]
<1>1. /\ fs \in Seq(ToSet(fs)) /\ Len(fs) \in Nat /\ d \in 0..Len(fs)
      /\ \A i \in 1..Len(fs) : fs[i].fields \in Seq(ToSet(fs[i].fields))
      /\ \A i, j \in 1..Len(fs) : fs[i].tag = fs[j].tag => i = j
  BY MethodIs DEF TagsDiffer, IsMethod
<1>2. /\ frames[1].fields = SubSeq(fs, d + 1, Len(fs))
      /\ \A i \in 1..d : FieldSent(fs[i])
      /\ \A x \in request.data : Len(x[1]) = 1 => \E i \in 1..d : x[1] = <<fs[i].tag>>
      /\ \A i \in 1..d : Entered(fs[i]) => InnerAsked(fs[i], Len(fs[i].fields))
  BY DEF AskedOf
<1>3. /\ Prompting
      /\ request'.method = request.method
      /\ request'.asked = request.asked \cup {<<At, v>>}
      /\ request'.data = request.data \cup Added(v, Field, At)
      /\ \A x \in request'.data : x \in request.data \/ x[1] = At
      /\ Field.type # "struct" /\ Field.type \in DOMAIN Reads /\ v # ""
           => v \in DOMAIN Reads[Field.type]
      /\ \/ frames' = <<[path |-> At, fields |-> Field.fields]>> \o Rest
         \/ /\ Field.type = "struct" => Added(v, Field, At) = {}
            /\ frames' = Rest
  BY AnswerIs, Zenon
<1>4. /\ IsStack(frames) /\ frames # <<>>
      /\ Field = Head(frames[1].fields) /\ frames[1].fields # <<>>
      /\ At = Append(frames[1].path, Field.tag)
      /\ Len(Rest) = Len(frames)
      /\ Rest[1] = [path |-> frames[1].path, fields |-> Tail(frames[1].fields)]
  BY <1>3, PromptFrames
<1>5. /\ d + 1 \in 1..Len(fs) /\ Field = f
      /\ Tail(frames[1].fields) = SubSeq(fs, (d + 1) + 1, Len(fs))
  BY <1>1, <1>2, <1>4, RestIs
<1>6. At = <<f.tag>>
  <2>1. frames[1].path \in Seq(ToSet(frames[1].path)) /\ Len(frames[1].path) = 0
    BY <1>4 DEF IsStack
  <2> QED
    BY <1>4, <1>5, <2>1, OneStep
<1> HIDE DEF fs, f
<1>7. Len(At) = 1 /\ \A i \in 1..d : <<fs[i].tag>> # At
  <2>1. \A i \in 1..d : i \in 1..Len(fs) /\ i # d + 1
    BY <1>1
  <2> QED
    BY <1>1, <1>5, <1>6, <2>1 DEF f
<1>8. ASSUME NEW x \in request.data PROVE x[1] # At
  BY <1>2, <1>7
<1>9. ASSUME NEW i \in 1..d
      PROVE  /\ FieldSent(fs[i])'
             /\ Entered(fs[i])' => InnerAsked(fs[i], Len(fs[i].fields))'
  <2>1. \A x \in request'.data : x[1] = <<fs[i].tag>> => x \in request.data
    BY <1>3, <1>7
  <2>2. request.asked \subseteq request'.asked
    BY <1>3
  <2> QED
    BY <1>2, <1>3, <2>1, <2>2, Grows
<1>10. ASSUME NEW x \in request'.data, Len(x[1]) = 1
       PROVE  \E i \in 1..(d + 1) : x[1] = <<fs[i].tag>>
  <2>1. CASE x \in request.data
    <3>1. PICK i \in 1..d : x[1] = <<fs[i].tag>>
      BY <1>2, <1>10, <2>1
    <3>2. i \in 1..(d + 1)
      OBVIOUS
    <3> QED
      BY <3>1, <3>2
  <2>2. CASE x[1] = At
    <3>1. d + 1 \in 1..(d + 1)
      BY <1>5
    <3> QED
      BY <1>6, <2>2, <3>1 DEF f
  <2> QED
    BY <1>3, <2>1, <2>2
<1>11. FieldSent(f)'
  <2>1. <<<<f.tag>>, v>> \in request'.asked /\ Required(f)' = Required(f)
    BY <1>3, <1>6 DEF Required
  <2>2. DataAt(<<f.tag>>)' = Added(v, f, <<f.tag>>)
    <3>1. Field = f /\ At = <<f.tag>>
      BY <1>5, <1>6
    <3>2. request'.data = request.data \cup Added(v, f, <<f.tag>>)
      BY <1>3, <3>1, Zenon
    <3>3. \A x \in Added(v, f, <<f.tag>>) : x[1] = <<f.tag>>
      BY AddedAt
    <3>4. \A x \in request.data : x[1] # <<f.tag>>
      BY <1>8, <3>1
    <3> QED
      BY <3>2, <3>3, <3>4 DEF DataAt
  <2>3. f.type # "struct" /\ f.type \in DOMAIN Reads /\ v # "" => v \in DOMAIN Reads[f.type]
    BY <1>3, <1>5, Zenon
  <2> QED
    BY <2>1, <2>2, <2>3, Zenon DEF FieldSent, Added
<1>12. \A i \in 1..(d + 1) : i \in 1..d \/ i = d + 1
  BY <1>1
<1>13. \A i \in 1..(d + 1) : FieldSent(fs[i])'
  BY <1>9, <1>11, <1>12 DEF f
<1>14. CASE frames' = Rest /\ (f.type = "struct" => Added(v, Field, At) = {})
  <2>1. Len(frames') = 1 /\ frames'[1].fields = SubSeq(fs, (d + 1) + 1, Len(fs))
    <3>1. Rest[1].fields = Tail(frames[1].fields)
      BY <1>4
    <3> QED
      BY <1>4, <1>5, <1>14, <3>1, Zenon
  <2>2. ~ Entered(f)'
    <3>1. ASSUME f.type = "struct" PROVE DataAt(<<f.tag>>)' = {}
      <4>1. request'.data = request.data
        BY <1>3, <1>14, <3>1
      <4>2. \A x \in request.data : x[1] # <<f.tag>>
        BY <1>6, <1>8
      <4> QED
        BY <4>1, <4>2 DEF DataAt
    <3> QED
      BY <3>1 DEF Entered
  <2>3. \A i \in 1..(d + 1) : Entered(fs[i])' => InnerAsked(fs[i], Len(fs[i].fields))'
    BY <1>9, <1>12, <2>2 DEF f
  <2>4. AskedOf(m, d + 1)'
    BY <1>10, <1>13, <2>1, <2>3 DEF AskedOf, fs
  <2> QED
    BY <1>5, <2>4 DEF fs
<1>15. CASE frames' = <<[path |-> At, fields |-> Field.fields]>> \o Rest
  <2>1. /\ Len(frames') = 2
        /\ frames'[1] = [path |-> At, fields |-> Field.fields]
        /\ frames'[2] = Rest[1]
    <3>1. LET r == <<[path |-> At, fields |-> Field.fields]>> \o Rest IN
          /\ Len(r) = Len(frames) + 1
          /\ r[1] = [path |-> At, fields |-> Field.fields]
          /\ \A i \in 1..Len(frames) : r[i + 1] = Rest[i]
      BY <1>3, GoneInto
    <3>2. /\ Len(frames') = Len(frames) + 1
          /\ frames'[1] = [path |-> At, fields |-> Field.fields]
          /\ \A i \in 1..Len(frames) : frames'[i + 1] = Rest[i]
      BY <1>15, <3>1, Zenon
    <3>3. 1 \in 1..Len(frames) /\ Len(frames) + 1 = 2 /\ 1 + 1 = 2
      OBVIOUS
    <3> QED
      BY <3>2, <3>3, Zenon
  <2>2. /\ frames'[2].fields = SubSeq(fs, (d + 1) + 1, Len(fs))
        /\ frames'[1].path = <<f.tag>>
        /\ frames'[1].fields = SubSeq(f.fields, 0 + 1, Len(f.fields))
        /\ 0 \in 0..Len(f.fields)
    <3>1. Rest[1].fields = Tail(frames[1].fields) /\ frames'[1].path = At
      BY <1>4, <2>1
    <3>2. frames'[1].fields = f.fields /\ f.fields \in Seq(ToSet(f.fields))
      BY <1>1, <1>5, <2>1 DEF f
    <3>3. f.fields = SubSeq(f.fields, 0 + 1, Len(f.fields)) /\ 0 \in 0..Len(f.fields)
      BY <3>2
    <3> QED
      BY <1>5, <1>6, <2>1, <3>1, <3>2, <3>3
  <2>3. InnerAsked(f, 0)'
    BY DEF InnerAsked
  <2>4. \A i \in 1..(d + 1) : Entered(fs[i])' /\ i # d + 1
                                => InnerAsked(fs[i], Len(fs[i].fields))'
    BY <1>9, <1>12
  <2>5. \E e \in 0..Len(f.fields) :
          frames'[1].fields = SubSeq(f.fields, e + 1, Len(f.fields)) /\ InnerAsked(f, e)'
    BY <2>2, <2>3
  <2>6. Len(frames') # 1 /\ Len(frames') > 1 /\ Len(frames') - 1 = 1 /\ d + 1 > 0
    BY <1>1, <2>1
  <2>7. AskedOf(m, d + 1)'
    BY <1>10, <1>13, <2>1, <2>2, <2>4, <2>5, <2>6 DEF AskedOf, fs, f
  <2> QED
    BY <1>5, <2>7 DEF fs
<1> QED
  BY <1>3, <1>5, <1>14, <1>15

\* A prompt inside an object of the request leaves what is done as it is.
LEMMA Deeper ==
  ASSUME NEW m, NEW d, AskedOf(m, d), Len(frames) > 1,
         request'.method = request.method,
         request.asked \subseteq request'.asked, request.data \subseteq request'.data,
         \A x \in request'.data : x \in request.data \/ Len(x[1]) # 1,
         Len(frames') > 1, Len(frames') # 1,
         frames'[Len(frames')].fields = frames[Len(frames)].fields,
         frames'[Len(frames') - 1].path = frames[Len(frames) - 1].path,
         \E e \in 0..Len(m.fields[d].fields) :
           /\ frames'[Len(frames') - 1].fields
                = SubSeq(m.fields[d].fields, e + 1, Len(m.fields[d].fields))
           /\ InnerAsked(m.fields[d], e)'
  PROVE  AskedOf(m, d)'
<1> DEFINE fs == m.fields
<1>1. /\ frames[Len(frames)].fields = SubSeq(fs, d + 1, Len(fs))
      /\ \A i \in 1..d : FieldSent(fs[i])
      /\ \A x \in request.data : Len(x[1]) = 1 => \E i \in 1..d : x[1] = <<fs[i].tag>>
      /\ \A i \in 1..d : Entered(fs[i]) /\ i # d => InnerAsked(fs[i], Len(fs[i].fields))
      /\ d > 0 /\ frames[Len(frames) - 1].path = <<fs[d].tag>>
  BY DEF AskedOf
<1> HIDE DEF fs
<1>2. ASSUME NEW i \in 1..d
      PROVE  /\ FieldSent(fs[i])'
             /\ Entered(fs[i])' /\ i # d => InnerAsked(fs[i], Len(fs[i].fields))'
  <2>1. \A x \in request'.data : x[1] = <<fs[i].tag>> => x \in request.data
    <3>1. Len(<<fs[i].tag>>) = 1
      OBVIOUS
    <3> QED
      BY <3>1
  <2>2. /\ FieldSent(fs[i]) => FieldSent(fs[i])'
        /\ Entered(fs[i])' => Entered(fs[i])
        /\ \A e : InnerAsked(fs[i], e) => InnerAsked(fs[i], e)'
    BY <2>1, Grows
  <2> QED
    BY <1>1, <2>2
<1>3. \A x \in request'.data : Len(x[1]) = 1 => \E i \in 1..d : x[1] = <<fs[i].tag>>
  BY <1>1
<1>4. /\ frames'[Len(frames')].fields = SubSeq(fs, d + 1, Len(fs))
      /\ frames'[Len(frames') - 1].path = <<fs[d].tag>>
  BY <1>1
<1> QED
  BY <1>1, <1>2, <1>3, <1>4, Zenon DEF AskedOf, fs

\* A field of an object of the request, or one deeper in it, is answered.
LEMMA InnerAsks ==
  ASSUME IInv, NEW m, IsMethod(m), NEW d \in 0..Len(m.fields), AskedOf(m, d),
         Len(frames) > 1, NEW v \in Answers, AnswerObject(v) \/ AnswerScalar(v)
  PROVE  AskedOf(m, d)'
<1> DEFINE k == Len(frames)
           f == m.fields[d]
<1>1. /\ Prompting
      /\ request'.method = request.method
      /\ request'.asked = request.asked \cup {<<At, v>>}
      /\ request.data \subseteq request'.data
      /\ \A x \in request'.data : x \in request.data \/ x[1] = At
      /\ \/ frames' = <<[path |-> At, fields |-> Field.fields]>> \o Rest
         \/ frames' = Rest
  BY AnswerIs
<1>2. /\ IsStack(frames) /\ frames # <<>>
      /\ Field = Head(frames[1].fields) /\ frames[1].fields # <<>>
      /\ At = Append(frames[1].path, Field.tag) /\ Len(At) = k
      /\ Len(Rest) = k
      /\ Rest[1] = [path |-> frames[1].path, fields |-> Tail(frames[1].fields)]
      /\ \A i \in 2..k : Rest[i] = frames[i]
  BY <1>1, PromptFrames
<1>3. k \in Nat /\ k > 1
  BY <1>2 DEF IsStack
<1>4. PICK e \in 0..Len(f.fields) :
        /\ frames[k - 1].fields = SubSeq(f.fields, e + 1, Len(f.fields))
        /\ InnerAsked(f, e)
  BY <1>3 DEF AskedOf
<1>5. /\ d \in 1..Len(m.fields) /\ frames[k - 1].path = <<f.tag>>
      /\ f.fields \in Seq(ToSet(f.fields))
  <2>1. d > 0 /\ frames[k - 1].path = <<f.tag>>
    BY <1>3 DEF AskedOf
  <2>2. Len(m.fields) \in Nat
        /\ \A i \in 1..Len(m.fields) :
             m.fields[i].fields \in Seq(ToSet(m.fields[i].fields))
    BY MethodIs
  <2>3. d \in 1..Len(m.fields)
    BY <2>1, <2>2
  <2> QED
    BY <2>1, <2>2, <2>3
<1>6. /\ \A j \in 1..k : frames'[Len(frames') - (k - j)] = Rest[j]
      /\ Len(frames') > 1 /\ Len(frames') # 1 /\ Len(frames') \in Nat
  <2>1. CASE frames' = Rest
    <3>1. Len(frames') = k
      BY <1>2, <2>1
    <3>2. \A j \in 1..k : k - (k - j) = j
      BY <1>3
    <3>3. \A j \in 1..k : frames'[Len(frames') - (k - j)] = Rest[j]
      BY <2>1, <3>1, <3>2, Zenon
    <3> QED
      BY <1>3, <3>1, <3>3
  <2>2. CASE frames' = <<[path |-> At, fields |-> Field.fields]>> \o Rest
    <3>1. LET r == <<[path |-> At, fields |-> Field.fields]>> \o Rest IN
          Len(r) = k + 1 /\ \A i \in 1..k : r[i + 1] = Rest[i]
      BY <1>1, GoneInto
    <3>2. Len(frames') = k + 1 /\ \A i \in 1..k : frames'[i + 1] = Rest[i]
      BY <2>2, <3>1, Zenon
    <3>3. \A j \in 1..k : (k + 1) - (k - j) = j + 1
      BY <1>3
    <3> QED
      BY <1>3, <3>2, <3>3
  <2> QED
    BY <1>1, <2>1, <2>2
<1> HIDE DEF k, f
<1>7. frames'[Len(frames')] = Rest[k] /\ frames'[Len(frames') - 1] = Rest[k - 1]
  <2>1. k \in 1..k /\ k - 1 \in 1..k /\ k - k = 0 /\ k - (k - 1) = 1
    BY <1>3
  <2>2. Len(frames') - 0 = Len(frames')
    BY <1>6
  <2>3. /\ frames'[Len(frames') - (k - k)] = Rest[k]
        /\ frames'[Len(frames') - (k - (k - 1))] = Rest[k - 1]
    BY <1>6, <2>1
  <2> QED
    BY <2>1, <2>2, <2>3
<1>8. frames'[Len(frames')].fields = frames[k].fields
  BY <1>2, <1>3, <1>7
<1>9. frames'[Len(frames') - 1].path = frames[k - 1].path
  <2>1. CASE k = 2
    BY <1>2, <1>7, <2>1
  <2>2. CASE k > 2
    <3>1. k - 1 \in 2..k
      BY <1>3, <2>2
    <3> QED
      BY <1>2, <1>7, <3>1
  <2> QED
    BY <1>3, <2>1, <2>2
<1>10. \E n \in 0..Len(f.fields) :
         /\ frames'[Len(frames') - 1].fields = SubSeq(f.fields, n + 1, Len(f.fields))
         /\ InnerAsked(f, n)'
  <2>1. InnerAsked(f, e)'
    BY <1>1, <1>4 DEF InnerAsked
  <2>2. CASE k = 2
    <3>1. /\ frames[1].fields = SubSeq(f.fields, e + 1, Len(f.fields))
          /\ frames[1].path = <<f.tag>>
      BY <1>4, <1>5, <2>2
    <3>2. /\ e + 1 \in 1..Len(f.fields) /\ Field = f.fields[e + 1]
          /\ Tail(frames[1].fields) = SubSeq(f.fields, (e + 1) + 1, Len(f.fields))
      BY <1>2, <1>4, <1>5, <3>1, RestIs
    <3>3. At = <<f.tag, f.fields[e + 1].tag>>
      BY <1>2, <3>1, <3>2, TwoSteps
    <3>4. InnerAsked(f, e + 1)'
      <4>1. <<<<f.tag, f.fields[e + 1].tag>>, v>> \in request'.asked
        BY <1>1, <3>3
      <4>2. \A j \in 1..(e + 1) : j \in 1..e \/ j = e + 1
        BY <3>2
      <4> QED
        BY <2>1, <4>1, <4>2 DEF InnerAsked
    <3>5. Rest[1].fields = Tail(frames[1].fields) /\ k - 1 = 1
      BY <1>2, <2>2
    <3>6. frames'[Len(frames') - 1].fields = SubSeq(f.fields, (e + 1) + 1, Len(f.fields))
      BY <1>7, <3>2, <3>5
    <3> QED
      BY <3>2, <3>4, <3>6
  <2>3. CASE k > 2
    <3>1. k - 1 \in 2..k
      BY <1>3, <2>3
    <3>2. frames'[Len(frames') - 1].fields = frames[k - 1].fields
      BY <1>2, <1>7, <3>1
    <3> QED
      BY <1>4, <2>1, <3>2
  <2> QED
    BY <1>3, <2>2, <2>3
<1>11. \A x \in request'.data : x \in request.data \/ Len(x[1]) # 1
  BY <1>1, <1>2, <1>3
<1>12. request.asked \subseteq request'.asked
  BY <1>1
<1> QED
  BY <1>1, <1>6, <1>8, <1>9, <1>10, <1>11, <1>12, Deeper DEF k, f

\* An object is left when all its fields were prompted for.
LEMMA LeaveObjectAsks ==
  ASSUME IInv, NEW m, IsMethod(m), NEW d \in 0..Len(m.fields), AskedOf(m, d), LeaveObject
  PROVE  AskedOf(m, d)'
<1> DEFINE k == Len(frames)
           fs == m.fields
           f == fs[d]
<1>1. /\ Frame.fields = <<>> /\ k > 1 /\ frames' = Tail(frames)
      /\ request' = request /\ IsStack(frames)
  BY DEF LeaveObject, IInv
<1>2. /\ k \in Nat /\ Frame = frames[1]
      /\ Len(frames') = k - 1 /\ \A i \in 1..(k - 1) : frames'[i] = frames[i + 1]
  <2>1. frames \in Seq(ToSet(frames)) /\ k \in Nat
    BY <1>1 DEF IsStack
  <2>2. Len(Tail(frames)) = k - 1 /\ \A i \in 1..(k - 1) : Tail(frames)[i] = frames[i + 1]
    BY <1>1, StackPop
  <2> QED
    BY <1>1, <2>1, <2>2 DEF Frame
<1>3. /\ frames[k].fields = SubSeq(fs, d + 1, Len(fs))
      /\ \A i \in 1..d : FieldSent(fs[i])
      /\ \A x \in request.data : Len(x[1]) = 1 => \E i \in 1..d : x[1] = <<fs[i].tag>>
      /\ \A i \in 1..d : Entered(fs[i]) /\ i # d => InnerAsked(fs[i], Len(fs[i].fields))
      /\ d > 0 /\ frames[k - 1].path = <<f.tag>>
      /\ \E e \in 0..Len(f.fields) :
           frames[k - 1].fields = SubSeq(f.fields, e + 1, Len(f.fields)) /\ InnerAsked(f, e)
  BY <1>1 DEF AskedOf
<1>4. d \in 1..Len(fs) /\ f.fields \in Seq(ToSet(f.fields))
  <2>1. Len(fs) \in Nat /\ \A i \in 1..Len(fs) : fs[i].fields \in Seq(ToSet(fs[i].fields))
    BY MethodIs
  <2>2. d \in 1..Len(fs)
    BY <1>3, <2>1
  <2> QED
    BY <2>1, <2>2
<1> HIDE DEF k, fs, f
<1>5. /\ \A g : (FieldSent(g)' <=> FieldSent(g)) /\ (Entered(g)' <=> Entered(g))
      /\ \A g, e : InnerAsked(g, e)' <=> InnerAsked(g, e)
  BY <1>1 DEF FieldSent, DataAt, Required, Entered, InnerAsked
<1>6. frames'[Len(frames')] = frames[k]
  <2>1. k - 1 \in 1..(k - 1) /\ (k - 1) + 1 = k
    BY <1>1, <1>2
  <2> QED
    BY <1>2, <2>1
<1>7. CASE k = 2
  <2>1. InnerAsked(f, Len(f.fields))
    <3>0. k - 1 = 1
      BY <1>7
    <3>1. PICK e \in 0..Len(f.fields) :
            frames[1].fields = SubSeq(f.fields, e + 1, Len(f.fields)) /\ InnerAsked(f, e)
      <4>1. \E e \in 0..Len(f.fields) :
              frames[k - 1].fields = SubSeq(f.fields, e + 1, Len(f.fields)) /\ InnerAsked(f, e)
        BY <1>3
      <4> QED
        BY <3>0, <4>1, Zenon
    <3>2. e = Len(f.fields)
      BY <1>1, <1>2, <1>4, <3>1, RestIs
    <3> QED
      BY <3>1, <3>2
  <2>2. Len(frames') = 1 /\ ~ (Len(frames') > 1)
    BY <1>2, <1>7
  <2>3. \A i \in 1..d : Entered(fs[i])' => InnerAsked(fs[i], Len(fs[i].fields))'
    BY <1>3, <1>5, <2>1 DEF f
  <2> QED
    BY <1>1, <1>3, <1>5, <1>6, <2>2, <2>3, Zenon DEF AskedOf, fs
<1>8. CASE k > 2
  <2>1. Len(frames') > 1 /\ Len(frames') # 1
    BY <1>2, <1>8
  <2>2. frames'[Len(frames') - 1] = frames[k - 1]
    <3>1. k - 2 \in 1..(k - 1) /\ (k - 2) + 1 = k - 1 /\ Len(frames') - 1 = k - 2
      BY <1>2, <1>8
    <3> QED
      BY <1>2, <3>1
  <2> QED
    BY <1>1, <1>3, <1>5, <1>6, <2>1, <2>2, Zenon DEF AskedOf, fs, f
<1> QED
  BY <1>1, <1>2, <1>7, <1>8

LEMMA AskedOfKept ==
  ASSUME UNCHANGED <<frames, request>>, NEW m, NEW d, AskedOf(m, d)
  PROVE  AskedOf(m, d)'
<1>1. /\ \A g : (FieldSent(g)' <=> FieldSent(g)) /\ (Entered(g)' <=> Entered(g))
      /\ \A g, e : InnerAsked(g, e)' <=> InnerAsked(g, e)
  BY DEF FieldSent, DataAt, Required, Entered, InnerAsked
<1> QED
  BY <1>1 DEF AskedOf

\* The steps that lead to a prompt or to the call.
LEMMA AskSteps ==
  ASSUME [Next]_vars, pc' \in {"prompt", "exec"}
  PROVE  \/ \E n \in DOMAIN cmds : Action(n)
         \/ /\ pc = "prompt"
            /\ LeaveObject \/ \E v \in Answers : AnswerObject(v) \/ AnswerScalar(v)
         \/ pc \in {"prompt", "exec"} /\ UNCHANGED <<services, frames, request>>
<1>1. ~ StartStep
  <2>1. ~ CfgSetup /\ ~ CfgWrite /\ ~ CfgWriteFails
    BY DEF CfgSetup, NoFileFits, ConfigRead, CfgWrite, CfgWriteFails, WriteEnds
  <2> QED
    BY <2>1 DEF StartStep, ApiListKnown, ApiListFails, ApiListAnswers, MgrSetupFails,
       MgrRegister, MgrSetupEnds, SetupFuncs
<1>2. /\ ~ Interrupt /\ ~ Restart
      /\ \A l \in Lines : ~ ReadLine(l)
  BY DEF Interrupt, Restart, ReadLine
<1>3. ASSUME NEW c \in Custom, Register(c) \/ RegisterCommonCommand(c)
      PROVE  pc \in {"prompt", "exec"} /\ UNCHANGED <<services, frames, request>>
  BY <1>3 DEF Register, RegisterCommonCommand, prompt
<1>4. CASE UNCHANGED vars
  BY <1>4 DEF vars
<1>5. CASE pc = "invoke" /\ InvokeStep
  BY <1>5 DEF InvokeStep, FlagParsePanics, NoCommand, cmdHelp, help, CustomAction, Answered
<1>6. CASE pc = "prompt" /\ PromptStep
  <2>1. ~ InputFails
    BY DEF InputFails, Answered
  <2>2. Send => UNCHANGED <<services, frames, request>>
    BY DEF Send, prompt
  <2> QED
    BY <1>6, <2>1, <2>2 DEF PromptStep
<1>7. ~ (pc = "exec" /\ ExecStep)
  BY DEF ExecStep, ExecDenied, ExecDone, Answered
<1> QED
  BY <1>1, <1>2, <1>3, <1>4, <1>5, <1>6, <1>7, Zenon DEF Next, LoopStep

LEMMA AskStep ==
  ASSUME IInv, TagsDiffer, AskInv, [Next]_vars
  PROVE  AskInv'
<1> SUFFICES ASSUME pc' \in {"prompt", "exec"} PROVE AskInv'
  BY DEF AskInv
<1>1. ASSUME NEW n \in DOMAIN cmds, Action(n)
      PROVE  AskInv'
  BY <1>1, ActionAsks
<1>2. CASE /\ pc \in {"prompt", "exec"}
           /\ \/ LeaveObject
              \/ \E v \in Answers : AnswerObject(v) \/ AnswerScalar(v)
              \/ UNCHANGED <<services, frames, request>>
  <2>1. PICK s \in ToSet(services) : \E m \in ToSet(s.runs.methods) :
          AskedFor(s, m) /\ \E d \in 0..Len(m.fields) : AskedOf(m, d)
    BY <1>2 DEF AskInv
  <2>2. PICK m \in ToSet(s.runs.methods) :
          AskedFor(s, m) /\ \E d \in 0..Len(m.fields) : AskedOf(m, d)
    BY <2>1
  <2>3. PICK d \in 0..Len(m.fields) : AskedOf(m, d)
    BY <2>2
  <2>4. IsMethod(m)
    <3>1. s \in ServiceCommands
      BY DEF IInv, TypeOK, ToSet
    <3> QED
      BY <3>1 DEF ServiceCommands, ServiceCommand, IsMethod
  <2>5. SUFFICES /\ services' = services /\ request'.method = request.method
                 /\ request'.service = request.service
                 /\ \E e \in 0..Len(m.fields) : AskedOf(m, e)'
    <3>1. ASSUME services' = services, AskedFor(s, m)',
                 \E e \in 0..Len(m.fields) : AskedOf(m, e)'
          PROVE  AskInv'
      BY <2>1, <2>2, <3>1, Zenon DEF AskInv
    <3> QED
      BY <2>2, <3>1, AskedForKept
  <2>6. CASE LeaveObject
    BY <2>3, <2>4, <2>6, LeaveObjectAsks DEF LeaveObject
  <2>7. ASSUME NEW v \in Answers, AnswerObject(v) \/ AnswerScalar(v)
        PROVE  /\ services' = services /\ request'.method = request.method
               /\ request'.service = request.service
               /\ \E e \in 0..Len(m.fields) : AskedOf(m, e)'
    <3>1. /\ services' = services /\ request'.method = request.method /\ Prompting
          /\ request'.service = request.service
      BY <2>7, AnswerIs
    <3>2. CASE Len(frames) > 1
      BY <2>3, <2>4, <2>7, <3>1, <3>2, InnerAsks
    <3>3. CASE Len(frames) = 1
      <4>1. d + 1 \in 1..Len(m.fields) /\ AskedOf(m, d + 1)'
        BY <2>3, <2>4, <2>7, <3>3, FieldAsks
      <4>2. d + 1 \in 0..Len(m.fields)
        BY <4>1
      <4> QED
        BY <3>1, <4>1, <4>2
    <3>4. Len(frames) > 1 \/ Len(frames) = 1
      <4>1. frames \in Seq(ToSet(frames)) /\ frames # <<>>
        BY <3>1, PromptFrames DEF IsStack
      <4>2. Len(frames) \in Nat /\ Len(frames) # 0
        BY <4>1
      <4>3. \A n \in Nat : n # 0 => n > 1 \/ n = 1
        OBVIOUS
      <4> QED
        BY <4>2, <4>3, Zenon
    <3> QED
      BY <3>2, <3>3, <3>4, Zenon
  <2>8. CASE UNCHANGED <<services, frames, request>>
    BY <2>3, <2>8, AskedOfKept
  <2> QED
    BY <1>2, <2>6, <2>7, <2>8
<1> QED
  BY <1>1, <1>2, AskSteps, Zenon

LEMMA SentInv ==
  ASSUME IInv, AskInv
  PROVE  SentAsAnswered
<1> SUFFICES ASSUME pc = "exec" PROVE SentAsAnswered
  BY DEF SentAsAnswered
<1>1. PICK s \in ToSet(services) : \E m \in ToSet(s.runs.methods) :
        AskedFor(s, m) /\ \E d \in 0..Len(m.fields) : AskedOf(m, d)
  BY DEF AskInv
<1>2. PICK m \in ToSet(s.runs.methods) :
        AskedFor(s, m) /\ \E d \in 0..Len(m.fields) : AskedOf(m, d)
  BY <1>1
<1>3. PICK d \in 0..Len(m.fields) : AskedOf(m, d)
  BY <1>2
<1>4. IsMethod(m)
  <2>1. s \in ServiceCommands
    BY DEF IInv, TypeOK, ToSet
  <2> QED
    BY <2>1 DEF ServiceCommands, ServiceCommand, IsMethod
<1>5. d = Len(m.fields) /\ Len(frames) = 1
  <2>1. Len(frames) = 1 /\ frames[1].fields = <<>>
    BY DEF IInv, ExecInv
  <2>2. <<>> = SubSeq(m.fields, d + 1, Len(m.fields))
    BY <1>3, <2>1 DEF AskedOf
  <2>3. m.fields \in Seq(ToSet(m.fields))
    BY <1>4, MethodIs
  <2> QED
    BY <2>1, <2>2, <2>3, RestIs
<1>6. ASSUME NEW f \in ToSet(m.fields)
      PROVE  /\ FieldSent(f)
             /\ Entered(f) => \A g \in ToSet(f.fields) : \E w \in Answers :
                  <<<<f.tag, g.tag>>, w>> \in request.asked
  <2>1. PICK i \in 1..Len(m.fields) : f = m.fields[i]
    BY <1>4, MethodIs DEF ToSet
  <2>2. FieldSent(f) /\ (Entered(f) => InnerAsked(f, Len(f.fields)))
    BY <1>3, <1>5, <2>1 DEF AskedOf
  <2>3. f.fields \in Seq(ToSet(f.fields))
    BY <1>4, <2>1, MethodIs
  <2>4. ASSUME Entered(f), NEW g \in ToSet(f.fields)
        PROVE  \E w \in Answers : <<<<f.tag, g.tag>>, w>> \in request.asked
    <3>1. PICK j \in 1..Len(f.fields) : g = f.fields[j]
      BY <2>3 DEF ToSet
    <3> QED
      BY <2>2, <2>4, <3>1 DEF InnerAsked
  <2> QED
    BY <2>2, <2>4
<1> QED
  BY <1>1, <1>2, <1>6, Zenon DEF SentAsAnswered, Entered

\* Of every request the user fills in, however its objects are nested, each
\* field is sent as it was answered; the fields of a request have tags of their
\* own.
THEOREM SentAsWasAnswered ==
  ASSUME TagsDiffer
  PROVE  Spec => []SentAsAnswered
<1>1. Init => AskInv
  BY DEF Init, AskInv
<1>2. IInv /\ AskInv /\ [Next]_vars => AskInv'
  BY AskStep
<1>3. IInv /\ AskInv => SentAsAnswered
  BY SentInv
<1> QED
  BY <1>1, <1>2, <1>3, Invariant, PTL DEF Spec
=============================================================================
