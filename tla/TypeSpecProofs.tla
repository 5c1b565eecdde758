--------------------------- MODULE TypeSpecProofs ---------------------------
(***************************************************************************)
(* Everything that TypeSpec promises, for any program and any number of    *)
(* goroutines: the types, that the descent enters no kind twice, that the  *)
(* registry keeps one type of a kind, that no field is lost and that the   *)
(* rows of a table are told apart by the fields declared to do so.         *)
(*                                                                         *)
(* IInv is about the calls on a stack, FInv about what they have found:    *)
(* the fields of a call are made one to one of those declared before the   *)
(* one it is at, and what is below each of them is whole.                  *)
(***************************************************************************)
EXTENDS TypeSpec, SequenceTheorems, FiniteSetTheorems, TLAPS

\* A field spec is a record with these components, whatever they hold.
IsField(f) ==
  f = [name |-> f.name, tag |-> f.tag, type |-> f.type, kind |-> f.kind,
       enums |-> f.enums, dict |-> f.dict, opts |-> f.opts, attrs |-> f.attrs,
       styles |-> f.styles, fields |-> f.fields]

\* The kind of the type that a call goes through, and no kind.
Kind(fr) == fr.field.kind
Blank(k) == k = ""

\* A call of parseStruct, in a program.
IsFrame(fr, program) ==
  /\ fr = [field |-> fr.field, type |-> fr.type, next |-> fr.next, depth |-> fr.depth]
  /\ IsField(fr.field)
  /\ fr.field.kind = KindOf[fr.type]
  /\ fr.type \in GoTypes
  /\ fr.next \in 1..(Len(program[fr.type]) + 1)

\* Such a call is not done with its fields.
InFields(fr, program) == fr.next <= Len(program[fr.type])

\* The kinds in progress when a type of kind k is gone into as well.
Entered(kinds, k) == kinds \cup ({k} \ {""})

\* A stack of calls: those but the innermost are at a field, and the kinds of
\* all are in progress and differ.
IsStack(s, kinds, program) ==
  /\ s \in Seq(ToSet(s))
  /\ \A i \in 1..Len(s) :
       /\ IsFrame(s[i], program)
       /\ Blank(Kind(s[i])) \/ Kind(s[i]) \in kinds
  /\ \A i \in 2..Len(s) : InFields(s[i], program)
  /\ \A i, j \in 1..Len(s) :
       i # j /\ Kind(s[i]) = Kind(s[j]) => Blank(Kind(s[i]))

\* The inductive invariant.
IInv ==
  /\ visible \in Programs
  /\ DOMAIN specs \subseteq Kinds
  /\ \A k \in DOMAIN specs : specs[k].type \in GoTypes
  /\ pc \in [Procs -> {"idle", "parse", "panicked"}]
  /\ parseSet \in [Procs -> SUBSET (Kinds \ {""})]
  /\ object \in [Procs -> GoTypes \cup {NoType}]
  /\ DOMAIN stack = Procs
  /\ \A p \in Procs :
       /\ stack[p] = <<>> <=> pc[p] # "parse"
       /\ IsStack(stack[p], parseSet[p], visible)

-----------------------------------------------------------------------------
(* Sequences whose elements have no set of their own.                      *)

LEMMA SeqOfItself ==
  ASSUME NEW S, NEW s \in Seq(S)
  PROVE  s \in Seq(ToSet(s))
BY DEF ToSet

\* One element in front of s.
LEMMA PushSeq ==
  ASSUME NEW s, s \in Seq(ToSet(s)), NEW f
  PROVE  /\ <<f>> \o s \in Seq(ToSet(<<f>> \o s))
         /\ Len(<<f>> \o s) = Len(s) + 1
         /\ (<<f>> \o s)[1] = f
         /\ \A i \in 2..(Len(s) + 1) : (<<f>> \o s)[i] = s[i - 1]
<1> DEFINE S == ToSet(s) \cup {f}
<1>1. s \in Seq(S) /\ <<f>> \in Seq(S)
  OBVIOUS
<1>2. <<f>> \o s \in Seq(S)
  BY <1>1
<1>3. <<f>> \o s \in Seq(ToSet(<<f>> \o s))
  BY <1>2, SeqOfItself
<1>4. Len(<<f>>) = 1 /\ <<f>>[1] = f /\ Len(s) \in Nat
  BY <1>1
<1>5. /\ Len(<<f>> \o s) = Len(s) + 1
      /\ (<<f>> \o s)[1] = f
      /\ \A i \in 2..(Len(s) + 1) : (<<f>> \o s)[i] = s[i - 1]
  <2> HIDE DEF S
  <2> QED BY <1>1, <1>4, ConcatProperties
<1> QED BY <1>3, <1>5

\* The elements of s but the first.
LEMMA TailSeq ==
  ASSUME NEW s, s \in Seq(ToSet(s)), s # <<>>
  PROVE  /\ Tail(s) \in Seq(ToSet(Tail(s)))
         /\ Len(s) \in Nat /\ Len(s) > 0
         /\ Len(Tail(s)) = Len(s) - 1
         /\ Head(s) = s[1]
         /\ \A i \in 1..(Len(s) - 1) : Tail(s)[i] = s[i + 1]
<1>1. Tail(s) \in Seq(ToSet(s))
  OBVIOUS
<1>2. Tail(s) \in Seq(ToSet(Tail(s)))
  BY <1>1, SeqOfItself
<1>3. /\ Len(s) \in Nat /\ Len(s) > 0
      /\ Len(Tail(s)) = Len(s) - 1
      /\ \A i \in 1..(Len(s) - 1) : Tail(s)[i] = s[i + 1]
  BY HeadTailProperties, EmptySeq
<1> QED BY <1>2, <1>3

\* Another element in place of the first, or of the first two.
LEMMA ReplaceSeq ==
  ASSUME NEW s, s \in Seq(ToSet(s)), s # <<>>, NEW f
  PROVE  LET r == <<f>> \o Tail(s) IN
         /\ r \in Seq(ToSet(r)) /\ Len(r) = Len(s) /\ Len(s) \in Nat /\ Len(s) > 0
         /\ r[1] = f
         /\ \A i \in 2..Len(s) : r[i] = s[i]
<1> DEFINE r == <<f>> \o Tail(s)
           t == Tail(s)
<1>1. /\ t \in Seq(ToSet(t))
      /\ Len(s) \in Nat /\ Len(s) > 0 /\ Len(t) = Len(s) - 1
      /\ \A i \in 1..(Len(s) - 1) : t[i] = s[i + 1]
  BY TailSeq
<1> HIDE DEF t
<1>2. /\ <<f>> \o t \in Seq(ToSet(<<f>> \o t))
      /\ Len(<<f>> \o t) = Len(t) + 1
      /\ (<<f>> \o t)[1] = f
      /\ \A i \in 2..(Len(t) + 1) : (<<f>> \o t)[i] = t[i - 1]
  BY <1>1, PushSeq
<1>3. r = <<f>> \o t
  BY DEF t
<1> HIDE DEF r
<1>4. /\ r \in Seq(ToSet(r)) /\ Len(r) = Len(t) + 1 /\ r[1] = f
      /\ \A i \in 2..(Len(t) + 1) : r[i] = t[i - 1]
  BY <1>2, <1>3
<1>5. ASSUME NEW i \in 2..Len(s) PROVE r[i] = s[i]
  <2>1. i - 1 \in 1..(Len(s) - 1) /\ (i - 1) + 1 = i /\ i \in 2..(Len(t) + 1)
    BY <1>1
  <2>2. r[i] = t[i - 1] /\ t[i - 1] = s[(i - 1) + 1]
    BY <1>1, <1>4, <2>1
  <2> QED BY <2>1, <2>2
<1>6. Len(r) = Len(s)
  BY <1>1, <1>4
<1> QED BY <1>1, <1>4, <1>5, <1>6 DEF r

LEMMA PopSeq ==
  ASSUME NEW s, s \in Seq(ToSet(s)), Len(s) > 1, NEW g
  PROVE  LET r == <<g>> \o Tail(Tail(s)) IN
         /\ r \in Seq(ToSet(r)) /\ Len(r) = Len(s) - 1 /\ Len(s) \in Nat
         /\ r[1] = g
         /\ \A i \in 2..(Len(s) - 1) : r[i] = s[i + 1]
<1> DEFINE t == Tail(s)
           r == <<g>> \o Tail(t)
<1>1. s # <<>>
  BY EmptySeq
<1>2. /\ t \in Seq(ToSet(t)) /\ Len(s) \in Nat /\ Len(t) = Len(s) - 1 /\ Len(t) > 0
      /\ \A i \in 1..(Len(s) - 1) : t[i] = s[i + 1]
  BY <1>1, TailSeq
<1> HIDE DEF t
<1>3. t # <<>>
  BY <1>2, EmptySeq
<1>4. /\ Tail(t) \in Seq(ToSet(Tail(t))) /\ Len(Tail(t)) = Len(t) - 1
      /\ \A i \in 1..(Len(t) - 1) : Tail(t)[i] = t[i + 1]
  BY <1>2, <1>3, TailSeq
<1>5. /\ r \in Seq(ToSet(r)) /\ Len(r) = Len(s) - 1
      /\ r[1] = g
      /\ \A i \in 2..(Len(s) - 1) : r[i] = Tail(t)[i - 1]
  <2> DEFINE u == Tail(t)
  <2>1. u \in Seq(ToSet(u)) /\ Len(u) + 1 = Len(s) - 1
    BY <1>2, <1>4
  <2> HIDE DEF u
  <2>2. /\ <<g>> \o u \in Seq(ToSet(<<g>> \o u))
        /\ Len(<<g>> \o u) = Len(u) + 1
        /\ (<<g>> \o u)[1] = g
        /\ \A i \in 2..(Len(u) + 1) : (<<g>> \o u)[i] = u[i - 1]
    BY <2>1, PushSeq
  <2>3. r = <<g>> \o u /\ u = Tail(t)
    BY DEF u
  <2> HIDE DEF r
  <2> QED BY <2>1, <2>2, <2>3
<1>6. \A i \in 2..(Len(s) - 1) : r[i] = s[i + 1]
  <2> SUFFICES ASSUME NEW i \in 2..(Len(s) - 1) PROVE r[i] = s[i + 1]
    OBVIOUS
  <2>1. i - 1 \in 1..(Len(t) - 1) /\ i \in 1..(Len(s) - 1) /\ (i - 1) + 1 = i
    BY <1>2
  <2>2. r[i] = Tail(t)[i - 1] /\ Tail(t)[i - 1] = t[i] /\ t[i] = s[i + 1]
    BY <1>2, <1>4, <1>5, <2>1
  <2> QED BY <2>2
<1> QED BY <1>2, <1>5, <1>6 DEF r, t

-----------------------------------------------------------------------------
(* What a step does to a stack.                                            *)

\* IsStack, with the parts that each leaf needs.
LEMMA StackParts ==
  ASSUME NEW s, NEW kinds, NEW program, IsStack(s, kinds, program)
  PROVE  /\ s \in Seq(ToSet(s))
         /\ \A i \in 1..Len(s) : IsFrame(s[i], program)
         /\ \A i \in 1..Len(s) : Blank(Kind(s[i])) \/ Kind(s[i]) \in kinds
         /\ \A i \in 2..Len(s) : InFields(s[i], program)
         /\ \A i, j \in 1..Len(s) :
              i # j /\ Kind(s[i]) = Kind(s[j]) => Blank(Kind(s[i]))
BY DEF IsStack

\* The innermost call goes on to its next field.
LEMMA ReplaceTop ==
  ASSUME NEW s, NEW kinds, NEW program, IsStack(s, kinds, program), s # <<>>,
         NEW f, IsFrame(f, program), Kind(f) = Kind(s[1])
  PROVE  IsStack(<<f>> \o Tail(s), kinds, program) /\ <<f>> \o Tail(s) # <<>>
<1> DEFINE r == <<f>> \o Tail(s)
<1>frames. \A i \in 1..Len(s) : IsFrame(s[i], program)
  BY StackParts
<1>kinds. \A i \in 1..Len(s) : Blank(Kind(s[i])) \/ Kind(s[i]) \in kinds
  BY StackParts
<1>nexts. \A i \in 2..Len(s) : InFields(s[i], program)
  BY StackParts
<1>differ. \A i, j \in 1..Len(s) :
             i # j /\ Kind(s[i]) = Kind(s[j]) => Blank(Kind(s[i]))
  BY StackParts
<1>1. s \in Seq(ToSet(s))
  BY DEF IsStack
<1>2. /\ r \in Seq(ToSet(r)) /\ Len(r) = Len(s) /\ Len(s) \in Nat /\ Len(s) > 0
      /\ r[1] = f
      /\ \A i \in 2..Len(s) : r[i] = s[i]
  BY <1>1, ReplaceSeq
<1>3. r # <<>>
  BY <1>2
<1> HIDE DEF r
<1>4. \A i \in 1..Len(r) : Kind(r[i]) = Kind(s[i])
  BY <1>2
<1>5. \A i \in 1..Len(r) : IsFrame(r[i], program)
  BY <1>2, <1>frames
<1>6. \A i \in 2..Len(r) : InFields(r[i], program)
  BY <1>2, <1>nexts
<1>7. IsStack(r, kinds, program)
  BY <1>2, <1>4, <1>5, <1>6 DEF IsStack
<1> QED BY <1>3, <1>7 DEF r

\* The descent into a struct.
LEMMA Push ==
  ASSUME NEW s, NEW kinds, NEW program, IsStack(s, kinds, program), s # <<>>,
         InFields(s[1], program),
         NEW f, IsFrame(f, program), Blank(Kind(f)) \/ Kind(f) \notin kinds
  PROVE  /\ IsStack(<<f>> \o s, Entered(kinds, Kind(f)), program)
         /\ <<f>> \o s # <<>>
<1> DEFINE r == <<f>> \o s
           all == Entered(kinds, Kind(f))
<1>frames. \A i \in 1..Len(s) : IsFrame(s[i], program)
  BY StackParts
<1>kinds. \A i \in 1..Len(s) : Blank(Kind(s[i])) \/ Kind(s[i]) \in kinds
  BY StackParts
<1>nexts. \A i \in 2..Len(s) : InFields(s[i], program)
  BY StackParts
<1>differ. \A i, j \in 1..Len(s) :
             i # j /\ Kind(s[i]) = Kind(s[j]) => Blank(Kind(s[i]))
  BY StackParts
<1>1. s \in Seq(ToSet(s)) /\ Len(s) \in Nat /\ Len(s) > 0
  BY TailSeq DEF IsStack
<1>2. /\ r \in Seq(ToSet(r)) /\ Len(r) = Len(s) + 1
      /\ r[1] = f
      /\ \A i \in 2..(Len(s) + 1) : r[i] = s[i - 1]
  BY <1>1, PushSeq
<1>3. r # <<>>
  BY <1>1, <1>2
<1> HIDE DEF r
<1>each. \A i \in 1..Len(r) :
           (i = 1 /\ r[i] = f) \/ (i - 1 \in 1..Len(s) /\ r[i] = s[i - 1])
  <2> SUFFICES ASSUME NEW i \in 1..Len(r)
               PROVE  (i = 1 /\ r[i] = f) \/ (i - 1 \in 1..Len(s) /\ r[i] = s[i - 1])
    OBVIOUS
  <2>0. i = 1 => r[i] = f
    BY <1>2
  <2>1. Len(s) \in Nat /\ Len(r) = Len(s) + 1
    BY <1>1, <1>2
  <2>2. i # 1 => i \in 2..(Len(s) + 1) /\ i - 1 \in 1..Len(s)
    BY <2>1
  <2> QED BY <1>2, <2>0, <2>2
<1>4. \A i \in 1..Len(r) : IsFrame(r[i], program)
  BY <1>each, <1>frames
<1>5. \A i \in 1..Len(r) : Blank(Kind(r[i])) \/ Kind(r[i]) \in all
  <2>1. kinds \subseteq all /\ (Blank(Kind(f)) \/ Kind(f) \in all)
    BY DEF Blank, Entered
  <2> HIDE DEF all
  <2> QED BY <1>each, <1>kinds, <2>1
<1>6. \A i \in 2..Len(r) : InFields(r[i], program)
  <2> SUFFICES ASSUME NEW i \in 2..Len(r) PROVE InFields(r[i], program)
    OBVIOUS
  <2>1. CASE i = 2
    BY <1>1, <1>2, <2>1
  <2>2. CASE i # 2
    <3>1. i - 1 \in 2..Len(s) /\ r[i] = s[i - 1]
      BY <1>1, <1>2, <2>2
    <3> QED BY <3>1, <1>nexts
  <2> QED BY <2>1, <2>2
<1>7. \A i, j \in 1..Len(r) :
        i # j /\ Kind(r[i]) = Kind(r[j]) => Blank(Kind(r[i]))
  <2> SUFFICES ASSUME NEW i \in 1..Len(r), NEW j \in 1..Len(r), i # j,
                      Kind(r[i]) = Kind(r[j])
               PROVE  Blank(Kind(r[i]))
    OBVIOUS
  <2>1. CASE i # 1 /\ j # 1
    <3>1. /\ i - 1 \in 1..Len(s) /\ r[i] = s[i - 1]
          /\ j - 1 \in 1..Len(s) /\ r[j] = s[j - 1] /\ i - 1 # j - 1
      BY <1>1, <1>2, <2>1
    <3> QED BY <3>1, <1>differ, <1>kinds
  <2>2. CASE i = 1
    <3>1. j - 1 \in 1..Len(s) /\ r[j] = s[j - 1] /\ r[i] = f
      BY <1>1, <1>2, <2>2
    <3> QED BY <3>1, <1>differ, <1>kinds
  <2>3. CASE j = 1
    <3>1. i - 1 \in 1..Len(s) /\ r[i] = s[i - 1] /\ r[j] = f
      BY <1>1, <1>2, <2>3
    <3> QED BY <3>1, <1>differ, <1>kinds
  <2> QED BY <2>1, <2>2, <2>3
<1>8. IsStack(r, all, program)
  BY <1>2, <1>4, <1>5, <1>6, <1>7 DEF IsStack
<1> QED BY <1>3, <1>8 DEF r

\* The return to the call that has the field.
LEMMA Pop ==
  ASSUME NEW s, NEW kinds, NEW program, IsStack(s, kinds, program), Len(s) > 1,
         NEW g, IsFrame(g, program), Kind(g) = Kind(s[2])
  PROVE  /\ IsStack(<<g>> \o Tail(Tail(s)), kinds \ {Kind(s[1])}, program)
         /\ <<g>> \o Tail(Tail(s)) # <<>>
<1> DEFINE r == <<g>> \o Tail(Tail(s))
           left == kinds \ {Kind(s[1])}
<1>frames. \A i \in 1..Len(s) : IsFrame(s[i], program)
  BY StackParts
<1>kinds. \A i \in 1..Len(s) : Blank(Kind(s[i])) \/ Kind(s[i]) \in kinds
  BY StackParts
<1>nexts. \A i \in 2..Len(s) : InFields(s[i], program)
  BY StackParts
<1>differ. \A i, j \in 1..Len(s) :
             i # j /\ Kind(s[i]) = Kind(s[j]) => Blank(Kind(s[i]))
  BY StackParts
<1>1. s \in Seq(ToSet(s)) /\ s # <<>>
  BY StackParts, EmptySeq
<1>2. /\ r \in Seq(ToSet(r)) /\ Len(r) = Len(s) - 1 /\ Len(s) \in Nat
      /\ r[1] = g
      /\ \A i \in 2..(Len(s) - 1) : r[i] = s[i + 1]
  BY <1>1, PopSeq, ZenonT(60)
<1>3. r # <<>>
  BY <1>2
<1> HIDE DEF r
<1>4. \A i \in 1..Len(r) : i + 1 \in 2..Len(s) /\ Kind(r[i]) = Kind(s[i + 1])
  <2> SUFFICES ASSUME NEW i \in 1..Len(r)
               PROVE  i + 1 \in 2..Len(s) /\ Kind(r[i]) = Kind(s[i + 1])
    OBVIOUS
  <2>1. CASE i = 1
    BY <1>2, <2>1
  <2>2. CASE i # 1
    BY <1>2, <2>2
  <2> QED BY <2>1, <2>2
<1>5. \A i \in 1..Len(r) : IsFrame(r[i], program)
  BY <1>2, <1>frames
<1>6. \A i \in 1..Len(r) : Blank(Kind(r[i])) \/ Kind(r[i]) \in left
  <2> SUFFICES ASSUME NEW i \in 1..Len(r), ~Blank(Kind(r[i]))
               PROVE  Kind(r[i]) \in left
    OBVIOUS
  <2>1. /\ i + 1 \in 1..Len(s) /\ 1 \in 1..Len(s) /\ i + 1 # 1
        /\ Kind(r[i]) = Kind(s[i + 1])
    BY <1>2, <1>4
  <2> QED BY <2>1, <1>kinds, <1>differ
<1>7. \A i \in 2..Len(r) : InFields(r[i], program)
  <2> SUFFICES ASSUME NEW i \in 2..Len(r) PROVE InFields(r[i], program)
    OBVIOUS
  <2>1. i + 1 \in 2..Len(s) /\ r[i] = s[i + 1]
    BY <1>2
  <2> QED BY <2>1, <1>nexts
<1>8. \A i, j \in 1..Len(r) :
         i # j /\ Kind(r[i]) = Kind(r[j]) => Blank(Kind(r[i]))
  <2> SUFFICES ASSUME NEW i \in 1..Len(r), NEW j \in 1..Len(r), i # j,
                      Kind(r[i]) = Kind(r[j])
               PROVE  Blank(Kind(r[i]))
    OBVIOUS
  <2>1. /\ i + 1 \in 1..Len(s) /\ j + 1 \in 1..Len(s) /\ i + 1 # j + 1
        /\ Kind(r[i]) = Kind(s[i + 1])
        /\ Kind(r[j]) = Kind(s[j + 1])
    BY <1>2, <1>4
  <2> QED BY <2>1, <1>differ
<1>9. IsStack(r, left, program)
  BY <1>2, <1>5, <1>6, <1>7, <1>8 DEF IsStack
<1> QED BY <1>3, <1>9 DEF r

-----------------------------------------------------------------------------
(* The frames the steps put on a stack.                                    *)

\* A call that has added something to its fields and goes on.
LEMMA AdvancedFrame ==
  ASSUME NEW fr, NEW program, IsFrame(fr, program), InFields(fr, program),
         Len(program[fr.type]) \in Nat, NEW fields
  PROVE  LET g == [fr EXCEPT !.next = @ + 1, !.field.fields = fields]
         IN  IsFrame(g, program) /\ Kind(g) = Kind(fr)
<1> DEFINE g == [fr EXCEPT !.next = @ + 1, !.field.fields = fields]
           f == [fr.field EXCEPT !.fields = fields]
           h == [fr EXCEPT !.next = @ + 1]
<1>1. fr = [field |-> fr.field, type |-> fr.type, next |-> fr.next, depth |-> fr.depth]
  BY DEF IsFrame
<1>2. g = [field |-> f, type |-> fr.type, next |-> fr.next + 1, depth |-> fr.depth]
  <2>1. h = [field |-> fr.field, type |-> fr.type, next |-> fr.next + 1,
             depth |-> fr.depth]
    BY <1>1
  <2>2. h.field = fr.field
    BY <2>1
  <2>3. g = [h EXCEPT !.field.fields = fields]
    OBVIOUS
  <2>4. g = [h EXCEPT !.field = [h.field EXCEPT !.fields = fields]]
    BY <2>3
  <2>5. g = [h EXCEPT !.field = f]
    BY <2>2, <2>4
  <2> HIDE DEF g, f, h
  <2> QED BY <2>1, <2>5
<1>3. IsField(fr.field)
  BY DEF IsFrame
<1>4. IsField(f) /\ f.kind = fr.field.kind
  BY <1>3 DEF IsField
<1> HIDE DEF f
<1>5. fr.next + 1 \in 1..(Len(program[fr.type]) + 1)
  <2>1. fr.next \in 1..(Len(program[fr.type]) + 1)
    BY DEF IsFrame
  <2>2. fr.next <= Len(program[fr.type])
    BY DEF InFields
  <2> QED BY <2>1, <2>2
<1>6. fr.field.kind = KindOf[fr.type] /\ fr.type \in GoTypes
  BY DEF IsFrame
<1>7. g.field = f /\ g.type = fr.type /\ g.next = fr.next + 1 /\ g.depth = fr.depth
  BY <1>2
<1>8. g = [field |-> g.field, type |-> g.type, next |-> g.next, depth |-> g.depth]
  BY <1>2, <1>7
<1> HIDE DEF g
<1>9. IsFrame(g, program)
  BY <1>4, <1>5, <1>6, <1>7, <1>8 DEF IsFrame
<1>10. Kind(g) = Kind(fr)
  BY <1>4, <1>7 DEF Kind
<1> QED BY <1>9, <1>10 DEF g

\* A call of parseStruct that begins.
LEMMA NewFrame ==
  ASSUME NEW field, IsField(field), NEW t \in GoTypes, field.kind = KindOf[t],
         NEW depth, NEW program, Len(program[t]) \in Nat
  PROVE  /\ IsFrame(Frame(field, t, depth), program)
         /\ Kind(Frame(field, t, depth)) = field.kind
<1>1. 1 \in 1..(Len(program[t]) + 1)
  OBVIOUS
<1> QED BY <1>1 DEF Frame, IsFrame, Kind

LEMMA NewFieldKind ==
  ASSUME NEW fd, NEW depth, Inner(fd.go) # NoType
  PROVE  IsField(NewField(fd, depth)) /\ NewField(fd, depth).kind = KindOf[Inner(fd.go)]
<1>1. IsField(NewField(fd, depth))
  BY DEF NewField, IsField
<1>2. NewField(fd, depth).kind = KindOf[Inner(fd.go)]
  BY DEF NewField
<1> QED BY <1>1, <1>2

\* What is gone into is a struct type.
LEMMA InnerIsType ==
  ASSUME NEW go, Inner(go) # NoType
  PROVE  Inner(go) \in GoTypes
BY DEF Inner

-----------------------------------------------------------------------------
(* The steps.                                                              *)

\* No call at all.
LEMMA NoCalls ==
  ASSUME NEW kinds, NEW program
  PROVE  IsStack(<<>>, kinds, program)
<1>1. <<>> \in Seq(ToSet(<<>>)) /\ Len(<<>>) = 0
  OBVIOUS
<1>2. 1..Len(<<>>) = {} /\ 2..Len(<<>>) = {}
  BY <1>1
<1> QED BY <1>1, <1>2 DEF IsStack

LEMMA InitIInv == Init => IInv
<1> SUFFICES ASSUME Init PROVE IInv
  OBVIOUS
<1>1. /\ visible \in Programs
      /\ DOMAIN specs \subseteq Kinds
      /\ \A k \in DOMAIN specs : specs[k].type \in GoTypes
      /\ pc \in [Procs -> {"idle", "parse", "panicked"}]
      /\ parseSet \in [Procs -> SUBSET (Kinds \ {""})]
      /\ object \in [Procs -> GoTypes \cup {NoType}]
      /\ DOMAIN stack = Procs
  BY DEF Init
<1>2. ASSUME NEW p \in Procs
      PROVE  /\ stack[p] = <<>> <=> pc[p] # "parse"
             /\ IsStack(stack[p], parseSet[p], visible)
  <2>1. stack[p] = <<>> /\ pc[p] = "idle"
    BY DEF Init
  <2> QED BY <2>1, NoCalls
<1> QED BY <1>1, <1>2 DEF IInv

\* A step of p that leaves it with the calls s and the kinds in progress.
LEMMA StackStep ==
  ASSUME IInv, NEW p \in Procs, NEW s, NEW kinds \in SUBSET (Kinds \ {""}),
         NEW c \in {"idle", "parse", "panicked"},
         s = <<>> <=> c # "parse",
         IsStack(s, kinds, visible),
         pc' = [pc EXCEPT ![p] = c],
         stack' = [stack EXCEPT ![p] = s],
         parseSet' = [parseSet EXCEPT ![p] = kinds],
         visible' = visible, object' = object,
         DOMAIN specs' \subseteq Kinds,
         \A k \in DOMAIN specs' : specs'[k].type \in GoTypes
  PROVE  IInv'
<1>1. /\ visible' \in Programs
      /\ pc' \in [Procs -> {"idle", "parse", "panicked"}]
      /\ parseSet' \in [Procs -> SUBSET (Kinds \ {""})]
      /\ object' \in [Procs -> GoTypes \cup {NoType}]
      /\ DOMAIN stack' = Procs
  BY DEF IInv
<1>2. ASSUME NEW q \in Procs
      PROVE  /\ stack'[q] = <<>> <=> pc'[q] # "parse"
             /\ IsStack(stack'[q], parseSet'[q], visible')
  <2>0. /\ pc \in [Procs -> {"idle", "parse", "panicked"}]
        /\ parseSet \in [Procs -> SUBSET (Kinds \ {""})]
        /\ DOMAIN stack = Procs
        /\ stack[q] = <<>> <=> pc[q] # "parse"
        /\ IsStack(stack[q], parseSet[q], visible)
    BY DEF IInv
  <2>1. CASE q = p
    <3>1. stack'[q] = s /\ pc'[q] = c /\ parseSet'[q] = kinds
      BY <2>0, <2>1
    <3> QED BY <3>1
  <2>2. CASE q # p
    <3>1. stack'[q] = stack[q] /\ pc'[q] = pc[q] /\ parseSet'[q] = parseSet[q]
      BY <2>0, <2>2
    <3> QED BY <2>0, <3>1
  <2> QED BY <2>1, <2>2
<1> QED BY <1>1, <1>2 DEF IInv

\* The same for a step inside of a parse, which changes no spec.
LEMMA ParseStep ==
  ASSUME IInv, NEW p \in Procs, pc[p] = "parse",
         NEW s, NEW kinds \in SUBSET (Kinds \ {""}),
         s # <<>>, IsStack(s, kinds, visible),
         stack' = [stack EXCEPT ![p] = s],
         parseSet' = [parseSet EXCEPT ![p] = kinds],
         UNCHANGED <<visible, specs, pc, object>>
  PROVE  IInv'
<1>1. pc' = [pc EXCEPT ![p] = "parse"]
  BY DEF IInv
<1>2. /\ DOMAIN specs' \subseteq Kinds
      /\ \A k \in DOMAIN specs' : specs'[k].type \in GoTypes
  BY DEF IInv
<1> QED BY <1>1, <1>2, StackStep

\* What is known of a goroutine that parses.
LEMMA Parsing ==
  ASSUME IInv, NEW p \in Procs, pc[p] = "parse"
  PROVE  /\ IsStack(stack[p], parseSet[p], visible) /\ stack[p] # <<>>
         /\ Len(stack[p]) \in Nat /\ Len(stack[p]) > 0
         /\ Top(p) = stack[p][1] /\ IsFrame(Top(p), visible)
         /\ parseSet[p] \in SUBSET (Kinds \ {""})
         /\ \A t \in GoTypes : Len(visible[t]) \in Nat
         /\ \A i \in 1..Len(stack[p]) : /\ IsFrame(stack[p][i], visible)
                                        /\ stack[p][i].type \in GoTypes
<1>1. IsStack(stack[p], parseSet[p], visible) /\ stack[p] # <<>>
  BY DEF IInv
<1>2. /\ Len(stack[p]) \in Nat /\ Len(stack[p]) > 0
      /\ Head(stack[p]) = stack[p][1]
  BY <1>1, StackParts, TailSeq
<1>3. \A i \in 1..Len(stack[p]) : IsFrame(stack[p][i], visible)
  BY <1>1, StackParts
<1>4. \A i \in 1..Len(stack[p]) : stack[p][i].type \in GoTypes
  BY <1>3 DEF IsFrame
<1>5. parseSet[p] \in SUBSET (Kinds \ {""})
  BY DEF IInv
<1>6. visible \in Programs
  BY DEF IInv
<1>7. \A t \in GoTypes : Len(visible[t]) \in Nat
  BY <1>6, TypesAssumption
<1>8. Top(p) = stack[p][1]
  BY <1>2 DEF Top
<1>9. IsFrame(Top(p), visible)
  <2>1. 1 \in 1..Len(stack[p])
    BY <1>2
  <2> QED BY <1>3, <1>8, <2>1
<1> QED BY <1>1, <1>2, <1>3, <1>4, <1>5, <1>7, <1>8, <1>9

LEMMA RegisterIInv ==
  ASSUME IInv, NEW p \in Procs, NEW t \in Roots, Register(p, t)
  PROVE  IInv'
<1> DEFINE fr == Frame(BaseSpec(t), t, 0)
           kinds == {KindOf[t]} \ {""}
<1>1. t \in GoTypes /\ KindOf[t] \in Kinds /\ Len(visible[t]) \in Nat
  BY TypesAssumption DEF Kinds, IInv
<1>2. IsField(BaseSpec(t)) /\ BaseSpec(t).kind = KindOf[t]
  BY DEF IsField, BaseSpec
<1>3. IsFrame(fr, visible) /\ Kind(fr) = KindOf[t]
  BY <1>1, <1>2, NewFrame
<1> HIDE DEF fr
<1>4. <<fr>> \in Seq(ToSet(<<fr>>)) /\ Len(<<fr>>) = 1 /\ <<fr>>[1] = fr
  <2>1. <<fr>> \in Seq({fr})
    OBVIOUS
  <2> QED BY <2>1, SeqOfItself
<1>5. Blank(KindOf[t]) \/ KindOf[t] \in kinds
  BY DEF Blank
<1> HIDE DEF kinds
<1>6. \A i \in 1..Len(<<fr>>) : <<fr>>[i] = fr /\ i = 1
  BY <1>4
<1>7. 2..Len(<<fr>>) = {}
  BY <1>4
<1>8. IsStack(<<fr>>, kinds, visible) /\ <<fr>> # <<>>
  BY <1>3, <1>4, <1>5, <1>6, <1>7 DEF IsStack
<1>9. kinds \in SUBSET (Kinds \ {""})
  BY <1>1 DEF kinds
<1>10. /\ pc' = [pc EXCEPT ![p] = "parse"]
       /\ stack' = [stack EXCEPT ![p] = <<fr>>]
       /\ parseSet' = [parseSet EXCEPT ![p] = kinds]
       /\ visible' = visible /\ specs' = specs /\ object' = object
  BY DEF Register, fr, kinds
<1>11. /\ DOMAIN specs' \subseteq Kinds
       /\ \A k \in DOMAIN specs' : specs'[k].type \in GoTypes
  BY <1>10 DEF IInv
<1> QED BY <1>8, <1>9, <1>10, <1>11, StackStep

\* A step that is done with the field p is at.
LEMMA FieldDone ==
  ASSUME IInv, NEW p \in Procs, AtField(p), NEW fields,
         stack' = [stack EXCEPT ![p] = <<Advanced(p, fields)>> \o Tail(@)],
         UNCHANGED <<visible, specs, pc, parseSet, object>>
  PROVE  IInv'
<1> DEFINE s == stack[p]
           f == Advanced(p, fields)
<1>1. pc[p] = "parse" /\ InFields(Top(p), visible)
  BY DEF AtField, InFields
<1>2. /\ IsStack(s, parseSet[p], visible) /\ s # <<>>
      /\ Len(s) > 0 /\ Len(s) \in Nat
      /\ Top(p) = s[1] /\ IsFrame(Top(p), visible)
      /\ parseSet[p] \in SUBSET (Kinds \ {""})
  BY <1>1, Parsing
<1>3. Len(visible[Top(p).type]) \in Nat
  <2>1. Top(p).type \in GoTypes
    BY <1>2 DEF IsFrame
  <2> QED BY <1>1, <2>1, Parsing
<1>4. IsFrame(f, visible) /\ Kind(f) = Kind(Top(p))
  <2> DEFINE all == Top(p).field.fields \o fields
  <2>1. f = [Top(p) EXCEPT !.next = @ + 1, !.field.fields = all]
    BY DEF Advanced
  <2> HIDE DEF all, f
  <2> QED BY <1>1, <1>2, <1>3, <2>1, AdvancedFrame
<1> HIDE DEF f
<1>5. IsStack(<<f>> \o Tail(s), parseSet[p], visible) /\ <<f>> \o Tail(s) # <<>>
  BY <1>2, <1>4, ReplaceTop
<1>6. stack' = [stack EXCEPT ![p] = <<f>> \o Tail(s)]
  BY DEF f
<1>7. parseSet' = [parseSet EXCEPT ![p] = parseSet[p]]
  BY DEF IInv
<1> HIDE DEF s
<1> QED BY <1>1, <1>2, <1>5, <1>6, <1>7, ParseStep

LEMMA SkipFieldIInv ==
  ASSUME IInv, NEW p \in Procs, SkipField(p)
  PROVE  IInv'
<1>1. /\ AtField(p)
      /\ stack' = [stack EXCEPT ![p] = <<Advanced(p, <<>>)>> \o Tail(@)]
      /\ UNCHANGED <<visible, specs, pc, parseSet, object>>
  BY DEF SkipField
<1> QED BY <1>1, FieldDone

LEMMA LeafFieldIInv ==
  ASSUME IInv, NEW p \in Procs, LeafField(p)
  PROVE  IInv'
<1> DEFINE fields == <<NewField(Fd(p), Top(p).depth)>>
<1>1. /\ AtField(p)
      /\ stack' = [stack EXCEPT ![p] = <<Advanced(p, fields)>> \o Tail(@)]
      /\ UNCHANGED <<visible, specs, pc, parseSet, object>>
  BY DEF LeafField
<1> HIDE DEF fields
<1> QED BY <1>1, FieldDone

\* The panic and the end of a parse leave no calls.
LEMMA ParsePanicsIInv ==
  ASSUME IInv, NEW p \in Procs, ParsePanics(p)
  PROVE  IInv'
<1>1. /\ pc' = [pc EXCEPT ![p] = "panicked"]
      /\ stack' = [stack EXCEPT ![p] = <<>>]
      /\ parseSet' = [parseSet EXCEPT ![p] = {}]
      /\ visible' = visible /\ specs' = specs /\ object' = object
  BY DEF ParsePanics
<1>2. /\ DOMAIN specs' \subseteq Kinds
      /\ \A k \in DOMAIN specs' : specs'[k].type \in GoTypes
  BY <1>1 DEF IInv
<1>3. IsStack(<<>>, {}, visible) /\ {} \in SUBSET (Kinds \ {""})
  BY NoCalls
<1> QED BY <1>1, <1>2, <1>3, StackStep

LEMMA StoreSpecIInv ==
  ASSUME IInv, NEW p \in Procs, StoreSpec(p)
  PROVE  IInv'
<1> DEFINE spec == Top(p).field
<1>0. pc[p] = "parse"
  BY DEF StoreSpec
<1>1. spec.kind \in Kinds /\ Top(p).type \in GoTypes
  <2>1. IsFrame(Top(p), visible)
    BY <1>0, Parsing
  <2> QED BY <2>1 DEF IsFrame, Kinds
<1>2. /\ pc' = [pc EXCEPT ![p] = "idle"]
      /\ stack' = [stack EXCEPT ![p] = <<>>]
      /\ parseSet' = [parseSet EXCEPT ![p] = {}]
      /\ visible' = visible /\ object' = object
  BY DEF StoreSpec
<1>3. specs' = [k \in DOMAIN specs \cup {spec.kind} |->
                  IF k \in DOMAIN specs THEN specs[k]
                  ELSE [type |-> Top(p).type, fields |-> spec.fields]]
  BY DEF StoreSpec
<1>4. /\ DOMAIN specs \subseteq Kinds
      /\ \A k \in DOMAIN specs : specs[k].type \in GoTypes
  BY DEF IInv
<1> HIDE DEF spec
<1>5. DOMAIN specs' \subseteq Kinds
  BY <1>1, <1>3, <1>4
<1>6. \A k \in DOMAIN specs' : specs'[k].type \in GoTypes
  BY <1>1, <1>3, <1>4
<1>7. IsStack(<<>>, {}, visible) /\ {} \in SUBSET (Kinds \ {""})
  BY NoCalls
<1> QED BY <1>2, <1>5, <1>6, <1>7, StackStep

LEMMA EnterStructIInv ==
  ASSUME IInv, NEW p \in Procs, EnterStruct(p)
  PROVE  IInv'
<1> DEFINE t     == Inner(Fd(p).go)
           depth == Top(p).depth
           field == NewField(Fd(p), depth)
           below == InnerDepth(Fd(p).go, depth)
           f     == Frame(field, t, below)
           s     == stack[p]
           kinds == Entered(parseSet[p], KindOf[t])
<1>1. /\ pc[p] = "parse" /\ InFields(Top(p), visible)
      /\ t # NoType
      /\ Blank(KindOf[t]) \/ KindOf[t] \notin parseSet[p]
  BY DEF EnterStruct, AtField, InFields, Enterable, Blank
<1>2. /\ stack' = [stack EXCEPT ![p] = <<f>> \o s]
      /\ parseSet' = [parseSet EXCEPT ![p] = kinds]
      /\ UNCHANGED <<visible, specs, pc, object>>
  BY DEF EnterStruct, Entered
<1>3. t \in GoTypes /\ KindOf[t] \in Kinds
  <2>1. t \in GoTypes
    BY <1>1, InnerIsType
  <2> QED BY <2>1 DEF Kinds
<1>4. IsField(field) /\ field.kind = KindOf[t]
  BY <1>1, NewFieldKind
<1> HIDE DEF t, depth, field, below
<1>5. /\ IsStack(s, parseSet[p], visible) /\ s # <<>>
      /\ Top(p) = s[1] /\ parseSet[p] \in SUBSET (Kinds \ {""})
      /\ Len(visible[t]) \in Nat
  BY <1>1, <1>3, Parsing
<1>6. IsFrame(f, visible) /\ Kind(f) = KindOf[t]
  BY <1>3, <1>4, <1>5, NewFrame
<1> HIDE DEF f, s
<1>7. IsStack(<<f>> \o s, kinds, visible) /\ <<f>> \o s # <<>>
  <2>1. InFields(s[1], visible)
    BY <1>1, <1>5
  <2>2. Blank(Kind(f)) \/ Kind(f) \notin parseSet[p]
    BY <1>1, <1>6
  <2>3. /\ IsStack(<<f>> \o s, Entered(parseSet[p], Kind(f)), visible)
        /\ <<f>> \o s # <<>>
    BY <1>5, <1>6, <2>1, <2>2, Push
  <2> QED BY <1>6, <2>3
<1>8. kinds \in SUBSET (Kinds \ {""})
  BY <1>3, <1>5 DEF Entered
<1> HIDE DEF kinds
<1> QED BY <1>1, <1>2, <1>7, <1>8, ParseStep

LEMMA LeaveStructIInv ==
  ASSUME IInv, NEW p \in Procs, LeaveStruct(p)
  PROVE  IInv'
<1> DEFINE s      == stack[p]
           up     == s[2]
           fields == Append(up.field.fields, Top(p).field)
           g      == [up EXCEPT !.next = @ + 1, !.field.fields = fields]
           kinds  == parseSet[p] \ {Kind(s[1])}
<1>1. pc[p] = "parse" /\ Len(s) > 1
  BY DEF LeaveStruct
<1>2. /\ IsStack(s, parseSet[p], visible)
      /\ Len(s) \in Nat /\ Top(p) = s[1]
      /\ parseSet[p] \in SUBSET (Kinds \ {""})
  BY <1>1, Parsing
<1>3. /\ stack' = [stack EXCEPT ![p] = <<g>> \o Tail(Tail(s))]
      /\ parseSet' = [parseSet EXCEPT ![p] = kinds]
      /\ UNCHANGED <<visible, specs, pc, object>>
  BY <1>2 DEF LeaveStruct, Kind
<1>4. 2 \in 1..Len(s) /\ 2 \in 2..Len(s)
  <2> HIDE DEF s
  <2> DEFINE n == Len(s)
  <2>1. n \in Nat /\ n > 1
    BY <1>1, <1>2
  <2> HIDE DEF n
  <2>2. 2 \in 1..n /\ 2 \in 2..n
    BY <2>1
  <2> QED BY <2>2 DEF n
<1>5. IsFrame(up, visible) /\ up.type \in GoTypes
  BY <1>1, <1>4, Parsing
<1>6. InFields(up, visible)
  BY <1>2, <1>4, StackParts
<1>7. Len(visible[up.type]) \in Nat
  BY <1>1, <1>5, Parsing
<1> HIDE DEF fields
<1>8. IsFrame(g, visible) /\ Kind(g) = Kind(s[2])
  <2> HIDE DEF up
  <2>1. IsFrame(g, visible) /\ Kind(g) = Kind(up)
    BY <1>5, <1>6, <1>7, AdvancedFrame
  <2> QED BY <2>1 DEF up
<1> HIDE DEF g, s
<1>9. IsStack(<<g>> \o Tail(Tail(s)), kinds, visible) /\ <<g>> \o Tail(Tail(s)) # <<>>
  BY <1>1, <1>2, <1>8, Pop
<1>10. kinds \in SUBSET (Kinds \ {""})
  BY <1>2
<1> HIDE DEF kinds
<1> QED BY <1>1, <1>3, <1>9, <1>10, ParseStep

LEMMA ParseStructValidIInv ==
  ASSUME IInv, NEW p \in Procs, NEW k \in Kinds, ParseStructValid(p, k)
  PROVE  IInv'
<1>1. object' \in [Procs -> GoTypes \cup {NoType}]
  BY DEF IInv, ParseStructValid
<1>2. UNCHANGED <<visible, specs, pc, stack, parseSet>>
  BY DEF ParseStructValid
<1> QED BY <1>1, <1>2 DEF IInv

LEMMA NextIInv == IInv /\ [Next]_vars => IInv'
<1> SUFFICES ASSUME IInv, [Next]_vars PROVE IInv'
  OBVIOUS
<1>1. CASE UNCHANGED vars
  BY <1>1 DEF vars, IInv
<1>2. CASE Next
  <2>1. PICK p \in Procs :
          \/ \E t \in Roots : Register(p, t)
          \/ SkipField(p) \/ LeafField(p) \/ ParsePanics(p)
          \/ EnterStruct(p) \/ LeaveStruct(p)
          \/ StoreSpec(p)
          \/ \E k \in Kinds : ParseStructValid(p, k)
    BY <1>2 DEF Next
  <2>2. CASE \E t \in Roots : Register(p, t)
    BY <2>2, RegisterIInv
  <2>3. CASE SkipField(p)
    BY <2>3, SkipFieldIInv
  <2>4. CASE LeafField(p)
    BY <2>4, LeafFieldIInv
  <2>5. CASE ParsePanics(p)
    BY <2>5, ParsePanicsIInv
  <2>6. CASE EnterStruct(p)
    BY <2>6, EnterStructIInv
  <2>7. CASE LeaveStruct(p)
    BY <2>7, LeaveStructIInv
  <2>8. CASE StoreSpec(p)
    BY <2>8, StoreSpecIInv
  <2>9. CASE \E k \in Kinds : ParseStructValid(p, k)
    BY <2>9, ParseStructValidIInv
  <2> QED BY <2>1, <2>2, <2>3, <2>4, <2>5, <2>6, <2>7, <2>8, <2>9
<1> QED BY <1>1, <1>2

-----------------------------------------------------------------------------
(* What the invariant says.                                                *)

LEMMA IInvTypeOK == IInv => TypeOK
<1> SUFFICES ASSUME IInv PROVE TypeOK
  OBVIOUS
<1>1. ASSUME NEW p \in Procs, NEW fr \in ToSet(stack[p])
      PROVE  /\ fr.type \in GoTypes
             /\ fr.next \in 1..(Len(visible[fr.type]) + 1)
  <2>1. IsStack(stack[p], parseSet[p], visible)
    BY DEF IInv
  <2>2. /\ stack[p] \in Seq(ToSet(stack[p]))
        /\ \A i \in 1..Len(stack[p]) : IsFrame(stack[p][i], visible)
    BY <2>1, StackParts
  <2>3. PICK i \in DOMAIN stack[p] : fr = stack[p][i]
    BY DEF ToSet
  <2>4. DOMAIN stack[p] = 1..Len(stack[p])
    BY <2>2
  <2>5. IsFrame(fr, visible)
    BY <2>2, <2>3, <2>4
  <2> QED BY <2>5 DEF IsFrame
<1>2. /\ DOMAIN specs \subseteq Kinds
      /\ \A k \in DOMAIN specs : specs[k].type \in GoTypes
      /\ pc \in [Procs -> {"idle", "parse", "panicked"}]
      /\ parseSet \in [Procs -> SUBSET (Kinds \ {""})]
      /\ object \in [Procs -> GoTypes \cup {NoType}]
      /\ \A p \in Procs : stack[p] = <<>> <=> pc[p] # "parse"
  BY DEF IInv
<1> QED BY <1>1, <1>2 DEF TypeOK

LEMMA IInvNoKindTwice == IInv => NoKindTwice
<1> SUFFICES ASSUME IInv, NEW p \in Procs,
                    NEW i \in DOMAIN stack[p], NEW j \in DOMAIN stack[p], i # j,
                    stack[p][i].field.kind = stack[p][j].field.kind
             PROVE  stack[p][i].field.kind = ""
  BY DEF NoKindTwice
<1>1. IsStack(stack[p], parseSet[p], visible)
  BY DEF IInv
<1>2. /\ stack[p] \in Seq(ToSet(stack[p]))
      /\ \A m, n \in 1..Len(stack[p]) :
           m # n /\ Kind(stack[p][m]) = Kind(stack[p][n]) => Blank(Kind(stack[p][m]))
  BY <1>1, StackParts
<1>3. i \in 1..Len(stack[p]) /\ j \in 1..Len(stack[p])
  BY <1>2
<1>4. Kind(stack[p][i]) = Kind(stack[p][j])
  BY DEF Kind
<1>5. Blank(Kind(stack[p][i]))
  BY <1>2, <1>3, <1>4
<1> QED BY <1>5 DEF Blank, Kind

\* Type correctness: whatever the program and however the registrations of the
\* goroutines interleave, specs[k] is of a struct type and parse stacks hold
\* calls at a field of theirs (go/lynkapi/type.go).
THEOREM SpecTypeCorrect == Spec => []TypeOK
<1>1. Init => IInv
  BY InitIInv
<1>2. IInv /\ [Next]_vars => IInv'
  BY NextIInv
<1>3. IInv => TypeOK
  BY IInvTypeOK
<1> QED BY <1>1, <1>2, <1>3, PTL DEF Spec

\* The descent of parseSpecByStructType enters no kind inside of itself, for
\* any program, any MaxDepth and any number of goroutines: parseSet is what the
\* calls on the stack are inside of, also when kinds are left and entered again.
THEOREM NoKindEnteredTwice == Spec => []NoKindTwice
<1>1. Init => IInv
  BY InitIInv
<1>2. IInv /\ [Next]_vars => IInv'
  BY NextIInv
<1>3. IInv => NoKindTwice
  BY IInvNoKindTwice
<1> QED BY <1>1, <1>2, <1>3, PTL DEF Spec
-----------------------------------------------------------------------------
(* The registry of specs.                                                  *)

\* Each kind has a type of that kind, and an object is of the one registered.
KInv ==
  /\ \A k \in DOMAIN specs : KindOf[specs[k].type] = k
  /\ \A p \in Procs :
       object[p] # NoType =>
         /\ KindOf[object[p]] \in DOMAIN specs
         /\ object[p] = specs[KindOf[object[p]]].type

LEMMA StoreSpecKInv ==
  ASSUME IInv, KInv, NEW p \in Procs, StoreSpec(p)
  PROVE  KInv'
<1> DEFINE spec == Top(p).field
           type == Top(p).type
<1>0. pc[p] = "parse"
  BY DEF StoreSpec
<1>1. spec.kind = KindOf[type]
  <2>1. IsFrame(Top(p), visible)
    BY <1>0, Parsing
  <2> QED BY <2>1 DEF IsFrame
<1>2. specs' = [k \in DOMAIN specs \cup {spec.kind} |->
                  IF k \in DOMAIN specs THEN specs[k]
                  ELSE [type |-> type, fields |-> spec.fields]]
      /\ object' = object
  BY DEF StoreSpec
<1> HIDE DEF spec, type
<1>3. \A k \in DOMAIN specs : k \in DOMAIN specs' /\ specs'[k] = specs[k]
  BY <1>2
<1>4. \A k \in DOMAIN specs' :
        (k \in DOMAIN specs /\ specs'[k] = specs[k])
          \/ (k = spec.kind /\ specs'[k].type = type)
  BY <1>2
<1>5. \A k \in DOMAIN specs' : KindOf[specs'[k].type] = k
  BY <1>1, <1>4 DEF KInv
<1>6. ASSUME NEW q \in Procs, object'[q] # NoType
      PROVE  /\ KindOf[object'[q]] \in DOMAIN specs'
             /\ object'[q] = specs'[KindOf[object'[q]]].type
  BY <1>2, <1>3, <1>6 DEF KInv
<1> QED BY <1>5, <1>6 DEF KInv

LEMMA ParseStructValidKInv ==
  ASSUME IInv, KInv, NEW p \in Procs, NEW k \in Kinds, ParseStructValid(p, k)
  PROVE  KInv'
<1>1. /\ k \in DOMAIN specs /\ specs' = specs
      /\ object' = [object EXCEPT ![p] = specs[k].type]
  BY DEF ParseStructValid
<1>2. object \in [Procs -> GoTypes \cup {NoType}]
  BY DEF IInv
<1>3. ASSUME NEW q \in Procs, object'[q] # NoType
      PROVE  /\ KindOf[object'[q]] \in DOMAIN specs'
             /\ object'[q] = specs'[KindOf[object'[q]]].type
  <2>1. CASE q = p
    <3>1. object'[q] = specs[k].type /\ KindOf[specs[k].type] = k
      BY <1>1, <1>2, <2>1 DEF KInv
    <3> QED BY <1>1, <3>1
  <2>2. CASE q # p
    <3>1. object'[q] = object[q]
      BY <1>1, <1>2, <2>2
    <3> QED BY <1>1, <1>3, <3>1 DEF KInv
  <2> QED BY <2>1, <2>2
<1> QED BY <1>1, <1>3 DEF KInv

LEMMA NextKInv == IInv /\ KInv /\ [Next]_vars => KInv'
<1> SUFFICES ASSUME IInv, KInv, [Next]_vars PROVE KInv'
  OBVIOUS
<1>1. CASE UNCHANGED <<specs, object>>
  BY <1>1 DEF KInv
<1>2. CASE \E p \in Procs : StoreSpec(p)
  BY <1>2, StoreSpecKInv
<1>3. CASE \E p \in Procs, k \in Kinds : ParseStructValid(p, k)
  BY <1>3, ParseStructValidKInv
<1>4. UNCHANGED <<specs, object>> \/ (\E p \in Procs : StoreSpec(p))
        \/ \E p \in Procs, k \in Kinds : ParseStructValid(p, k)
  BY DEF vars, Next, Register, SkipField, LeafField, ParsePanics, EnterStruct,
         LeaveStruct
<1> QED BY <1>1, <1>2, <1>3, <1>4

\* Whatever two goroutines have registered and in whatever order, the objects
\* that ParseStructValid has given for one kind are of one type: the spec that
\* was put away first stays, although the parse before it runs without the
\* mutex (go/lynkapi/type.go).
THEOREM OneTypeOfAKind == Spec => []ObjectsOfAKind
<1>1. Init => IInv /\ KInv
  <2>1. Init => KInv
    BY DEF Init, KInv
  <2> QED BY <2>1, InitIInv
<1>2. IInv /\ KInv /\ [Next]_vars => (IInv /\ KInv)'
  BY NextIInv, NextKInv
<1>3. KInv => ObjectsOfAKind
  BY DEF KInv, ObjectsOfAKind
<1> QED BY <1>1, <1>2, <1>3, PTL DEF Spec

-----------------------------------------------------------------------------
(* What a field spec says of the declaration it is made from.              *)

\* f is what parseStruct makes of fd; the fields below it are apart.
SameDecl(f, fd, depth) == f = [NewField(fd, depth) EXCEPT !.fields = f.fields]

LEMMA SameDeclParts ==
  ASSUME NEW f, NEW fd, NEW depth, SameDecl(f, fd, depth)
  PROVE  /\ f.name = fd.name /\ f.tag = TagName(fd)
         /\ f.type = SpecType(fd.go, depth)
         /\ f.attrs = KnownAttrs(fd.attrs)
         /\ f.opts = IF Len(f.type) = 1 THEN Limits(fd, f.type[1]) ELSE <<>>
         /\ f.kind = IF Inner(fd.go) = NoType THEN "" ELSE KindOf[Inner(fd.go)]
         /\ IsField(f)
<1> DEFINE g == NewField(fd, depth)
<1>1. /\ g.name = fd.name /\ g.tag = TagName(fd)
      /\ g.type = SpecType(fd.go, depth)
      /\ g.attrs = KnownAttrs(fd.attrs)
      /\ g.opts = IF Len(g.type) = 1 THEN Limits(fd, g.type[1]) ELSE <<>>
      /\ g.kind = IF Inner(fd.go) = NoType THEN "" ELSE KindOf[Inner(fd.go)]
  BY DEF NewField
<1>2. IsField(g)
  BY DEF NewField, IsField
<1>3. f = [g EXCEPT !.fields = f.fields]
  BY DEF SameDecl
<1> HIDE DEF g
<1>4. /\ f.name = g.name /\ f.tag = g.tag /\ f.type = g.type /\ f.attrs = g.attrs
      /\ f.opts = g.opts /\ f.kind = g.kind /\ IsField(f)
  BY <1>2, <1>3 DEF IsField
<1> QED BY <1>1, <1>4

\* The fields below may be others.
LEMMA SameDeclFields ==
  ASSUME NEW f, NEW fd, NEW depth, SameDecl(f, fd, depth), NEW fields
  PROVE  SameDecl([f EXCEPT !.fields = fields], fd, depth)
<1> DEFINE g == NewField(fd, depth)
           h == [f EXCEPT !.fields = fields]
<1>1. IsField(g)
  BY DEF NewField, IsField
<1>2. f = [g EXCEPT !.fields = f.fields]
  BY DEF SameDecl
<1> HIDE DEF g
<1>3. h = [g EXCEPT !.fields = fields] /\ h.fields = fields
  BY <1>1, <1>2 DEF IsField
<1> QED BY <1>3 DEF SameDecl, g

LEMMA NewFieldSame ==
  ASSUME NEW fd, NEW depth
  PROVE  SameDecl(NewField(fd, depth), fd, depth) /\ NewField(fd, depth).fields = <<>>
<1> DEFINE g == NewField(fd, depth)
<1>1. IsField(g) /\ g.fields = <<>>
  BY DEF NewField, IsField
<1> HIDE DEF g
<1>2. g = [g EXCEPT !.fields = g.fields]
  BY <1>1 DEF IsField
<1> QED BY <1>1, <1>2 DEF SameDecl, g

-----------------------------------------------------------------------------
(* What the readers ask of it.                                             *)

\* The attributes of f: each accepted, and declared at the same place.
LEMMA AttrsKept ==
  ASSUME NEW f, NEW fd, NEW depth, SameDecl(f, fd, depth), IsDecl(fd)
  PROVE  /\ DOMAIN f.attrs \subseteq Nat
         /\ \A i \in DOMAIN f.attrs :
              /\ i \in DOMAIN fd.attrs /\ f.attrs[i] = fd.attrs[i]
              /\ KnownAttr(f.attrs[i])
              /\ f.attrs[i] = [name |-> f.attrs[i].name, arg |-> f.attrs[i].arg]
         /\ \A i \in DOMAIN fd.attrs :
              KnownAttr(fd.attrs[i]) => i \in DOMAIN f.attrs
<1>1. f.attrs = KnownAttrs(fd.attrs)
  BY SameDeclParts
<1>2. /\ DOMAIN fd.attrs \subseteq Nat
      /\ \A i \in DOMAIN fd.attrs :
           fd.attrs[i] = [name |-> fd.attrs[i].name, arg |-> fd.attrs[i].arg]
  BY DEF IsDecl, Range
<1> QED BY <1>1, <1>2 DEF KnownAttrs

\* An attribute that stands alone is found just when it is declared.
LEMMA HasAttrIsDeclared ==
  ASSUME NEW f, NEW fd, NEW depth, SameDecl(f, fd, depth), IsDecl(fd),
         NEW attr \in DOMAIN AttrClass
  PROVE  /\ HasAttr(f, attr) => [name |-> attr, arg |-> NoArg] \in Range(f.attrs)
         /\ AttrClass[attr] = 1 =>
              (HasAttr(f, attr) <=> [name |-> attr, arg |-> NoArg] \in Range(fd.attrs))
<1> DEFINE bare == [name |-> attr, arg |-> NoArg]
<1>1. ASSUME HasAttr(f, attr)
      PROVE  bare \in Range(f.attrs)
  <2>1. PICK i \in DOMAIN f.attrs :
          IF AttrClass[attr] = 1 THEN HasPrefix(f.attrs[i].name, attr)
          ELSE f.attrs[i] = bare
    BY <1>1 DEF HasAttr, Range
  <2>2. CASE AttrClass[attr] # 1
    BY <2>1, <2>2 DEF Range
  <2>3. CASE AttrClass[attr] = 1
    <3>1. HasPrefix(f.attrs[i].name, attr) /\ KnownAttr(f.attrs[i])
      BY <2>1, <2>3, AttrsKept
    <3>2. f.attrs[i].name = attr /\ f.attrs[i].arg = NoArg
      BY <2>3, <3>1 DEF HasPrefix, KnownAttr, FuncAttrMatcher, AttrClass
    <3>3. f.attrs[i] = bare
      BY <3>2, AttrsKept
    <3> QED BY <3>3 DEF Range
  <2> QED BY <2>2, <2>3
<1>2. ASSUME AttrClass[attr] = 1, bare \in Range(fd.attrs)
      PROVE  HasAttr(f, attr)
  <2>1. PICK i \in DOMAIN fd.attrs : fd.attrs[i] = bare
    BY <1>2 DEF Range
  <2>2. KnownAttr(fd.attrs[i])
    BY <1>2, <2>1 DEF KnownAttr
  <2>3. i \in DOMAIN f.attrs /\ f.attrs[i] = bare
    <3>1. i \in DOMAIN f.attrs
      BY <2>2, AttrsKept
    <3>2. f.attrs[i] = fd.attrs[i]
      BY <3>1, AttrsKept
    <3> QED BY <2>1, <3>1, <3>2
  <2>4. HasPrefix(f.attrs[i].name, attr)
    BY <2>3 DEF HasPrefix
  <2> QED BY <1>2, <2>3, <2>4 DEF HasAttr, Range
<1>3. ASSUME bare \in Range(f.attrs)
      PROVE  bare \in Range(fd.attrs)
  BY <1>3, AttrsKept DEF Range
<1> QED BY <1>1, <1>2, <1>3

-----------------------------------------------------------------------------
(* What has been found of the types: the fields of a call are those of its  *)
(* type, up to the one it is at, and nothing is lost below them.            *)

\* The fields of t before the nth that are not passed over.
Done(program, t, depth, n) ==
  {i \in 1..(n - 1) : i \in DOMAIN program[t] /\ ~Skipped(program[t][i], depth)}

\* These fields are made of them, one of each.
MadeOf(fields, t, depth, n, program, g) ==
  /\ \A m \in 1..Len(fields) :
       /\ g[m] \in Done(program, t, depth, n)
       /\ SameDecl(fields[m], program[t][g[m]], depth)
  /\ \A i \in Done(program, t, depth, n) : \E m \in 1..Len(fields) : g[m] = i
  /\ \A m, k \in 1..Len(fields) : g[m] = g[k] => m = k
Lists(fields, t, depth, n, program) ==
  /\ fields \in Seq(ToSet(fields))
  /\ \E g \in [1..Len(fields) -> Done(program, t, depth, n)] :
       MadeOf(fields, t, depth, n, program, g)

\* What f has below it, when the given kinds are in progress.
Below(f, fd, depth, kinds, program) ==
  LET t == Inner(fd.go) IN
  t # NoType =>
    IF KindOf[t] \in kinds THEN f.fields = <<>>
    ELSE Lists(f.fields, t, InnerDepth(fd.go, depth), Len(program[t]) + 1, program)

\* The ith field has been found.
FoundAt(fr, i, kinds, program) ==
  \E f \in ToSet(fr.field.fields) :
    /\ SameDecl(f, program[fr.type][i], fr.depth)
    /\ Below(f, program[fr.type][i], fr.depth, kinds, program)

\* What a call has found, when the given kinds are in progress.
Found(fr, kinds, program) ==
  /\ Lists(fr.field.fields, fr.type, fr.depth, fr.next, program)
  /\ \A i \in Done(program, fr.type, fr.depth, fr.next) :
       FoundAt(fr, i, kinds, program)

\* lo is the call for the field that the call up is at.
Called(lo, up, program) ==
  LET fd == program[up.type][up.next] IN
  /\ ~Skipped(fd, up.depth)
  /\ Inner(fd.go) # NoType
  /\ lo.type = Inner(fd.go)
  /\ lo.depth = InnerDepth(fd.go, up.depth)
  /\ SameDecl(lo.field, fd, up.depth)

\* The kinds of the calls from the dth to the outermost.
Path(s, d) == {Kind(s[e]) : e \in d..Len(s)} \ {""}

\* What the calls of one goroutine have found.
FoundStack(s, kinds, program) ==
  /\ kinds = Path(s, 1)
  /\ \A d \in 1..Len(s) : Found(s[d], Path(s, d), program)
  /\ \A d \in 2..Len(s) : Called(s[d - 1], s[d], program)

FInv == \A p \in Procs : FoundStack(stack[p], parseSet[p], visible)

-----------------------------------------------------------------------------
(* Lists of fields that grow.                                              *)

LEMMA AppendSeq ==
  ASSUME NEW s, s \in Seq(ToSet(s)), NEW f
  PROVE  /\ Append(s, f) \in Seq(ToSet(Append(s, f)))
         /\ Len(s) \in Nat /\ Len(Append(s, f)) = Len(s) + 1
         /\ \A m \in 1..Len(s) : Append(s, f)[m] = s[m]
         /\ Append(s, f)[Len(s) + 1] = f
         /\ s \o <<f>> = Append(s, f)
         /\ \A x : x \in ToSet(Append(s, f)) <=> x \in ToSet(s) \/ x = f
<1> DEFINE S == ToSet(s) \cup {f}
           r == Append(s, f)
<1>1. s \in Seq(S) /\ f \in S /\ Len(s) \in Nat
  OBVIOUS
<1>2. /\ r \in Seq(S) /\ Len(r) = Len(s) + 1
      /\ \A m \in 1..Len(s) : r[m] = s[m]
      /\ r[Len(s) + 1] = f
      /\ s \o <<f>> = r
  <2> HIDE DEF S
  <2> QED BY <1>1
<1>3. r \in Seq(ToSet(r))
  BY <1>2, SeqOfItself
<1>4. DOMAIN s = 1..Len(s) /\ DOMAIN r = 1..(Len(s) + 1)
  BY <1>1, <1>2
<1> HIDE DEF r
<1>5. ASSUME NEW x PROVE x \in ToSet(r) <=> x \in ToSet(s) \/ x = f
  <2>1. ASSUME x \in ToSet(r) PROVE x \in ToSet(s) \/ x = f
    <3>1. PICK m \in 1..(Len(s) + 1) : x = r[m]
      BY <1>4, <2>1 DEF ToSet
    <3>2. m \in 1..Len(s) \/ m = Len(s) + 1
      BY <1>1
    <3> QED BY <1>2, <1>4, <3>1, <3>2 DEF ToSet
  <2>2. ASSUME x \in ToSet(s) PROVE x \in ToSet(r)
    <3>1. PICK m \in 1..Len(s) : x = s[m]
      BY <1>4, <2>2 DEF ToSet
    <3>2. m \in DOMAIN r /\ x = r[m]
      BY <1>1, <1>2, <1>4, <3>1
    <3> QED BY <3>2 DEF ToSet
  <2>3. f \in ToSet(r)
    <3>1. Len(s) + 1 \in DOMAIN r
      BY <1>1, <1>4
    <3> QED BY <1>2, <3>1 DEF ToSet
  <2> QED BY <2>1, <2>2, <2>3
<1> QED BY <1>1, <1>2, <1>3, <1>5 DEF r

\* The next field is passed over or done.
LEMMA DoneNext ==
  ASSUME NEW program, NEW t, NEW depth, NEW n \in Nat, n \in DOMAIN program[t]
  PROVE  /\ Skipped(program[t][n], depth) =>
              Done(program, t, depth, n + 1) = Done(program, t, depth, n)
         /\ (n # 0 /\ ~Skipped(program[t][n], depth)) =>
              Done(program, t, depth, n + 1) = Done(program, t, depth, n) \cup {n}
         /\ n \notin Done(program, t, depth, n)
<1> DEFINE S(i) == Skipped(program[t][i], depth)
<1>1. /\ Done(program, t, depth, n) = {i \in 1..(n - 1) : i \in DOMAIN program[t] /\ ~S(i)}
      /\ Done(program, t, depth, n + 1) = {i \in 1..n : i \in DOMAIN program[t] /\ ~S(i)}
  BY DEF Done
<1> HIDE DEF S
<1>2. (1..n = 1..(n - 1) \cup {n}) \/ n = 0
  OBVIOUS
<1>3. n \notin 1..(n - 1)
  OBVIOUS
<1>4. n = 0 => 1..n = {} /\ 1..(n - 1) = {}
  OBVIOUS
<1>5. /\ S(n) => Done(program, t, depth, n + 1) = Done(program, t, depth, n)
      /\ (n # 0 /\ ~S(n)) =>
           Done(program, t, depth, n + 1) = Done(program, t, depth, n) \cup {n}
      /\ n \notin Done(program, t, depth, n)
  BY <1>1, <1>2, <1>3, <1>4
<1> QED BY <1>5 DEF S

LEMMA ListsSkip ==
  ASSUME NEW program, NEW t, NEW depth, NEW n \in Nat, n \in DOMAIN program[t],
         Skipped(program[t][n], depth),
         NEW fields, Lists(fields, t, depth, n, program)
  PROVE  Lists(fields, t, depth, n + 1, program)
<1>1. Done(program, t, depth, n + 1) = Done(program, t, depth, n)
  BY DoneNext
<1> QED BY <1>1 DEF Lists, MadeOf

LEMMA ListsAdd ==
  ASSUME NEW program, NEW t, NEW depth, NEW n \in Nat \ {0}, n \in DOMAIN program[t],
         ~Skipped(program[t][n], depth),
         NEW fields, Lists(fields, t, depth, n, program),
         NEW f, SameDecl(f, program[t][n], depth)
  PROVE  Lists(Append(fields, f), t, depth, n + 1, program)
<1> DEFINE old == Done(program, t, depth, n)
           new == Done(program, t, depth, n + 1)
           r == Append(fields, f)
           len == Len(fields)
<1>1. new = old \cup {n} /\ n \notin old
  BY DoneNext
<1>2. /\ r \in Seq(ToSet(r)) /\ len \in Nat /\ Len(r) = len + 1
      /\ \A m \in 1..len : r[m] = fields[m]
      /\ r[len + 1] = f
  BY AppendSeq DEF Lists
<1>3. PICK g \in [1..len -> old] : MadeOf(fields, t, depth, n, program, g)
  BY DEF Lists
<1> DEFINE h == [m \in 1..(len + 1) |-> IF m = len + 1 THEN n ELSE g[m]]
<1>4. /\ \A m \in 1..len : g[m] \in old /\ SameDecl(fields[m], program[t][g[m]], depth)
      /\ \A i \in old : \E m \in 1..len : g[m] = i
      /\ \A m, k \in 1..len : g[m] = g[k] => m = k
  BY <1>3 DEF MadeOf
<1> HIDE DEF old, new, r, len
<1>5. \A m \in 1..(len + 1) : m \in 1..len \/ m = len + 1
  BY <1>2
<1>6. \A m \in 1..len : m \in 1..(len + 1) /\ m # len + 1
  BY <1>2
<1>7. len + 1 \in 1..(len + 1)
  BY <1>2
<1>8. h[len + 1] = n /\ \A m \in 1..len : h[m] = g[m]
  BY <1>6, <1>7
<1>9. h \in [1..(len + 1) -> new]
  BY <1>1, <1>4, <1>5
<1> HIDE DEF h
<1>10. \A m \in 1..(len + 1) : h[m] \in new /\ SameDecl(r[m], program[t][h[m]], depth)
  BY <1>1, <1>2, <1>4, <1>5, <1>8
<1>11. \A i \in new : \E m \in 1..(len + 1) : h[m] = i
  <2> TAKE i \in new
  <2>1. CASE i = n
    BY <1>7, <1>8, <2>1
  <2>2. CASE i # n
    <3>1. PICK m \in 1..len : g[m] = i
      BY <1>1, <1>4, <2>2
    <3> QED BY <1>6, <1>8, <3>1
  <2> QED BY <2>1, <2>2
<1>12. \A m, k \in 1..(len + 1) : h[m] = h[k] => m = k
  BY <1>1, <1>4, <1>5, <1>8
<1>13. MadeOf(r, t, depth, n + 1, program, h)
  BY <1>2, <1>10, <1>11, <1>12 DEF MadeOf, new
<1>14. Lists(r, t, depth, n + 1, program)
  BY <1>2, <1>9, <1>13 DEF Lists, new
<1> QED BY <1>14 DEF r

LEMMA ListsNone ==
  ASSUME NEW program, NEW t, NEW depth
  PROVE  Lists(<<>>, t, depth, 1, program)
<1> DEFINE g == [m \in {} |-> 0]
<1>1. Done(program, t, depth, 1) = {}
  BY DEF Done
<1>2. <<>> \in Seq(ToSet(<<>>)) /\ 1..Len(<<>>) = {}
  OBVIOUS
<1>3. g \in [1..Len(<<>>) -> Done(program, t, depth, 1)]
  BY <1>1, <1>2
<1>4. MadeOf(<<>>, t, depth, 1, program, g)
  BY <1>1, <1>2 DEF MadeOf
<1> QED BY <1>2, <1>3, <1>4 DEF Lists

-----------------------------------------------------------------------------
(* What a call has found when it goes on.                                  *)

LEMMA AdvancedParts ==
  ASSUME NEW fr, NEW program, IsFrame(fr, program), NEW fields
  PROVE  LET g == [fr EXCEPT !.next = @ + 1, !.field.fields = fields] IN
         /\ g.type = fr.type /\ g.depth = fr.depth /\ g.next = fr.next + 1
         /\ g.field = [fr.field EXCEPT !.fields = fields]
         /\ g.field.fields = fields
<1> DEFINE g == [fr EXCEPT !.next = @ + 1, !.field.fields = fields]
           f == [fr.field EXCEPT !.fields = fields]
           h == [fr EXCEPT !.next = @ + 1]
<1>1. fr = [field |-> fr.field, type |-> fr.type, next |-> fr.next, depth |-> fr.depth]
  BY DEF IsFrame
<1>2. h = [field |-> fr.field, type |-> fr.type, next |-> fr.next + 1,
           depth |-> fr.depth]
  BY <1>1
<1>3. h.field = fr.field
  BY <1>2
<1>4. g = [h EXCEPT !.field.fields = fields]
  OBVIOUS
<1>5. g = [h EXCEPT !.field = [h.field EXCEPT !.fields = fields]]
  BY <1>4
<1>6. g = [h EXCEPT !.field = f]
  BY <1>3, <1>5
<1>7. IsField(fr.field)
  BY DEF IsFrame
<1>8. f.fields = fields
  BY <1>7 DEF IsField
<1> HIDE DEF g, f, h
<1>9. /\ g.field = f /\ g.type = fr.type /\ g.next = fr.next + 1
      /\ g.depth = fr.depth
  BY <1>2, <1>6
<1> QED BY <1>8, <1>9 DEF g, f

\* A program of struct types.
IsProgram(program) ==
  \A t \in GoTypes :
    /\ Len(program[t]) \in Nat
    /\ DOMAIN program[t] = 1..Len(program[t])
    /\ \A i \in DOMAIN program[t] : IsDecl(program[t][i])

LEMMA AtDecl ==
  ASSUME NEW program, IsProgram(program), NEW fr, IsFrame(fr, program),
         InFields(fr, program)
  PROVE  fr.next \in Nat \ {0} /\ fr.next \in DOMAIN program[fr.type]
<1>1. /\ fr.next \in 1..(Len(program[fr.type]) + 1)
      /\ fr.next <= Len(program[fr.type])
      /\ Len(program[fr.type]) \in Nat
      /\ DOMAIN program[fr.type] = 1..Len(program[fr.type])
  BY DEF IsFrame, InFields, IsProgram
<1> QED BY <1>1

LEMMA FoundSkip ==
  ASSUME NEW program, IsProgram(program), NEW kinds,
         NEW fr, IsFrame(fr, program), InFields(fr, program),
         Found(fr, kinds, program), Skipped(program[fr.type][fr.next], fr.depth),
         NEW g, g.type = fr.type, g.depth = fr.depth, g.next = fr.next + 1,
         g.field.fields = fr.field.fields
  PROVE  Found(g, kinds, program)
<1> DEFINE t == fr.type
           depth == fr.depth
           n == fr.next
<1>1. n \in Nat \ {0} /\ n \in DOMAIN program[t]
  BY AtDecl
<1>2. Done(program, t, depth, n + 1) = Done(program, t, depth, n)
  BY <1>1, DoneNext
<1>3. Lists(g.field.fields, t, depth, n + 1, program)
  BY <1>1, ListsSkip DEF Found
<1>4. \A i \in Done(program, t, depth, n) : FoundAt(fr, i, kinds, program)
  BY DEF Found
<1>5. \A i \in Done(program, t, depth, n) : FoundAt(g, i, kinds, program)
  BY <1>4 DEF FoundAt
<1> QED BY <1>2, <1>3, <1>5 DEF Found

LEMMA FoundAdd ==
  ASSUME NEW program, IsProgram(program), NEW kinds,
         NEW fr, IsFrame(fr, program), InFields(fr, program),
         Found(fr, kinds, program), ~Skipped(program[fr.type][fr.next], fr.depth),
         NEW f, SameDecl(f, program[fr.type][fr.next], fr.depth),
         Below(f, program[fr.type][fr.next], fr.depth, kinds, program),
         NEW g, g.type = fr.type, g.depth = fr.depth, g.next = fr.next + 1,
         g.field.fields = Append(fr.field.fields, f)
  PROVE  Found(g, kinds, program)
<1> DEFINE t == fr.type
           depth == fr.depth
           n == fr.next
           s == fr.field.fields
<1>1. n \in Nat \ {0} /\ n \in DOMAIN program[t]
  BY AtDecl
<1>2. Done(program, t, depth, n + 1) = Done(program, t, depth, n) \cup {n}
  <2>1. ~Skipped(program[t][n], depth)
    OBVIOUS
  <2> HIDE DEF t, depth, n, s
  <2> QED BY <1>1, <2>1, DoneNext
<1>3. Lists(s, t, depth, n, program)
  BY DEF Found
<1>4. Lists(g.field.fields, t, depth, n + 1, program)
  BY <1>1, <1>3, ListsAdd
<1>5. \A x : x \in ToSet(g.field.fields) <=> x \in ToSet(s) \/ x = f
  <2>1. s \in Seq(ToSet(s))
    BY <1>3 DEF Lists
  <2> HIDE DEF s
  <2> QED BY <2>1, AppendSeq DEF s
<1>6. \A i \in Done(program, t, depth, n) : FoundAt(fr, i, kinds, program)
  BY DEF Found
<1>7. \A i \in Done(program, t, depth, n) : FoundAt(g, i, kinds, program)
  BY <1>5, <1>6 DEF FoundAt
<1>8. FoundAt(g, n, kinds, program)
  BY <1>5 DEF FoundAt
<1> QED BY <1>2, <1>4, <1>7, <1>8 DEF Found

-----------------------------------------------------------------------------
(* What the calls of a goroutine have found when one of them goes on.      *)

\* The kinds from a place on are those of the calls there.
LEMMA PathKinds ==
  ASSUME NEW s, Len(s) \in Nat, NEW r, Len(r) \in Nat, NEW d \in Nat, NEW e \in Nat,
         Len(r) - d = Len(s) - e,
         \A i \in d..Len(r) : Kind(r[i]) = Kind(s[(i - d) + e])
  PROVE  Path(r, d) = Path(s, e)
<1>1. \A k : (\E i \in d..Len(r) : k = Kind(r[i])) => \E j \in e..Len(s) : k = Kind(s[j])
  <2> SUFFICES ASSUME NEW i \in d..Len(r)
               PROVE  \E j \in e..Len(s) : Kind(r[i]) = Kind(s[j])
    OBVIOUS
  <2>1. (i - d) + e \in e..Len(s)
    OBVIOUS
  <2> QED BY <2>1
<1>2. \A k : (\E j \in e..Len(s) : k = Kind(s[j])) => \E i \in d..Len(r) : k = Kind(r[i])
  <2> SUFFICES ASSUME NEW j \in e..Len(s)
               PROVE  \E i \in d..Len(r) : Kind(s[j]) = Kind(r[i])
    OBVIOUS
  <2>1. (j - e) + d \in d..Len(r) /\ (((j - e) + d) - d) + e = j
    OBVIOUS
  <2> QED BY <2>1
<1> QED BY <1>1, <1>2 DEF Path

\* The kinds from the dth call on are its kind and those after it.
LEMMA PathStep ==
  ASSUME NEW s, Len(s) \in Nat, NEW d \in 1..Len(s)
  PROVE  Path(s, d) = Path(s, d + 1) \cup ({Kind(s[d])} \ {""})
<1>1. \A i : i \in d..Len(s) <=> i = d \/ i \in (d + 1)..Len(s)
  OBVIOUS
<1> QED BY <1>1 DEF Path

LEMMA FoundTop ==
  ASSUME NEW s, NEW kinds, NEW program, s \in Seq(ToSet(s)), s # <<>>,
         FoundStack(s, kinds, program),
         NEW g, Kind(g) = Kind(s[1]), g.type = s[1].type, g.depth = s[1].depth,
         NEW fields, g.field = [s[1].field EXCEPT !.fields = fields],
         Found(g, kinds, program)
  PROVE  FoundStack(<<g>> \o Tail(s), kinds, program)
<1> DEFINE r == <<g>> \o Tail(s)
<1>1. /\ Len(r) = Len(s) /\ Len(s) \in Nat /\ Len(s) > 0
      /\ r[1] = g
      /\ \A i \in 2..Len(s) : r[i] = s[i]
  BY ReplaceSeq
<1> HIDE DEF r
<1>2. \A i \in 1..Len(s) : i = 1 \/ i \in 2..Len(s)
  BY <1>1
<1>3. \A i \in 1..Len(s) : Kind(r[i]) = Kind(s[i])
  BY <1>1, <1>2
<1>4. \A d \in 1..Len(s) : Path(r, d) = Path(s, d)
  <2> TAKE d \in 1..Len(s)
  <2>1. \A i \in d..Len(r) : Kind(r[i]) = Kind(s[(i - d) + d])
    BY <1>1, <1>3
  <2> QED BY <1>1, <2>1, PathKinds
<1>5. kinds = Path(s, 1) /\ 1 \in 1..Len(s)
  BY <1>1 DEF FoundStack
<1>6. ASSUME NEW d \in 1..Len(s) PROVE Found(r[d], Path(r, d), program)
  <2>1. CASE d = 1
    BY <1>1, <1>4, <1>5, <2>1
  <2>2. CASE d # 1
    BY <1>1, <1>2, <1>4, <2>2 DEF FoundStack
  <2> QED BY <2>1, <2>2
<1>7. ASSUME NEW d \in 2..Len(s) PROVE Called(r[d - 1], r[d], program)
  <2>1. Called(s[d - 1], s[d], program) /\ r[d] = s[d]
    BY <1>1 DEF FoundStack
  <2>2. CASE d = 2
    <3>1. r[d - 1] = g /\ s[d - 1] = s[1]
      BY <1>1, <2>2
    <3> DEFINE fd == program[s[d].type][s[d].next]
    <3>2. /\ ~Skipped(fd, s[d].depth) /\ Inner(fd.go) # NoType
          /\ s[1].type = Inner(fd.go)
          /\ s[1].depth = InnerDepth(fd.go, s[d].depth)
          /\ SameDecl(s[1].field, fd, s[d].depth)
      BY <2>1, <3>1 DEF Called
    <3> HIDE DEF fd
    <3>3. SameDecl(g.field, fd, s[d].depth)
      <4> DEFINE f     == s[1].field
                 depth == s[d].depth
      <4>1. SameDecl(f, fd, depth)
        BY <3>2
      <4>2. g.field = [f EXCEPT !.fields = fields]
        OBVIOUS
      <4> HIDE DEF f, depth
      <4>3. SameDecl([f EXCEPT !.fields = fields], fd, depth)
        BY <4>1, SameDeclFields
      <4>4. SameDecl(g.field, fd, depth)
        BY <4>2, <4>3
      <4> QED BY <4>4 DEF depth
    <3> QED BY <2>1, <3>1, <3>2, <3>3 DEF Called, fd
  <2>3. CASE d # 2
    <3>1. d - 1 \in 2..Len(s)
      BY <1>1, <2>3
    <3> QED BY <1>1, <2>1, <3>1
  <2> QED BY <2>2, <2>3
<1>8. FoundStack(r, kinds, program)
  BY <1>1, <1>4, <1>5, <1>6, <1>7 DEF FoundStack
<1> QED BY <1>8 DEF r

LEMMA FoundPush ==
  ASSUME NEW s, NEW kinds, NEW program, s \in Seq(ToSet(s)), s # <<>>,
         FoundStack(s, kinds, program),
         NEW f, Called(f, s[1], program), Found(f, Entered(kinds, Kind(f)), program)
  PROVE  FoundStack(<<f>> \o s, Entered(kinds, Kind(f)), program)
<1> DEFINE r == <<f>> \o s
           all == Entered(kinds, Kind(f))
<1>1. /\ Len(r) = Len(s) + 1 /\ Len(s) \in Nat
      /\ r[1] = f
      /\ \A i \in 2..(Len(s) + 1) : r[i] = s[i - 1]
  BY PushSeq
<1> HIDE DEF r
<1>2. \A d \in 2..Len(r) : d - 1 \in 1..Len(s) /\ r[d] = s[d - 1]
  BY <1>1
<1>3. \A d \in 2..(Len(r) + 1) : Path(r, d) = Path(s, d - 1)
  <2> TAKE d \in 2..(Len(r) + 1)
  <2> DEFINE e == d - 1
  <2>1. \A i \in d..Len(r) : Kind(r[i]) = Kind(s[(i - d) + e])
    BY <1>1, <1>2
  <2>2. e \in Nat /\ d \in Nat /\ Len(r) \in Nat /\ Len(r) - d = Len(s) - e
    BY <1>1
  <2> HIDE DEF e
  <2>3. Len(s) \in Nat
    BY <1>1
  <2>4. Path(r, d) = Path(s, e)
    BY ONLY <2>1, <2>2, <2>3, PathKinds
  <2> QED BY <2>4 DEF e
<1>4. Path(r, 1) = all
  <2>1. 1 \in 1..Len(r) /\ Len(r) \in Nat /\ 2 \in 2..(Len(r) + 1)
    BY <1>1
  <2>2. Path(r, 1) = Path(r, 2) \cup ({Kind(f)} \ {""})
    <3>1. Path(r, 1) = Path(r, 1 + 1) \cup ({Kind(r[1])} \ {""})
      BY <2>1, PathStep
    <3>2. 1 + 1 = 2
      OBVIOUS
    <3> QED BY <1>1, <3>1, <3>2
  <2>3. Path(r, 2) = Path(s, 1) /\ kinds = Path(s, 1)
    BY <1>3, <2>1 DEF FoundStack
  <2> QED BY <2>2, <2>3 DEF Entered
<1> HIDE DEF all
<1>5. ASSUME NEW d \in 1..Len(r) PROVE Found(r[d], Path(r, d), program)
  <2>1. CASE d = 1
    BY <1>1, <1>4, <2>1 DEF all
  <2>2. CASE d # 1
    <3>1. d \in 2..Len(r) /\ d \in 2..(Len(r) + 1)
      BY <1>1, <2>2
    <3> QED BY <1>2, <1>3, <3>1 DEF FoundStack
  <2> QED BY <2>1, <2>2
<1>6. ASSUME NEW d \in 2..Len(r) PROVE Called(r[d - 1], r[d], program)
  <2>1. CASE d = 2
    BY <1>1, <1>2, <2>1
  <2>2. CASE d # 2
    <3>1. d - 1 \in 2..Len(r) /\ d - 1 \in 2..Len(s)
      BY <1>1, <2>2
    <3>2. Called(s[(d - 1) - 1], s[d - 1], program)
      BY <3>1 DEF FoundStack
    <3>3. r[d - 1] = s[(d - 1) - 1] /\ r[d] = s[d - 1]
      BY <1>2, <3>1
    <3> QED BY <3>2, <3>3
  <2> QED BY <2>1, <2>2
<1>7. FoundStack(r, all, program)
  BY <1>4, <1>5, <1>6 DEF FoundStack
<1> QED BY <1>7 DEF r, all

\* The calls but the innermost.
LEMMA FoundTail ==
  ASSUME NEW s, NEW kinds, NEW program, IsStack(s, kinds, program), Len(s) > 1,
         FoundStack(s, kinds, program)
  PROVE  /\ Tail(s) \in Seq(ToSet(Tail(s))) /\ Tail(s) # <<>> /\ Tail(s)[1] = s[2]
         /\ FoundStack(Tail(s), kinds \ {Kind(s[1])}, program)
         /\ Path(Tail(s), 1) = kinds \ {Kind(s[1])}
<1> DEFINE t == Tail(s)
           left == kinds \ {Kind(s[1])}
<1>1. s \in Seq(ToSet(s)) /\ s # <<>>
  BY StackParts, EmptySeq
<1>2. /\ t \in Seq(ToSet(t)) /\ Len(s) \in Nat /\ Len(t) = Len(s) - 1
      /\ \A i \in 1..(Len(s) - 1) : t[i] = s[i + 1]
  BY <1>1, TailSeq
<1> HIDE DEF t
<1>3. t # <<>> /\ t[1] = s[2] /\ Len(t) \in Nat /\ 1 \in 1..Len(s)
  BY <1>2, EmptySeq
<1>4. \A i \in 1..Len(t) : i + 1 \in 1..Len(s) /\ i + 1 \in 2..Len(s) /\ t[i] = s[i + 1]
  BY <1>2
<1>5. \A d \in 1..Len(t) : Path(t, d) = Path(s, d + 1)
  <2> TAKE d \in 1..Len(t)
  <2> DEFINE e == d + 1
  <2>1. \A i \in d..Len(t) : i \in 1..Len(t) /\ (i - d) + e = i + 1
    BY <1>3
  <2>2. \A i \in d..Len(t) : Kind(t[i]) = Kind(s[(i - d) + e])
    BY <1>4, <2>1
  <2>3. e \in Nat /\ d \in Nat /\ Len(t) - d = Len(s) - e
    BY <1>2, <1>3
  <2>4. Len(s) \in Nat /\ Len(t) \in Nat
    BY <1>2, <1>3
  <2> HIDE DEF e
  <2>5. Path(t, d) = Path(s, e)
    BY ONLY <2>2, <2>3, <2>4, PathKinds
  <2> QED BY <2>5 DEF e
<1>6. Path(s, 2) = left
  <2>1. Path(s, 1) = Path(s, 2) \cup ({Kind(s[1])} \ {""})
    <3>1. Path(s, 1) = Path(s, 1 + 1) \cup ({Kind(s[1])} \ {""})
      BY <1>2, <1>3, PathStep
    <3>2. 1 + 1 = 2
      OBVIOUS
    <3> QED BY <3>1, <3>2
  <2>2. Kind(s[1]) \notin Path(s, 2)
    <3> SUFFICES ASSUME NEW e \in 2..Len(s), Kind(s[e]) = Kind(s[1]), Kind(s[1]) # ""
                 PROVE  FALSE
      BY DEF Path
    <3>1. e \in 1..Len(s) /\ 1 # e
      <4> DEFINE n == Len(s)
      <4>1. n \in Nat /\ e \in 2..n
        BY <1>2
      <4> HIDE DEF n
      <4>2. e \in 1..n /\ 1 # e
        BY ONLY <4>1
      <4> QED BY <4>2 DEF n
    <3>2. Blank(Kind(s[1]))
      BY <1>3, <3>1, StackParts
    <3> QED BY <3>2 DEF Blank
  <2>3. kinds = Path(s, 1)
    BY DEF FoundStack
  <2>4. "" \notin Path(s, 2)
    BY DEF Path
  <2> QED BY <2>1, <2>2, <2>3, <2>4
<1> HIDE DEF left
<1>7. Path(t, 1) = left
  <2>1. 1 \in 1..Len(t) /\ 1 + 1 = 2
    BY <1>2, <1>3
  <2>2. Path(t, 1) = Path(s, 1 + 1)
    BY <1>5, <2>1
  <2> QED BY <1>6, <2>1, <2>2
<1>8. ASSUME NEW d \in 1..Len(t) PROVE Found(t[d], Path(t, d), program)
  <2>1. Found(s[d + 1], Path(s, d + 1), program)
    BY <1>4 DEF FoundStack
  <2> QED BY <1>4, <1>5, <2>1
<1>9. ASSUME NEW d \in 2..Len(t) PROVE Called(t[d - 1], t[d], program)
  <2>1. d \in 1..Len(t) /\ d - 1 \in 1..Len(t) /\ (d - 1) + 1 = d /\ (d + 1) - 1 = d
    BY <1>3
  <2>2. t[d] = s[d + 1] /\ t[d - 1] = s[d] /\ d + 1 \in 2..Len(s)
    <3>1. t[d - 1] = s[(d - 1) + 1]
      BY <1>4, <2>1
    <3> QED BY <1>4, <2>1, <3>1
  <2>3. Called(s[(d + 1) - 1], s[d + 1], program)
    BY <2>2 DEF FoundStack
  <2> QED BY <2>1, <2>2, <2>3
<1>10. FoundStack(t, left, program)
  BY <1>7, <1>8, <1>9 DEF FoundStack
<1> QED BY <1>2, <1>3, <1>7, <1>10 DEF t, left

-----------------------------------------------------------------------------
(* The steps keep what has been found.                                     *)

LEMMA FoundNoCalls ==
  ASSUME NEW program
  PROVE  FoundStack(<<>>, {}, program)
<1>1. 1..Len(<<>>) = {} /\ 2..Len(<<>>) = {}
  OBVIOUS
<1> QED BY <1>1 DEF FoundStack, Path

LEMMA InitFInv == Init => FInv
<1> SUFFICES ASSUME Init, NEW p \in Procs PROVE FoundStack(stack[p], parseSet[p], visible)
  BY DEF FInv
<1>1. stack[p] = <<>> /\ parseSet[p] = {}
  BY DEF Init
<1> QED BY <1>1, FoundNoCalls

LEMMA FoundStep ==
  ASSUME IInv, FInv, NEW p \in Procs, NEW s, NEW kinds,
         FoundStack(s, kinds, visible),
         stack' = [stack EXCEPT ![p] = s],
         parseSet' = [parseSet EXCEPT ![p] = kinds],
         visible' = visible
  PROVE  FInv'
<1> SUFFICES ASSUME NEW q \in Procs
             PROVE  FoundStack(stack'[q], parseSet'[q], visible')
  BY DEF FInv
<1>1. DOMAIN stack = Procs /\ DOMAIN parseSet = Procs
  BY DEF IInv
<1>2. CASE q = p
  BY <1>1, <1>2
<1>3. CASE q # p
  <2>1. stack'[q] = stack[q] /\ parseSet'[q] = parseSet[q]
    BY <1>1, <1>3
  <2> QED BY <2>1 DEF FInv
<1> QED BY <1>2, <1>3

\* What is known of a goroutine that parses.
LEMMA ParsingFound ==
  ASSUME IInv, FInv, NEW p \in Procs, pc[p] = "parse"
  PROVE  /\ IsProgram(visible)
         /\ FoundStack(stack[p], parseSet[p], visible)
         /\ stack[p] \in Seq(ToSet(stack[p]))
         /\ Found(Top(p), parseSet[p], visible)
<1>1. IsProgram(visible)
  BY TypesAssumption DEF IInv, IsProgram
<1>2. FoundStack(stack[p], parseSet[p], visible)
  BY DEF FInv
<1>3. /\ IsStack(stack[p], parseSet[p], visible)
      /\ Len(stack[p]) \in Nat /\ Len(stack[p]) > 0 /\ Top(p) = stack[p][1]
  BY Parsing
<1>4. stack[p] \in Seq(ToSet(stack[p]))
  BY <1>3, StackParts
<1>5. Found(Top(p), parseSet[p], visible)
  <2>1. 1 \in 1..Len(stack[p])
    BY <1>3
  <2>2. Found(stack[p][1], Path(stack[p], 1), visible) /\ parseSet[p] = Path(stack[p], 1)
    BY <1>2, <2>1 DEF FoundStack
  <2> QED BY <1>3, <2>2
<1> QED BY <1>1, <1>2, <1>4, <1>5

LEMMA RegisterFInv ==
  ASSUME IInv, FInv, NEW p \in Procs, NEW t \in Roots, Register(p, t)
  PROVE  FInv'
<1> DEFINE fr == Frame(BaseSpec(t), t, 0)
           kinds == {KindOf[t]} \ {""}
           s == <<fr>>
<1>1. /\ fr.field.fields = <<>> /\ fr.type = t /\ fr.depth = 0 /\ fr.next = 1
      /\ Kind(fr) = KindOf[t]
  BY DEF Frame, BaseSpec, Kind
<1>2. /\ stack' = [stack EXCEPT ![p] = s]
      /\ parseSet' = [parseSet EXCEPT ![p] = kinds]
      /\ visible' = visible
  BY DEF Register
<1> HIDE DEF fr
<1>3. Len(s) = 1 /\ s[1] = fr /\ 1..Len(s) = {1} /\ 2..Len(s) = {}
  OBVIOUS
<1>4. Done(visible, t, 0, 1) = {}
  BY DEF Done
<1>5. Found(fr, kinds, visible)
  BY <1>1, <1>4, ListsNone DEF Found
<1> HIDE DEF s
<1>6. Path(s, 1) = kinds
  <2>1. \A e \in 1..Len(s) : e = 1 /\ Kind(s[e]) = KindOf[t]
    BY <1>1, <1>3
  <2>2. {Kind(s[e]) : e \in 1..Len(s)} = {KindOf[t]}
    BY <1>3, <2>1
  <2> QED BY <2>2 DEF Path
<1> HIDE DEF kinds
<1>7. FoundStack(s, kinds, visible)
  BY <1>3, <1>5, <1>6 DEF FoundStack
<1> QED BY <1>2, <1>7, FoundStep

\* A step that is done with the field p is at.
LEMMA FieldDoneFound ==
  ASSUME IInv, FInv, NEW p \in Procs, pc[p] = "parse", NEW fields,
         Found(Advanced(p, fields), parseSet[p], visible),
         stack' = [stack EXCEPT ![p] = <<Advanced(p, fields)>> \o Tail(@)],
         UNCHANGED <<visible, parseSet>>
  PROVE  FInv'
<1> DEFINE s   == stack[p]
           f   == Advanced(p, fields)
           all == Top(p).field.fields \o fields
<1>1. /\ s \in Seq(ToSet(s)) /\ s # <<>>
      /\ Top(p) = s[1] /\ IsFrame(Top(p), visible)
      /\ FoundStack(s, parseSet[p], visible)
  BY Parsing, ParsingFound
<1>2. f = [Top(p) EXCEPT !.next = @ + 1, !.field.fields = all]
  BY DEF Advanced
<1>3. stack' = [stack EXCEPT ![p] = <<f>> \o Tail(s)]
  OBVIOUS
<1>4. parseSet' = [parseSet EXCEPT ![p] = parseSet[p]]
  BY DEF IInv
<1>5. Found(f, parseSet[p], visible)
  OBVIOUS
<1> HIDE DEF f, all
<1>6. /\ f.type = s[1].type /\ f.depth = s[1].depth
      /\ f.field = [s[1].field EXCEPT !.fields = all]
  BY <1>1, <1>2, AdvancedParts
<1>7. Kind(f) = Kind(s[1])
  <2>1. IsField(s[1].field)
    BY <1>1 DEF IsFrame
  <2> QED BY <1>6, <2>1 DEF Kind, IsField
<1> HIDE DEF s
<1>8. FoundStack(<<f>> \o Tail(s), parseSet[p], visible)
  BY <1>1, <1>5, <1>6, <1>7, FoundTop
<1> QED BY <1>3, <1>4, <1>8, FoundStep

\* Top(p) and the same with the field done.
LEMMA AtTop ==
  ASSUME IInv, FInv, NEW p \in Procs, AtField(p), NEW fields
  PROVE  LET fr == Top(p)
             g  == Advanced(p, fields) IN
         /\ pc[p] = "parse" /\ IsProgram(visible)
         /\ IsFrame(fr, visible) /\ InFields(fr, visible)
         /\ Found(fr, parseSet[p], visible)
         /\ Fd(p) = visible[fr.type][fr.next]
         /\ g.type = fr.type /\ g.depth = fr.depth /\ g.next = fr.next + 1
         /\ g.field.fields = fr.field.fields \o fields
         /\ fr.field.fields \in Seq(ToSet(fr.field.fields))
<1> DEFINE fr == Top(p)
           all == fr.field.fields \o fields
           g == Advanced(p, fields)
<1>1. pc[p] = "parse" /\ InFields(fr, visible) /\ Fd(p) = visible[fr.type][fr.next]
  BY DEF AtField, InFields, Fd
<1>2. IsFrame(fr, visible) /\ IsProgram(visible) /\ Found(fr, parseSet[p], visible)
  BY <1>1, Parsing, ParsingFound
<1>3. g = [fr EXCEPT !.next = @ + 1, !.field.fields = all]
  BY DEF Advanced
<1>4. fr.field.fields \in Seq(ToSet(fr.field.fields))
  BY <1>2 DEF Found, Lists
<1> HIDE DEF g, all, fr
<1>5. /\ g.type = fr.type /\ g.depth = fr.depth /\ g.next = fr.next + 1
      /\ g.field.fields = all
  BY <1>2, <1>3, AdvancedParts
<1>6. /\ g.type = fr.type /\ g.depth = fr.depth /\ g.next = fr.next + 1
      /\ g.field.fields = fr.field.fields \o fields
  BY <1>5 DEF all
<1> QED BY <1>1, <1>2, <1>4, <1>6 DEF g, fr

LEMMA SkipFieldFInv ==
  ASSUME IInv, FInv, NEW p \in Procs, SkipField(p)
  PROVE  FInv'
<1> DEFINE fr == Top(p)
           g  == Advanced(p, <<>>)
           none == <<>>
<1>1. /\ AtField(p) /\ Skipped(Fd(p), fr.depth)
      /\ stack' = [stack EXCEPT ![p] = <<Advanced(p, none)>> \o Tail(@)]
      /\ UNCHANGED <<visible, parseSet>>
  BY DEF SkipField
<1>2. /\ pc[p] = "parse" /\ IsProgram(visible)
      /\ IsFrame(fr, visible) /\ InFields(fr, visible)
      /\ Found(fr, parseSet[p], visible)
      /\ Fd(p) = visible[fr.type][fr.next]
      /\ g.type = fr.type /\ g.depth = fr.depth /\ g.next = fr.next + 1
      /\ g.field.fields = fr.field.fields \o none
      /\ fr.field.fields \in Seq(ToSet(fr.field.fields))
  BY <1>1, AtTop
<1>3. g.field.fields = fr.field.fields
  BY <1>2, ConcatEmptySeq
<1>4. Skipped(visible[fr.type][fr.next], fr.depth)
  BY <1>1, <1>2
<1>5. g = Advanced(p, none)
  OBVIOUS
<1> HIDE DEF g, none, fr
<1>6. Found(g, parseSet[p], visible)
  BY <1>2, <1>3, <1>4, FoundSkip
<1> QED BY <1>1, <1>2, <1>5, <1>6, FieldDoneFound

LEMMA LeafFieldFInv ==
  ASSUME IInv, FInv, NEW p \in Procs, LeafField(p)
  PROVE  FInv'
<1> DEFINE fr   == Top(p)
           fd   == Fd(p)
           f    == NewField(fd, fr.depth)
           more == <<f>>
           g    == Advanced(p, more)
<1>1. /\ AtField(p) /\ ~Skipped(fd, fr.depth)
      /\ Inner(fd.go) # NoType => ~Enterable(p, Inner(fd.go))
      /\ stack' = [stack EXCEPT ![p] = <<Advanced(p, more)>> \o Tail(@)]
      /\ UNCHANGED <<visible, parseSet>>
  BY DEF LeafField
<1>2. SameDecl(f, fd, fr.depth) /\ f.fields = <<>>
  BY NewFieldSame
<1>3. Below(f, fd, fr.depth, parseSet[p], visible)
  <2>1. Inner(fd.go) # NoType => KindOf[Inner(fd.go)] \in parseSet[p]
    BY <1>1 DEF Enterable
  <2> HIDE DEF f, fd
  <2> QED BY <1>2, <2>1 DEF Below
<1> HIDE DEF f
<1>4. /\ pc[p] = "parse" /\ IsProgram(visible)
      /\ IsFrame(fr, visible) /\ InFields(fr, visible)
      /\ Found(fr, parseSet[p], visible)
      /\ fd = visible[fr.type][fr.next]
      /\ g.type = fr.type /\ g.depth = fr.depth /\ g.next = fr.next + 1
      /\ g.field.fields = fr.field.fields \o more
      /\ fr.field.fields \in Seq(ToSet(fr.field.fields))
  BY <1>1, AtTop
<1>5. g.field.fields = Append(fr.field.fields, f)
  BY <1>4, AppendSeq
<1>6. g = Advanced(p, more)
  OBVIOUS
<1> HIDE DEF g, more, fr, fd
<1>7. Found(g, parseSet[p], visible)
  <2>1. /\ ~Skipped(visible[fr.type][fr.next], fr.depth)
        /\ SameDecl(f, visible[fr.type][fr.next], fr.depth)
        /\ Below(f, visible[fr.type][fr.next], fr.depth, parseSet[p], visible)
    BY <1>1, <1>2, <1>3, <1>4
  <2> QED BY <1>4, <1>5, <2>1, FoundAdd
<1> QED BY <1>1, <1>4, <1>6, <1>7, FieldDoneFound

LEMMA EnterStructFInv ==
  ASSUME IInv, FInv, NEW p \in Procs, EnterStruct(p)
  PROVE  FInv'
<1> DEFINE fr    == Top(p)
           fd    == Fd(p)
           t     == Inner(fd.go)
           below == InnerDepth(fd.go, fr.depth)
           field == NewField(fd, fr.depth)
           f     == Frame(field, t, below)
           s     == stack[p]
           kinds == Entered(parseSet[p], KindOf[t])
<1>1. /\ AtField(p) /\ ~Skipped(fd, fr.depth) /\ t # NoType
      /\ stack' = [stack EXCEPT ![p] = <<f>> \o s]
      /\ parseSet' = [parseSet EXCEPT ![p] = kinds]
      /\ visible' = visible
  BY DEF EnterStruct, Entered
<1>2. /\ SameDecl(field, fd, fr.depth) /\ field.fields = <<>>
      /\ field.kind = KindOf[t]
  BY <1>1, NewFieldSame, NewFieldKind
<1>3. /\ pc[p] = "parse" /\ fd = visible[fr.type][fr.next]
      /\ FoundStack(s, parseSet[p], visible) /\ s \in Seq(ToSet(s))
      /\ s # <<>> /\ fr = s[1]
  <2>1. pc[p] = "parse"
    BY <1>1 DEF AtField
  <2> QED BY <2>1, Parsing, ParsingFound DEF Fd
<1>4. /\ f.field = field /\ f.type = t /\ f.depth = below /\ f.next = 1
      /\ Kind(f) = KindOf[t]
  BY <1>2 DEF Frame, Kind
<1>5. Called(f, s[1], visible)
  <2>1. s[1] = fr
    BY <1>3
  <2>2. fd = visible[fr.type][fr.next]
    BY <1>3
  <2> HIDE DEF f, field, s, fr, fd
  <2> QED BY <1>1, <1>2, <1>4, <2>1, <2>2 DEF Called
<1> HIDE DEF f, field, s, fr, t, below
<1>6. Found(f, kinds, visible)
  <2>1. Done(visible, t, below, 1) = {}
    BY DEF Done
  <2> HIDE DEF kinds
  <2> QED BY <1>2, <1>4, <2>1, ListsNone DEF Found
<1>7. FoundStack(<<f>> \o s, kinds, visible)
  <2>1. kinds = Entered(parseSet[p], Kind(f))
    BY <1>4
  <2> HIDE DEF kinds
  <2>2. FoundStack(<<f>> \o s, Entered(parseSet[p], Kind(f)), visible)
    BY <1>3, <1>5, <1>6, <2>1, FoundPush
  <2> QED BY <2>1, <2>2
<1> HIDE DEF kinds
<1> QED BY <1>1, <1>7, FoundStep

LEMMA LeaveStructFInv ==
  ASSUME IInv, FInv, NEW p \in Procs, LeaveStruct(p)
  PROVE  FInv'
<1> DEFINE s      == stack[p]
           lo     == s[1]
           up     == s[2]
           fields == Append(up.field.fields, lo.field)
           g      == [up EXCEPT !.next = @ + 1, !.field.fields = fields]
           left   == parseSet[p] \ {Kind(s[1])}
           fd     == visible[up.type][up.next]
<1>1. pc[p] = "parse" /\ Len(s) > 1 /\ lo.next > Len(visible[lo.type])
  <2>1. pc[p] = "parse"
    BY DEF LeaveStruct
  <2> QED BY <2>1, Parsing DEF LeaveStruct
<1>2. /\ IsStack(s, parseSet[p], visible) /\ Len(s) \in Nat
      /\ FoundStack(s, parseSet[p], visible) /\ IsProgram(visible)
      /\ Top(p) = s[1]
  BY <1>1, Parsing, ParsingFound
<1>3. /\ stack' = [stack EXCEPT ![p] = <<g>> \o Tail(Tail(s))]
      /\ parseSet' = [parseSet EXCEPT ![p] = left]
      /\ visible' = visible
  BY <1>2 DEF LeaveStruct, Kind
<1>4. 1 \in 1..Len(s) /\ 2 \in 1..Len(s) /\ 2 \in 2..Len(s)
  <2> DEFINE n == Len(s)
  <2>1. n \in Nat /\ n > 1
    BY <1>1, <1>2
  <2> HIDE DEF n
  <2>2. 1 \in 1..n /\ 2 \in 1..n /\ 2 \in 2..n
    BY ONLY <2>1
  <2> QED BY <2>2 DEF n
<1>5. IsFrame(lo, visible) /\ IsFrame(up, visible) /\ InFields(up, visible)
  BY <1>2, <1>4, StackParts
<1>6. Called(lo, up, visible)
  <2>1. Called(s[2 - 1], s[2], visible)
    BY <1>2, <1>4 DEF FoundStack
  <2>2. 2 - 1 = 1
    OBVIOUS
  <2> QED BY <2>1, <2>2
<1>7. /\ Tail(s) \in Seq(ToSet(Tail(s))) /\ Tail(s) # <<>> /\ Tail(s)[1] = up
      /\ FoundStack(Tail(s), left, visible)
      /\ Path(Tail(s), 1) = left
  BY <1>1, <1>2, FoundTail
<1>8. Found(up, left, visible)
  <2> DEFINE t == Tail(s)
  <2>1. t \in Seq(ToSet(t)) /\ t # <<>> /\ t[1] = up /\ Path(t, 1) = left
        /\ FoundStack(t, left, visible)
    BY <1>7
  <2> HIDE DEF t, left, up
  <2>2. 1 \in 1..Len(t)
    BY <2>1, TailSeq
  <2> QED BY <2>1, <2>2 DEF FoundStack
<1>9. /\ ~Skipped(fd, up.depth) /\ Inner(fd.go) # NoType
      /\ lo.type = Inner(fd.go)
      /\ lo.depth = InnerDepth(fd.go, up.depth)
      /\ SameDecl(lo.field, fd, up.depth)
  BY <1>6 DEF Called
<1>10. Below(lo.field, fd, up.depth, left, visible)
  <2>1. KindOf[lo.type] \notin left
    BY <1>5 DEF IsFrame, Kind
  <2>2. lo.next = Len(visible[lo.type]) + 1
    <3>1. lo.type \in GoTypes /\ lo.next \in 1..(Len(visible[lo.type]) + 1)
      BY <1>5 DEF IsFrame
    <3>2. Len(visible[lo.type]) \in Nat
      BY <1>2, <3>1 DEF IsProgram
    <3> QED BY <1>1, <3>1, <3>2
  <2>3. Lists(lo.field.fields, lo.type, lo.depth, lo.next, visible)
    BY <1>2, <1>4 DEF FoundStack, Found
  <2> HIDE DEF lo, left, fd, up
  <2> QED BY <1>9, <2>1, <2>2, <2>3 DEF Below
<1>11. IsField(up.field)
  BY <1>5 DEF IsFrame
<1>12. up.field.fields \in Seq(ToSet(up.field.fields))
  BY <1>8 DEF Found, Lists
<1>13. Found(up, left, visible) /\ IsProgram(visible)
  BY <1>2, <1>8
<1> HIDE DEF fields, lo, up, left, s
<1>14. /\ g.type = up.type /\ g.depth = up.depth /\ g.next = up.next + 1
       /\ g.field = [up.field EXCEPT !.fields = fields]
       /\ g.field.fields = fields
  BY <1>5, AdvancedParts
<1> HIDE DEF g
<1>15. Kind(g) = Kind(up)
  BY <1>11, <1>14 DEF Kind, IsField
<1>16. Found(g, left, visible)
  <2>1. g.field.fields = Append(up.field.fields, lo.field)
    BY <1>14 DEF fields
  <2> QED BY <1>5, <1>9, <1>10, <1>13, <1>14, <2>1, FoundAdd
<1>17. FoundStack(<<g>> \o Tail(Tail(s)), left, visible)
  <2> DEFINE t == Tail(s)
  <2>1. t \in Seq(ToSet(t)) /\ t # <<>> /\ t[1] = up /\ FoundStack(t, left, visible)
    BY <1>7
  <2> HIDE DEF t
  <2>2. FoundStack(<<g>> \o Tail(t), left, visible)
    BY <1>14, <1>15, <1>16, <2>1, FoundTop
  <2> QED BY <2>2 DEF t
<1> QED BY <1>3, <1>17, FoundStep

LEMMA NextFInv == IInv /\ FInv /\ [Next]_vars => FInv'
<1> SUFFICES ASSUME IInv, FInv, [Next]_vars PROVE FInv'
  OBVIOUS
<1>1. CASE UNCHANGED <<visible, stack, parseSet>>
  BY <1>1 DEF FInv
<1>2. CASE Next
  <2>1. PICK p \in Procs :
          \/ \E t \in Roots : Register(p, t)
          \/ SkipField(p) \/ LeafField(p) \/ ParsePanics(p)
          \/ EnterStruct(p) \/ LeaveStruct(p)
          \/ StoreSpec(p)
          \/ \E k \in Kinds : ParseStructValid(p, k)
    BY <1>2 DEF Next
  <2>2. CASE \E t \in Roots : Register(p, t)
    BY <2>2, RegisterFInv
  <2>3. CASE SkipField(p)
    BY <2>3, SkipFieldFInv
  <2>4. CASE LeafField(p)
    BY <2>4, LeafFieldFInv
  <2>5. CASE ParsePanics(p) \/ StoreSpec(p)
    <3>1. /\ stack' = [stack EXCEPT ![p] = <<>>]
          /\ parseSet' = [parseSet EXCEPT ![p] = {}]
          /\ visible' = visible
      BY <2>5 DEF ParsePanics, StoreSpec
    <3> QED BY <3>1, FoundNoCalls, FoundStep
  <2>6. CASE EnterStruct(p)
    BY <2>6, EnterStructFInv
  <2>7. CASE LeaveStruct(p)
    BY <2>7, LeaveStructFInv
  <2>8. CASE \E k \in Kinds : ParseStructValid(p, k)
    BY <1>1, <2>8 DEF ParseStructValid
  <2> QED BY <2>1, <2>2, <2>3, <2>4, <2>5, <2>6, <2>7, <2>8
<1>3. CASE UNCHANGED vars
  BY <1>1, <1>3 DEF vars
<1> QED BY <1>2, <1>3

-----------------------------------------------------------------------------
(* What the readers of a list of fields find in it.                        *)

\* A list that is whole has as many fields as are not passed over.
LEMMA ListsCount ==
  ASSUME NEW program, NEW t, NEW depth, NEW n,
         NEW fields, Lists(fields, t, depth, n, program)
  PROVE  Len(fields) = Cardinality(Done(program, t, depth, n))
<1> DEFINE S == Done(program, t, depth, n)
<1>1. PICK g \in [1..Len(fields) -> S] : MadeOf(fields, t, depth, n, program, g)
  BY DEF Lists
<1>2. Len(fields) \in Nat
  BY DEF Lists
<1>3. /\ \A i \in S : \E m \in 1..Len(fields) : g[m] = i
      /\ \A m, k \in 1..Len(fields) : g[m] = g[k] => m = k
  BY <1>1 DEF MadeOf
<1> HIDE DEF S
<1>4. g \in Bijection(1..Len(fields), S)
  BY <1>1, <1>3 DEF Bijection, Injection, Surjection, IsInjective
<1>5. ExistsBijection(1..Len(fields), S)
  BY <1>4 DEF ExistsBijection
<1>6. Cardinality(S) = Len(fields)
  BY <1>2, <1>5, FS_CountingElements
<1> QED BY <1>6 DEF S

LEMMA TagNameIsName ==
  ASSUME NEW fd, IsDecl(fd)
  PROVE  TagName(fd) # ""
BY DEF TagName, IsDecl

\* The slice of structs is a table.
LEMMA SliceIsTable ==
  ASSUME NEW fd, IsDecl(fd), Inner(fd.go) # NoType, fd.go[1] = "slice", NEW depth,
         SpecType(fd.go, depth) # <<>>
  PROVE  /\ SpecType(fd.go, depth) = <<"array", "struct">>
         /\ InnerDepth(fd.go, depth) = depth + 2
<1> DEFINE go == fd.go
<1>1. go \in Seq(ToSet(go)) /\ go # <<>> /\ go[1] = "slice"
  BY DEF IsDecl
<1>2. Last(go) \in GoTypes
  BY DEF Inner
<1>3. Len(go) # 1
  BY <1>1, <1>2, TypesAssumption DEF Last
<1>4. go # <<"slice", "byte">>
  <2> SUFFICES ASSUME go = <<"slice", "byte">> PROVE FALSE
    OBVIOUS
  <2>1. Last(go) = "byte"
    BY DEF Last
  <2>2. "byte" \in DOMAIN Scalar
    BY DEF Scalar
  <2> QED BY <1>2, <2>1, <2>2, TypesAssumption
<1>5. Head(go) = "slice"
  BY <1>1
<1>6. Inner(go) # NoType /\ SpecType(go, depth) # <<>>
  OBVIOUS
<1> HIDE DEF go
<1>7. SpecType(go, depth) = <<"array", "struct">>
  BY <1>3, <1>4, <1>5, <1>6 DEF SpecType
<1>8. InnerDepth(go, depth) = depth + 2
  BY <1>5 DEF InnerDepth
<1> QED BY <1>7, <1>8 DEF go

\* The fields of t that are declared with one of the given attributes.
RowsWith(program, t, depth, n, names) ==
  {i \in Done(program, t, depth, n) :
     \E a \in names : [name |-> a, arg |-> NoArg] \in ToSet(program[t][i].attrs)}
Unique == {"primary_key", "unique_key"}

\* Where the fields of f were declared, an attribute that stands alone is found
\* in those that are declared with it.
LEMMA RowsFound ==
  ASSUME NEW program, IsProgram(program), NEW t \in GoTypes, NEW depth, NEW n,
         NEW fields, DOMAIN fields = 1..Len(fields),
         NEW g, MadeOf(fields, t, depth, n, program, g),
         NEW attr \in Unique, NEW m \in 1..Len(fields)
  PROVE  HasAttr(fields[m], attr) <=> g[m] \in RowsWith(program, t, depth, n, {attr})
<1> DEFINE fd == program[t][g[m]]
           h  == fields[m]
           bare == [name |-> attr, arg |-> NoArg]
<1>1. g[m] \in Done(program, t, depth, n) /\ SameDecl(h, fd, depth)
  BY DEF MadeOf
<1>2. IsDecl(fd)
  BY <1>1 DEF Done, IsProgram
<1>3. bare \in ToSet(fd.attrs) <=> g[m] \in RowsWith(program, t, depth, n, {attr})
  BY <1>1 DEF RowsWith
<1>4. ToSet(fd.attrs) = Range(fd.attrs)
  BY DEF ToSet, Range
<1>5. attr \in DOMAIN AttrClass /\ AttrClass[attr] = 1
  BY DEF AttrClass, Unique
<1> HIDE DEF fd, h
<1>6. HasAttr(h, attr) <=> [name |-> attr, arg |-> NoArg] \in Range(fd.attrs)
  BY <1>1, <1>2, <1>5, HasAttrIsDeclared
<1> QED BY <1>3, <1>4, <1>6 DEF h

\* f is known by the key declared at j, and its rows are told apart by the fields
\* declared to do so.
KnownBy(f, program, t, depth, n, j) ==
  /\ PrimaryKey(f) = TagName(program[t][j])
  /\ PrimaryKey(f) \in UniqueKeys(f)
  /\ UniqueKeys(f) =
       {TagName(program[t][i]) : i \in RowsWith(program, t, depth, n, Unique)}

\* A table whose rows declare one primary key is known by it, and its rows are
\* told apart by the fields declared to do so.
LEMMA KeyOfTable ==
  ASSUME NEW program, IsProgram(program), NEW t \in GoTypes, NEW depth, NEW n,
         NEW f, f.type = <<"array", "struct">>,
         Lists(f.fields, t, depth, n, program),
         NEW j, RowsWith(program, t, depth, n, {"primary_key"}) = {j}
  PROVE  KnownBy(f, program, t, depth, n, j)
<1> DEFINE S      == Done(program, t, depth, n)
           fields == f.fields
           keys   == KeyFields(f, "primary_key")
           uks    == KeyFields(f, "unique_key")
           decl(i) == program[t][i]
           Rows(a) == RowsWith(program, t, depth, n, {a})
<1>1. PICK g : MadeOf(fields, t, depth, n, program, g)
  BY DEF Lists
<1>2. /\ DOMAIN fields = 1..Len(fields)
      /\ \A m \in 1..Len(fields) : g[m] \in S /\ SameDecl(fields[m], decl(g[m]), depth)
      /\ \A i \in S : \E m \in 1..Len(fields) : g[m] = i
      /\ \A m, k \in 1..Len(fields) : g[m] = g[k] => m = k
  BY <1>1 DEF MadeOf, Lists
<1>3. Rows("primary_key") = {j} /\ j \in S
  BY DEF RowsWith
<1>4. IsDecl(decl(j))
  BY <1>3 DEF Done, IsProgram
<1>5. Rows("unique_key") \subseteq S
  BY DEF RowsWith
<1>6. RowsWith(program, t, depth, n, Unique) = Rows("primary_key") \cup Rows("unique_key")
  BY DEF RowsWith, Unique
<1>7. \A m \in 1..Len(fields) : fields[m].tag = TagName(decl(g[m]))
  BY <1>2, SameDeclParts
<1> HIDE DEF S
<1>8. /\ keys = {m \in 1..Len(fields) : g[m] \in Rows("primary_key")}
      /\ uks = {m \in 1..Len(fields) : g[m] \in Rows("unique_key")}
  <2>1. "primary_key" \in Unique /\ "unique_key" \in Unique
    BY DEF Unique
  <2>2. \A m \in 1..Len(fields) :
          HasAttr(fields[m], "primary_key") <=> g[m] \in Rows("primary_key")
    BY <1>1, <1>2, <2>1, RowsFound
  <2>3. \A m \in 1..Len(fields) :
          HasAttr(fields[m], "unique_key") <=> g[m] \in Rows("unique_key")
    BY <1>1, <1>2, <2>1, RowsFound
  <2> HIDE DEF Rows
  <2> QED BY <1>2, <2>2, <2>3 DEF KeyFields
<1> HIDE DEF Rows, keys, uks
<1>9. PICK m \in 1..Len(fields) : g[m] = j
  BY <1>2, <1>3
<1>10. keys = {m}
  BY <1>2, <1>3, <1>8, <1>9
<1>11. Cardinality(keys) = 1 /\ (CHOOSE i \in keys : TRUE) = m
  BY <1>10, FS_Singleton
<1>12. PrimaryKey(f) = fields[m].tag
  BY <1>11 DEF PrimaryKey, keys
<1>13. PrimaryKey(f) = TagName(decl(j)) /\ PrimaryKey(f) # ""
  BY <1>4, <1>7, <1>9, <1>12, TagNameIsName
<1>14. UniqueKeys(f) = {fields[i].tag : i \in keys \cup uks}
  BY <1>13 DEF UniqueKeys, keys, uks
<1>15. PrimaryKey(f) \in UniqueKeys(f)
  BY <1>10, <1>12, <1>14
<1> DEFINE all == Rows("primary_key") \cup Rows("unique_key")
<1>16. keys \cup uks = {i \in 1..Len(fields) : g[i] \in all}
  BY <1>8
<1>17. all \subseteq S
  BY <1>3, <1>5
<1> HIDE DEF all
<1>18. {fields[i].tag : i \in keys \cup uks} = {TagName(decl(i)) : i \in all}
  <2>1. ASSUME NEW i \in keys \cup uks
        PROVE  fields[i].tag \in {TagName(decl(k)) : k \in all}
    BY <1>7, <1>16
  <2>2. ASSUME NEW k \in all
        PROVE  TagName(decl(k)) \in {fields[i].tag : i \in keys \cup uks}
    <3>1. PICK i \in 1..Len(fields) : g[i] = k
      BY <1>2, <1>17
    <3> QED BY <1>7, <1>16, <3>1
  <2> HIDE DEF fields, decl
  <2> QED BY <2>1, <2>2
<1> QED BY <1>6, <1>13, <1>14, <1>15, <1>18 DEF all, KnownBy

-----------------------------------------------------------------------------
(* What the invariant says of the fields found.                            *)

\* The calls of a goroutine, with what they have found.
LEMMA CallFound ==
  ASSUME IInv, FInv, NEW p \in Procs, NEW d \in DOMAIN stack[p]
  PROVE  /\ IsProgram(visible)
         /\ IsFrame(stack[p][d], visible)
         /\ Found(stack[p][d], Path(stack[p], d), visible)
<1>1. IsStack(stack[p], parseSet[p], visible)
  BY DEF IInv
<1>2. d \in 1..Len(stack[p])
  BY <1>1, StackParts
<1>3. IsProgram(visible)
  BY TypesAssumption DEF IInv, IsProgram
<1> QED BY <1>1, <1>2, <1>3, StackParts DEF FInv, FoundStack

\* FieldsAt is what is done when all fields are.
LEMMA FieldsAtDone ==
  ASSUME IInv, NEW t \in GoTypes, NEW depth
  PROVE  /\ FieldsAt(t, depth) = Done(visible, t, depth, Len(visible[t]) + 1)
         /\ \A n \in 1..(Len(visible[t]) + 1) :
              FieldsAt(t, depth) \cap (1..(n - 1)) = Done(visible, t, depth, n)
<1> DEFINE S(i) == Skipped(visible[t][i], depth)
           len  == Len(visible[t])
<1>1. len \in Nat /\ DOMAIN visible[t] = 1..len
  BY TypesAssumption DEF IInv
<1>2. /\ FieldsAt(t, depth) = {i \in 1..len : ~S(i)}
      /\ \A n : Done(visible, t, depth, n) = {i \in 1..(n - 1) : i \in 1..len /\ ~S(i)}
  BY <1>1 DEF FieldsAt, Done
<1> HIDE DEF S, len
<1>3. FieldsAt(t, depth) = Done(visible, t, depth, len + 1)
  BY <1>1, <1>2
<1>4. \A n \in 1..(len + 1) :
        FieldsAt(t, depth) \cap (1..(n - 1)) = Done(visible, t, depth, n)
  BY <1>1, <1>2
<1> QED BY <1>3, <1>4 DEF len

\* A field that a call is done with.
LEMMA FieldFound ==
  ASSUME IInv, FInv, NEW p \in Procs, NEW d \in DOMAIN stack[p],
         NEW i \in FieldsAt(stack[p][d].type, stack[p][d].depth)
                     \cap (1..(stack[p][d].next - 1))
  PROVE  LET fr == stack[p][d]
             fd == visible[fr.type][i] IN
         /\ IsDecl(fd) /\ ~Skipped(fd, fr.depth)
         /\ \E f \in ToSet(fr.field.fields) :
              /\ SameDecl(f, fd, fr.depth)
              /\ Below(f, fd, fr.depth, Path(stack[p], d), visible)
<1> DEFINE fr == stack[p][d]
           fd == visible[fr.type][i]
           kinds == Path(stack[p], d)
<1>1. IsProgram(visible) /\ IsFrame(fr, visible) /\ Found(fr, kinds, visible)
  BY CallFound
<1>2. fr.type \in GoTypes /\ fr.next \in 1..(Len(visible[fr.type]) + 1)
  BY <1>1 DEF IsFrame
<1>3. i \in Done(visible, fr.type, fr.depth, fr.next)
  BY <1>2, FieldsAtDone
<1>4. IsDecl(fd) /\ ~Skipped(fd, fr.depth)
  BY <1>1, <1>2, <1>3 DEF IsProgram, Done
<1>5. FoundAt(fr, i, kinds, visible)
  BY <1>1, <1>3 DEF Found
<1> QED BY <1>4, <1>5 DEF FoundAt

LEMMA FInvFieldsFound == IInv /\ FInv => FieldsFound
<1> SUFFICES ASSUME IInv, FInv, NEW p \in Procs, NEW d \in DOMAIN stack[p],
                    NEW i \in FieldsAt(stack[p][d].type, stack[p][d].depth)
                                \cap (1..(stack[p][d].next - 1))
             PROVE  LET fr == stack[p][d]
                        fd == visible[fr.type][i]
                        t  == Inner(fd.go) IN
                    \E f \in ToSet(fr.field.fields) :
                      /\ f.name = fd.name
                      /\ t # NoType =>
                           Len(f.fields) =
                             IF KindOf[t] \in Path(stack[p], d) THEN 0
                             ELSE Cardinality(FieldsAt(t, InnerDepth(fd.go, fr.depth)))
  BY DEF FieldsFound, Path, Kind
<1> DEFINE fr == stack[p][d]
           fd == visible[fr.type][i]
           t  == Inner(fd.go)
           kinds == Path(stack[p], d)
           depth == InnerDepth(fd.go, fr.depth)
<1>1. PICK f \in ToSet(fr.field.fields) :
        SameDecl(f, fd, fr.depth) /\ Below(f, fd, fr.depth, kinds, visible)
  BY FieldFound
<1>2. f.name = fd.name
  BY <1>1, SameDeclParts
<1>3. ASSUME t # NoType, KindOf[t] \in kinds
      PROVE  Len(f.fields) = 0
  BY <1>1, <1>3 DEF Below
<1>4. ASSUME t # NoType, KindOf[t] \notin kinds
      PROVE  Len(f.fields) = Cardinality(FieldsAt(t, depth))
  <2>1. Lists(f.fields, t, depth, Len(visible[t]) + 1, visible)
    BY <1>1, <1>4 DEF Below
  <2>2. t \in GoTypes
    BY <1>4, InnerIsType
  <2> HIDE DEF t, depth, fd, fr
  <2>3. Len(f.fields) = Cardinality(Done(visible, t, depth, Len(visible[t]) + 1))
    BY <2>1, ListsCount
  <2> QED BY <2>2, <2>3, FieldsAtDone
<1> QED BY <1>1, <1>2, <1>3, <1>4

\* What KeyFound and UniqueAsDeclared say of a table fd with rows of type t.
IsTable(f, fd, t, depth) ==
  /\ f.name = fd.name
  /\ \A j \in Declared(t, depth, {"primary_key"}) : PrimaryKey(f) = TagName(visible[t][j])
  /\ PrimaryKey(f) \in UniqueKeys(f)
  /\ UniqueKeys(f) = {TagName(visible[t][j]) : j \in Declared(t, depth, Unique)}

LEMMA TableFound ==
  ASSUME IInv, FInv, NEW p \in Procs, NEW d \in DOMAIN stack[p],
         NEW i \in FieldsAt(stack[p][d].type, stack[p][d].depth)
                     \cap (1..(stack[p][d].next - 1))
  PROVE  LET fr   == stack[p][d]
             fd   == visible[fr.type][i]
             t    == Inner(fd.go) IN
         (/\ t # NoType /\ fd.go[1] = "slice"
          /\ Cardinality(Declared(t, fr.depth + 2, {"primary_key"})) = 1
          /\ \A e \in d..Len(stack[p]) : Kind(stack[p][e]) # KindOf[t])
           => \E f \in ToSet(fr.field.fields) : IsTable(f, fd, t, fr.depth + 2)
<1> DEFINE fr   == stack[p][d]
           fd   == visible[fr.type][i]
           t    == Inner(fd.go)
           depth == fr.depth + 2
           keys == Declared(t, depth, {"primary_key"})
           kinds == Path(stack[p], d)
<1> SUFFICES ASSUME t # NoType, fd.go[1] = "slice", Cardinality(keys) = 1,
                    \A e \in d..Len(stack[p]) : Kind(stack[p][e]) # KindOf[t]
             PROVE  \E f \in ToSet(fr.field.fields) : IsTable(f, fd, t, depth)
  OBVIOUS
<1>1. IsDecl(fd) /\ ~Skipped(fd, fr.depth)
  BY FieldFound
<1>2. PICK f \in ToSet(fr.field.fields) :
        SameDecl(f, fd, fr.depth) /\ Below(f, fd, fr.depth, kinds, visible)
  BY FieldFound
<1>3. /\ SpecType(fd.go, fr.depth) = <<"array", "struct">>
      /\ InnerDepth(fd.go, fr.depth) = depth
  BY <1>1, SliceIsTable DEF Skipped
<1>4. f.name = fd.name /\ f.type = <<"array", "struct">>
  BY <1>2, <1>3, SameDeclParts
<1>5. KindOf[t] \notin kinds
  BY DEF Path
<1>6. Lists(f.fields, t, depth, Len(visible[t]) + 1, visible)
  BY <1>2, <1>3, <1>5 DEF Below
<1>7. t \in GoTypes /\ IsProgram(visible)
  BY InnerIsType, CallFound
<1>8. FieldsAt(t, depth) = Done(visible, t, depth, Len(visible[t]) + 1)
  BY <1>7, FieldsAtDone
<1>9. \A names : Declared(t, depth, names) =
                   RowsWith(visible, t, depth, Len(visible[t]) + 1, names)
  BY <1>8 DEF RowsWith, Declared
<1>10. PICK j : keys = {j}
  <2> DEFINE len == Len(visible[t])
  <2>1. keys \subseteq 1..len /\ len \in Nat
    BY <1>7 DEF IsProgram, FieldsAt, Declared
  <2> HIDE DEF len, keys
  <2>2. IsFiniteSet(1..len)
    <3>1. 1 \in Int /\ len \in Int
      BY ONLY <2>1
    <3> QED BY ONLY <3>1, FS_Interval
  <2>3. IsFiniteSet(keys)
    BY <2>1, <2>2, FS_Subset
  <2> HIDE DEF keys
  <2> QED BY <2>3, FS_Singleton
<1>11. /\ PrimaryKey(f) = TagName(visible[t][j]) /\ PrimaryKey(f) \in UniqueKeys(f)
       /\ UniqueKeys(f) = {TagName(visible[t][k]) : k \in Declared(t, depth, Unique)}
  <2> DEFINE n == Len(visible[t]) + 1
  <2>1. /\ RowsWith(visible, t, depth, n, {"primary_key"}) = {j}
        /\ Lists(f.fields, t, depth, n, visible)
        /\ Declared(t, depth, Unique) = RowsWith(visible, t, depth, n, Unique)
    BY <1>6, <1>9, <1>10
  <2> HIDE DEF t, depth, keys, fd, fr, n
  <2>2. KnownBy(f, visible, t, depth, n, j)
    BY <1>4, <1>7, <2>1, KeyOfTable
  <2> QED BY <2>1, <2>2 DEF KnownBy
<1>12. IsTable(f, fd, t, depth)
  <2> HIDE DEF t, depth, fd, fr
  <2> QED BY <1>4, <1>10, <1>11 DEF IsTable, keys
<1> QED BY <1>12

LEMMA FInvKeyFound == IInv /\ FInv => KeyFound
<1> SUFFICES ASSUME IInv, FInv, NEW p \in Procs, NEW d \in DOMAIN stack[p],
                    NEW i \in FieldsAt(stack[p][d].type, stack[p][d].depth)
                                \cap (1..(stack[p][d].next - 1))
             PROVE  LET fr    == stack[p][d]
                        fd    == visible[fr.type][i]
                        t     == Inner(fd.go)
                        depth == fr.depth + 2 IN
                    (/\ t # NoType /\ fd.go[1] = "slice"
                     /\ Cardinality(Declared(t, depth, {"primary_key"})) = 1
                     /\ \A e \in d..Len(stack[p]) : Kind(stack[p][e]) # KindOf[t])
                      => \E f \in ToSet(fr.field.fields) :
                           /\ f.name = fd.name
                           /\ \A j \in Declared(t, depth, {"primary_key"}) :
                                PrimaryKey(f) = TagName(visible[t][j])
                           /\ PrimaryKey(f) \in UniqueKeys(f)
  BY ZenonT(60) DEF KeyFound, Kind
<1> DEFINE fr == stack[p][d]
           fd == visible[fr.type][i]
           t  == Inner(fd.go)
<1>1. (/\ t # NoType /\ fd.go[1] = "slice"
       /\ Cardinality(Declared(t, fr.depth + 2, {"primary_key"})) = 1
       /\ \A e \in d..Len(stack[p]) : Kind(stack[p][e]) # KindOf[t])
        => \E f \in ToSet(fr.field.fields) : IsTable(f, fd, t, fr.depth + 2)
  BY TableFound
<1> HIDE DEF fr, fd, t
<1> QED BY <1>1 DEF IsTable, fr, fd, t

LEMMA FInvUnique == IInv /\ FInv => UniqueAsDeclared
<1> SUFFICES ASSUME IInv, FInv, NEW p \in Procs, NEW d \in DOMAIN stack[p],
                    NEW i \in FieldsAt(stack[p][d].type, stack[p][d].depth)
                                \cap (1..(stack[p][d].next - 1))
             PROVE  LET fr    == stack[p][d]
                        fd    == visible[fr.type][i]
                        t     == Inner(fd.go)
                        depth == fr.depth + 2 IN
                    (/\ t # NoType /\ fd.go[1] = "slice"
                     /\ Cardinality(Declared(t, depth, {"primary_key"})) = 1
                     /\ \A e \in d..Len(stack[p]) : Kind(stack[p][e]) # KindOf[t])
                      => \E f \in ToSet(fr.field.fields) :
                           /\ f.name = fd.name
                           /\ UniqueKeys(f) =
                                {TagName(visible[t][j]) :
                                   j \in Declared(t, depth, Unique)}
  BY DEF UniqueAsDeclared, Kind, Unique
<1> DEFINE fr == stack[p][d]
           fd == visible[fr.type][i]
           t  == Inner(fd.go)
<1>1. (/\ t # NoType /\ fd.go[1] = "slice"
       /\ Cardinality(Declared(t, fr.depth + 2, {"primary_key"})) = 1
       /\ \A e \in d..Len(stack[p]) : Kind(stack[p][e]) # KindOf[t])
        => \E f \in ToSet(fr.field.fields) : IsTable(f, fd, t, fr.depth + 2)
  BY TableFound
<1> HIDE DEF fr, fd, t
<1> QED BY <1>1 DEF IsTable, fr, fd, t

LEMMA IFInvAlways == Spec => [](IInv /\ FInv)
<1>1. Init => IInv /\ FInv
  BY InitIInv, InitFInv
<1>2. IInv /\ FInv /\ [Next]_vars => (IInv /\ FInv)'
  BY NextIInv, NextFInv
<1> QED BY <1>1, <1>2, PTL DEF Spec

\* parseStruct loses nothing, for any program, MaxDepth and interleaving: each
\* field that is not passed over is there, with all the fields of its struct,
\* or with none just when its kind is in progress; and a table whose rows
\* declare one primary key is known by it (go/lynkapi/type.go).
THEOREM NoFieldLost == Spec => []NothingLost
<1>1. IInv /\ FInv => NothingLost
  BY FInvFieldsFound, FInvKeyFound DEF NothingLost
<1> QED BY <1>1, IFInvAlways, PTL

\* The rows of a table are told apart by exactly the fields declared to be their
\* key or unique, for any program and wherever the table occurs, although
\* attributes are looked for by how they begin (go/lynkapi/type.go, the tag
\* x_attrs, HasAttr and PrimaryKeys).
THEOREM RowsUniqueAsDeclared == Spec => []UniqueAsDeclared
BY FInvUnique, IFInvAlways, PTL
=============================================================================
