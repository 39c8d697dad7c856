-------------------------- MODULE PickleTypeProofs --------------------------
(***************************************************************************)
(* For every pickle, whatever classes and strings it names: the labels of  *)
(* _pickle_type are what the pickle tells of the objects the unpickler     *)
(* would have, and its stack is as deep.                                   *)
(***************************************************************************)
EXTENDS PickleType, SequenceTheorems, TLAPS

Inv == TypeOK /\ LabelsMatch

-----------------------------------------------------------------------------
(* The two stacks change alike, so they stay alike. *)

LEMMA PushKeeps ==
    ASSUME NEW s \in Seq(Things), NEW r \in Seq(Things), NEW d, Agree(s, r, d),
           NEW x \in Things, NEW y \in Things, Sees(x, y, d)
    PROVE  /\ Push(s, x) \in Seq(Things) /\ Push(r, y) \in Seq(Things)
           /\ Agree(Push(s, x), Push(r, y), d)
<1>1. /\ Push(s, x) \in Seq(Things) /\ Len(Push(s, x)) = Len(s) + 1
      /\ \A i \in 1..Len(s) : Push(s, x)[i] = s[i]
      /\ Push(s, x)[Len(s) + 1] = x
  BY AppendProperties DEF Push
<1>2. /\ Push(r, y) \in Seq(Things) /\ Len(Push(r, y)) = Len(r) + 1
      /\ \A i \in 1..Len(r) : Push(r, y)[i] = r[i]
      /\ Push(r, y)[Len(r) + 1] = y
  BY AppendProperties DEF Push
<1>3. Len(s) \in Nat /\ Len(r) = Len(s)
  BY LenProperties DEF Agree
<1>4. \A i \in 1..Len(s) + 1 : i \in 1..Len(s) \/ i = Len(s) + 1
  BY <1>3
<1>5. \A i \in 1..Len(s) + 1 : Sees(Push(s, x)[i], Push(r, y)[i], d)
  BY <1>1, <1>2, <1>3, <1>4 DEF Agree
<1> QED BY <1>1, <1>2, <1>3, <1>5 DEF Agree

LEMMA CutKeeps ==
    ASSUME NEW s \in Seq(Things), NEW r \in Seq(Things), NEW d, Agree(s, r, d),
           NEW k \in Int, k <= Len(s)
    PROVE  /\ SubSeq(s, 1, k) \in Seq(Things) /\ SubSeq(r, 1, k) \in Seq(Things)
           /\ Agree(SubSeq(s, 1, k), SubSeq(r, 1, k), d)
<1>1. /\ Len(s) \in Nat /\ Len(r) = Len(s)
      /\ \A i \in 1..k : s[i] \in Things /\ r[i] \in Things
  BY LenProperties, ElementOfSeq DEF Agree
<1>2. /\ SubSeq(s, 1, k) \in Seq(Things)
      /\ Len(SubSeq(s, 1, k)) = IF 1 <= k THEN k ELSE 0
      /\ \A i \in 1..k : SubSeq(s, 1, k)[i] = s[i]
  BY <1>1, SubSeqProperties
<1>3. /\ SubSeq(r, 1, k) \in Seq(Things)
      /\ Len(SubSeq(r, 1, k)) = IF 1 <= k THEN k ELSE 0
      /\ \A i \in 1..k : SubSeq(r, 1, k)[i] = r[i]
  BY <1>1, SubSeqProperties
<1>4. \A i \in 1..(IF 1 <= k THEN k ELSE 0) : i \in 1..k /\ i \in 1..Len(s)
  BY <1>1
<1> QED BY <1>1, <1>2, <1>3, <1>4 DEF Agree

LEMMA DropKeeps ==
    ASSUME NEW s \in Seq(Things), NEW r \in Seq(Things), NEW d, Agree(s, r, d), NEW n \in Nat
    PROVE  /\ Drop(s, n) \in Seq(Things) /\ Drop(r, n) \in Seq(Things)
           /\ Agree(Drop(s, n), Drop(r, n), d)
<1>1. Len(s) \in Nat /\ Len(r) = Len(s)
  BY LenProperties DEF Agree
<1> QED BY <1>1, CutKeeps DEF Drop

\* What lies n below the top is seen for what it is.
LEMMA BelowSeen ==
    ASSUME NEW s \in Seq(Things), NEW r \in Seq(Things), NEW d, Agree(s, r, d),
           NEW n \in Nat, n < Len(s)
    PROVE  /\ Below(s, n) \in Things /\ Below(r, n) \in Things
           /\ Sees(Below(s, n), Below(r, n), d)
<1>1. Len(s) \in Nat /\ Len(r) = Len(s) /\ Len(s) - n \in 1..Len(s)
  BY LenProperties DEF Agree
<1> QED BY <1>1, ElementOfSeq DEF Agree, Below

LEMMA TopSeen ==
    ASSUME NEW s \in Seq(Things), NEW r \in Seq(Things), NEW d, Agree(s, r, d), Len(s) >= 1
    PROVE  Top(s) \in Things /\ Top(r) \in Things /\ Sees(Top(s), Top(r), d)
<1>1. Len(s) \in Nat /\ Len(r) = Len(s) /\ Len(s) \in 1..Len(s)
  BY LenProperties DEF Agree
<1> QED BY <1>1, ElementOfSeq DEF Agree, Top

\* Both machines find the same mark.
LEMMA MarkKeeps ==
    ASSUME NEW s \in Seq(Things), NEW r \in Seq(Things), NEW d, Agree(s, r, d),
           \E i \in Marks(r) : \A j \in Marks(r) : j <= i
    PROVE  /\ ToMark(s) \in Seq(Things) /\ ToMark(r) \in Seq(Things)
           /\ Agree(ToMark(s), ToMark(r), d)
           /\ FirstPopped(s) \in Things /\ FirstPopped(r) \in Things
           /\ Sees(FirstPopped(s), FirstPopped(r), d)
<1>1. Len(s) \in Nat /\ Len(r) = Len(s)
  BY LenProperties DEF Agree
<1>2. \A i \in 1..Len(s) : s[i].is = "mark" <=> r[i].is = "mark"
  BY <1>1 DEF Agree, Sees
<1>3. Marks(s) = Marks(r)
  BY <1>1, <1>2 DEF Marks
<1> DEFINE m == LastMark(Marks(r))
<1>4. m \in Marks(r)
  BY DEF LastMark
<1>5. m \in 1..Len(s)
  BY <1>1, <1>4 DEF Marks
<1>6. /\ ToMark(s) \in Seq(Things) /\ ToMark(r) \in Seq(Things)
      /\ Agree(ToMark(s), ToMark(r), d)
  <2>1. m - 1 \in Int /\ m - 1 <= Len(s)
    BY <1>1, <1>5
  <2>2. ToMark(s) = SubSeq(s, 1, m - 1) /\ ToMark(r) = SubSeq(r, 1, m - 1)
    BY <1>3 DEF ToMark
  <2> QED BY <2>1, <2>2, CutKeeps
<1>7. CASE m < Len(s)
  <2>1. m + 1 \in 1..Len(s)
    BY <1>1, <1>5, <1>7
  <2>2. FirstPopped(s) = s[m + 1] /\ FirstPopped(r) = r[m + 1]
    BY <1>1, <1>3, <1>7 DEF FirstPopped
  <2>3. s[m + 1] \in Things /\ r[m + 1] \in Things /\ Sees(s[m + 1], r[m + 1], d)
    BY <1>1, <2>1, ElementOfSeq DEF Agree
  <2> QED BY <1>6, <2>2, <2>3
<1>8. CASE ~(m < Len(s))
  <2>1. FirstPopped(s) = Obj(Unknown) /\ FirstPopped(r) = Obj(Unknown)
    BY <1>1, <1>3, <1>8 DEF FirstPopped
  <2>2. Obj(Unknown) \in Things /\ Sees(Obj(Unknown), Obj(Unknown), d)
    BY DEF Sees, Image, Label, TypeName, Obj, Told, Things, Types, Origins
  <2> QED BY <1>6, <2>1, <2>2
<1> QED BY <1>7, <1>8

-----------------------------------------------------------------------------
(* Each opcode *)

\* Become: both stacks change alike, what is remembered does not.
LEMMA BecomeKeeps ==
    ASSUME Inv, NEW s \in Seq(Things), NEW r \in Seq(Things), Agree(s, r, duped),
           Become(s, r), ops' \in Nat
    PROVE  Inv'
BY DEF Inv, TypeOK, LabelsMatch, Become, Agree

\* An opcode that replaces what it takes by one thing.
LEMMA ReplaceKeeps ==
    ASSUME Inv, ops' \in Nat, NEW s \in Seq(Things), NEW r \in Seq(Things), Agree(s, r, duped),
           NEW x \in Things, NEW y \in Things, Sees(x, y, duped),
           Become(Push(s, x), Push(r, y))
    PROVE  Inv'
<1>1. /\ Push(s, x) \in Seq(Things) /\ Push(r, y) \in Seq(Things)
      /\ Agree(Push(s, x), Push(r, y), duped)
  BY PushKeeps
<1> QED BY <1>1, BecomeKeeps

\* What is pushed from outside the stack: a thing that both machines see alike.
LEMMA FreshSeen ==
    /\ \A t \in Atoms \cup {"tuple", Unknown} : Obj(t) \in Things /\ Sees(Obj(t), Obj(t), duped)
    /\ Tup(Nobody) \in Things /\ Sees(Obj("tuple"), Tup(Nobody), duped)
    /\ \A t \in Texts : Str(t) \in Things /\ Sees(Str(t), Str(t), duped)
    /\ \A c \in Names : /\ Cls(c) \in Things /\ Sees(Cls(c), Cls(c), duped)
                         /\ Obj(c) \in Things /\ Sees(Obj(c), Obj(c), duped)
    /\ Mark \in Things /\ Sees(Mark, Mark, duped)
BY DEF Sees, Image, Told, Label, TypeName, Obj, Tup, Str, Cls, Mark, Things, Types, Origins

LEMMA PushesKeep ==
    ASSUME Inv, ops' \in Nat,
           \/ \E t \in Atoms : PushAtom(t)
           \/ \E t \in Texts : PushText(t)
           \/ \E c \in Names : Global(c)
           \/ EmptyTuple \/ PushMark
    PROVE  Inv'
<1>1. stack \in Seq(Things) /\ real \in Seq(Things) /\ Agree(stack, real, duped)
  BY DEF Inv, TypeOK, LabelsMatch
<1>2. CASE \E t \in Atoms : PushAtom(t)
  BY <1>1, <1>2, FreshSeen, ReplaceKeeps DEF PushAtom
<1>3. CASE \E t \in Texts : PushText(t)
  BY <1>1, <1>3, FreshSeen, ReplaceKeeps DEF PushText
<1>4. CASE \E c \in Names : Global(c)
  BY <1>1, <1>4, FreshSeen, ReplaceKeeps DEF Global
<1>5. CASE EmptyTuple
  BY <1>1, <1>5, FreshSeen, ReplaceKeeps DEF EmptyTuple
<1>6. CASE PushMark
  BY <1>1, <1>6, FreshSeen, ReplaceKeeps DEF PushMark
<1> QED BY <1>2, <1>3, <1>4, <1>5, <1>6

\* What an opcode takes from the top.
LEMMA TakenSeen ==
    ASSUME Inv, NEW n \in Nat, Free(n)
    PROVE  /\ Drop(stack, n) \in Seq(Things) /\ Drop(real, n) \in Seq(Things)
           /\ Agree(Drop(stack, n), Drop(real, n), duped)
           /\ \A k \in 0..n - 1 : /\ Below(stack, k) \in Things /\ Below(real, k) \in Things
                                 /\ Sees(Below(stack, k), Below(real, k), duped)
           /\ n >= 1 => /\ Top(stack) \in Things /\ Top(real) \in Things
                        /\ Sees(Top(stack), Top(real), duped)
<1>1. /\ stack \in Seq(Things) /\ real \in Seq(Things) /\ Agree(stack, real, duped)
      /\ Len(stack) \in Nat /\ Len(real) = Len(stack) /\ Len(stack) >= n
  BY LenProperties DEF Inv, TypeOK, LabelsMatch, Agree, Free
<1>2. \A k \in 0..n - 1 : k \in Nat /\ k < Len(stack)
  BY <1>1
<1>3. n >= 1 => Len(stack) >= 1
  BY <1>1
<1> QED BY <1>1, <1>2, <1>3, DropKeeps, BelowSeen, TopSeen

\* Once the types are lost, nothing is asked of a label but that it is no mark.
LEMMA LostSeen ==
    ASSUME duped, NEW x, x.is # "mark", NEW y, y.is # "mark"
    PROVE  Sees(x, y, duped)
BY DEF Sees

\* A thing seen is taken for the head of a tuple, and instantiated, as what it is.
LEMMA SeenAlike ==
    ASSUME PickleAssumption, NEW x \in Things, NEW y \in Things, Sees(x, y, duped)
    PROVE  /\ Sees(Tup(ClassOf(x)), Tup(ClassOf(y)), duped)
           /\ Tup(ClassOf(x)) \in Things /\ Tup(ClassOf(y)) \in Things
           /\ ~duped /\ y.is = "class" /\ y.by = Nobody => x = y
           /\ ~duped /\ y.is = "str" => x = y
           /\ IsClass(y) => /\ Obj(Label(x)) \in Things /\ Instance(y) \in Things
                            /\ Sees(Obj(Label(x)), Instance(y), duped)
<1>1. ~duped /\ y.is = "class" /\ y.by = Nobody => x = y
  BY DEF Sees, Told, Image
<1>2. ~duped /\ y.is = "str" => x = y
  BY DEF Sees, Told, Image, Things, Mark, Cls, Str, Tup, Obj
<1>3. Tup(ClassOf(x)) \in Things /\ Tup(ClassOf(y)) \in Things
  BY DEF ClassOf, Things, Mark, Tup
<1>4. ~duped => ClassOf(x) = ClassOf(y)
  BY DEF Sees, Told, Image, ClassOf, Obj
<1>5. Sees(Tup(ClassOf(x)), Tup(ClassOf(y)), duped)
  BY <1>4 DEF Sees, Image, Told, Label, TypeName, Tup
<1>6. ASSUME IsClass(y)
      PROVE  /\ Obj(Label(x)) \in Things /\ Instance(y) \in Things
             /\ Sees(Obj(Label(x)), Instance(y), duped)
  <2>1. y.is = "class" /\ y.name \in Names /\ y.by \in Origins /\ x.is # "mark"
    BY <1>6 DEF IsClass, PickleAssumption, Sees, Things, Mark
  <2>2. Label(x) \in Types
    BY <2>1 DEF Label, Things, Types, Mark
  <2>3. Instance(y) = [is |-> "object", name |-> y.name, by |-> y.by]
    BY DEF Instance, From, Obj
  <2>4. Obj(Label(x)) \in Things /\ Instance(y) \in Things
    BY <2>1, <2>2, <2>3 DEF Things, Types, Obj, Origins
  <2>5. ~duped => Label(x) = TypeName(Image(Instance(y)))
    BY <2>1, <2>3 DEF Sees, Image, TypeName, Label, Obj
  <2>6. ~Told(Obj(Label(x))) /\ ~Told(Image(Instance(y)))
    BY <2>3 DEF Told, Image, Obj
  <2> QED BY <2>3, <2>4, <2>5, <2>6 DEF Sees, Label, Obj
<1> QED BY <1>1, <1>2, <1>3, <1>5, <1>6

\* What is told apart by its kind has a name of that kind.
LEMMA NamedByKind ==
    ASSUME NEW o \in Things
    PROVE  /\ o.is = "str" => o.name \in Texts
           /\ o.is = "class" => o.name \in Names \cup {Unknown}
           /\ o.is = "tuple" => o.name \in Names \cup {Unknown, Nobody}
           /\ o.is # "mark" => Label(o) \in Types /\ o.by \in Origins
BY DEF Things, Mark, Label, Types, Origins

\* STACK_GLOBAL finds the class that the two strings name.
LEMMA GlobalsKeep ==
    ASSUME PickleAssumption, Inv, ops' \in Nat, StackGlobal
    PROVE  Inv'
<1> DEFINE x == Top(stack)  y == Top(real)  u == Below(stack, 1)  v == Below(real, 1)
<1> DEFINE c == Named[<<v.name, y.name>>]  l == Qualname(StrValue(u), StrValue(x))
<1>0. Free(2) /\ y.is = "str" /\ v.is = "str"
  BY DEF StackGlobal
<1>1. /\ Drop(stack, 2) \in Seq(Things) /\ Drop(real, 2) \in Seq(Things)
      /\ Agree(Drop(stack, 2), Drop(real, 2), duped)
      /\ x \in Things /\ y \in Things /\ Sees(x, y, duped)
      /\ u \in Things /\ v \in Things /\ Sees(u, v, duped)
  BY <1>0, TakenSeen
<1>2. ~duped => x = y /\ u = v
  BY <1>0, <1>1, SeenAlike
<1>3. <<v.name, y.name>> \in Texts \X Texts
  BY <1>0, <1>1, NamedByKind
<1>4. ~duped => l = c
  BY <1>0, <1>2, <1>3 DEF StrValue, Qualname
<1>5. c \in Names /\ l \in Names \cup {Unknown}
  BY <1>3 DEF PickleAssumption, Qualname
<1>6. Cls(l) \in Things /\ Cls(c) \in Things /\ Sees(Cls(c), Cls(c), duped)
  <2>1. Cls(l) \in Things /\ Cls(c) \in Things
    BY <1>5 DEF Things, Cls, Origins
  <2> QED BY <1>5, <2>1, FreshSeen
<1>7. Sees(Cls(l), Cls(c), duped)
  <2>1. CASE duped
    BY <2>1, LostSeen DEF Cls
  <2>2. CASE ~duped
    BY <2>2, <1>4, <1>6
  <2> QED BY <2>1, <2>2
<1>8. Become(Push(Drop(stack, 2), Cls(l)), Push(Drop(real, 2), Cls(c)))
  BY DEF StackGlobal
<1> HIDE DEF c, l
<1> QED BY <1>1, <1>6, <1>7, <1>8, ReplaceKeeps

LEMMA TuplesKeep ==
    ASSUME PickleAssumption, Inv, ops' \in Nat, NEW n \in 1..3, TupleOf(n)
    PROVE  Inv'
<1> DEFINE x == Below(stack, n - 1)  y == Below(real, n - 1)
<1>1. Free(n) /\ n \in Nat /\ n - 1 \in 0..n - 1
  BY DEF TupleOf
<1>2. /\ Drop(stack, n) \in Seq(Things) /\ Drop(real, n) \in Seq(Things)
      /\ Agree(Drop(stack, n), Drop(real, n), duped)
      /\ x \in Things /\ y \in Things /\ Sees(x, y, duped)
  BY <1>1, TakenSeen
<1>3. /\ Sees(Tup(ClassOf(x)), Tup(ClassOf(y)), duped)
      /\ Tup(ClassOf(x)) \in Things /\ Tup(ClassOf(y)) \in Things
  BY <1>2, SeenAlike
<1> QED BY <1>2, <1>3, ReplaceKeeps DEF TupleOf

\* NEWOBJ makes an object of the class it finds, whatever the arguments.
LEMMA NewObjectsKeep ==
    ASSUME PickleAssumption, Inv, ops' \in Nat, NEW extra \in 0..1, NewObj(extra)
    PROVE  Inv'
<1> DEFINE n == 2 + extra
<1> DEFINE x == Below(stack, 1 + extra)  y == Below(real, 1 + extra)
<1>1. Free(n) /\ IsClass(y) /\ n \in Nat /\ 1 + extra \in 0..n - 1
  BY DEF NewObj
<1>2. /\ Drop(stack, n) \in Seq(Things) /\ Drop(real, n) \in Seq(Things)
      /\ Agree(Drop(stack, n), Drop(real, n), duped)
      /\ x \in Things /\ y \in Things /\ Sees(x, y, duped)
  BY <1>1, TakenSeen
<1>3. /\ Obj(Label(x)) \in Things /\ Instance(y) \in Things
      /\ Sees(Obj(Label(x)), Instance(y), duped)
  BY <1>1, <1>2, SeenAlike
<1>4. Become(Push(Drop(stack, n), Obj(Label(x))), Push(Drop(real, n), Instance(y)))
  BY DEF NewObj
<1> QED BY <1>2, <1>3, <1>4, ReplaceKeeps

\* What comes from outside, or out of a call of which the pickle does not tell.
LEMMA AnythingSeen ==
    ASSUME NEW b \in Origins, b # Nobody, PickleAssumption, NEW o \in Anything(b)
    PROVE  /\ o \in Things /\ o.is # "mark"
           /\ Obj(b) \in Things /\ Sees(Obj(b), o, duped)
<1>1. PICK t \in Types, k \in {"object", "class"} :
         /\ o = [is |-> k, name |-> t, by |-> b]
         /\ k = "class" => t \in Names
  <2>1. CASE \E t \in Classes \cup Atoms : o = From(Obj(t), b)
    BY <2>1 DEF From, Obj, Types, PickleAssumption
  <2>2. CASE \E c \in Names : o = From(Cls(c), b)
    BY <2>2 DEF From, Cls, Types
  <2> QED BY <2>1, <2>2 DEF Anything
<1>2. o \in Things /\ o.is # "mark"
  BY <1>1 DEF Things
<1>3. Obj(b) \in Things
  BY DEF Things, Obj, Origins, Types
<1>4. Sees(Obj(b), o, duped)
  BY <1>1 DEF Sees, Image, Told, Label, TypeName, Obj
<1> QED BY <1>2, <1>3, <1>4

LEMMA OutsideKeeps ==
    ASSUME PickleAssumption, Inv, ops' \in Nat, NEW n \in 0..1, FromOutside(n)
    PROVE  Inv'
<1>1. Unknown \in Origins /\ Unknown # Nobody /\ Free(n) /\ n \in Nat
  BY DEF Origins, PickleAssumption, FromOutside
<1>2. /\ Drop(stack, n) \in Seq(Things) /\ Drop(real, n) \in Seq(Things)
      /\ Agree(Drop(stack, n), Drop(real, n), duped)
  BY <1>1, TakenSeen
<1>3. PICK o \in Anything(Unknown) :
         Become(Push(Drop(stack, n), Obj(Unknown)), Push(Drop(real, n), o))
  BY DEF FromOutside
<1>4. o \in Things /\ Obj(Unknown) \in Things /\ Sees(Obj(Unknown), o, duped)
  BY <1>1, <1>3, AnythingSeen
<1> QED BY <1>2, <1>3, <1>4, ReplaceKeeps

\* DUP: what is lost is nothing but types.
LEMMA DupKeeps ==
    ASSUME PickleAssumption, Inv, ops' \in Nat, Dup
    PROVE  Inv'
<1> DEFINE u == Obj(Unknown)  x == Top(real)  s == Drop(stack, 1)  r == Drop(real, 1)
<1>1. /\ stack \in Seq(Things) /\ real \in Seq(Things) /\ Agree(stack, real, duped)
      /\ memo \in Seq(Things) /\ realMemo \in Seq(Things) /\ Agree(memo, realMemo, duped)
      /\ Free(1)
  BY DEF Inv, TypeOK, LabelsMatch, Dup
<1>2. /\ s \in Seq(Things) /\ Agree(s, r, duped) /\ x \in Things
      /\ r \in Seq(Things) /\ Len(real) \in Nat /\ Len(real) >= 1
  BY <1>1, TakenSeen, LenProperties DEF Free
<1>3. x.is # "mark"
  <2>1. Len(real) \in 1..Len(real) /\ Len(real) > Len(real) - 1
    BY <1>2
  <2> QED BY <2>1, <1>1 DEF Free, Reaches, Top
<1>4. u \in Things /\ u.is # "mark" /\ Sees(u, x, TRUE)
  BY <1>3 DEF Things, Origins, Types, Obj, Sees
<1>5. Agree(s, r, TRUE) /\ Agree(memo, realMemo, TRUE)
  BY <1>1, <1>2 DEF Agree, Sees
<1>6. /\ Push(s, u) \in Seq(Things) /\ Push(r, x) \in Seq(Things)
      /\ Agree(Push(s, u), Push(r, x), TRUE)
  BY <1>2, <1>4, <1>5, PushKeeps
<1>7. /\ Push(Push(s, u), u) \in Seq(Things) /\ Push(Push(r, x), x) \in Seq(Things)
      /\ Agree(Push(Push(s, u), u), Push(Push(r, x), x), TRUE)
  BY <1>2, <1>4, <1>6, PushKeeps
<1>8. Push(r, x) = real
  <2>1. \A n \in Nat : n >= 1 => n - 1 <= n /\ n - 1 \in Nat /\ n - 1 + 1 = n
    OBVIOUS
  <2>2. PICK k \in Nat : Len(real) = k + 1
    BY <1>2, <2>1
  <2>3. r = SubSeq(real, 1, k)
    BY <2>2 DEF Drop
  <2>4. Len(r) = k /\ \A i \in 1..k : r[i] = real[i]
    BY <1>1, <2>2, <2>3
  <2>5. /\ Push(r, x) \in Seq(Things) /\ Len(Push(r, x)) = k + 1
        /\ \A i \in 1..k : Push(r, x)[i] = r[i]
        /\ Push(r, x)[k + 1] = x
    BY <1>2, <2>4, AppendProperties DEF Push
  <2>6. \A i \in 1..k + 1 : i \in 1..k \/ i = k + 1
    BY <2>2
  <2>7. \A i \in 1..k + 1 : Push(r, x)[i] = real[i]
    BY <2>2, <2>4, <2>5, <2>6 DEF Top
  <2> QED BY <1>1, <2>2, <2>5, <2>7, SeqEqual
<1>9. /\ stack' = Push(Push(s, u), u) /\ real' = Push(Push(r, x), x) /\ duped' = TRUE
      /\ memo' = memo /\ realMemo' = realMemo
  BY <1>8 DEF Dup
<1> QED BY <1>1, <1>5, <1>7, <1>9 DEF Inv, TypeOK, LabelsMatch, Agree

\* What a call gives is an object, and its label is what the pickle tells of it.
LEMMA MadeSeen ==
    ASSUME PickleAssumption, NEW fn \in Things, NEW f \in Things, Sees(fn, f, duped),
           NEW given \in Things, NEW args \in Things, Sees(given, args, duped),
           Callable(f), args.is = "tuple", NEW o \in Made(f, args)
    PROVE  /\ o \in Things /\ Obj(ReduceLabel(fn, given)) \in Things
           /\ Sees(Obj(ReduceLabel(fn, given)), o, duped)
<1> DEFINE l == ReduceLabel(fn, given)
<1>1. f.is \in {"class", "object"} /\ fn.is # "mark" /\ f.by \in Origins
  BY NamedByKind DEF Callable, Sees
<1>2. l \in Types
  <2>1. Label(fn) \in Types
    BY <1>1, NamedByKind
  <2>2. given.is = "tuple" /\ given.name # Nobody => given.name \in Types
    BY NamedByKind DEF Types
  <2> QED BY <2>1, <2>2 DEF ReduceLabel, Types
<1>3. Obj(l) \in Things
  BY <1>2 DEF Things, Obj, Origins
<1>4. ASSUME ~duped PROVE Label(fn) = TypeName(Image(f))
  BY <1>4 DEF Sees
<1>5. ASSUME NEW b \in Origins, b # Nobody, o \in Anything(b), ~duped => l = b
      PROVE  o \in Things /\ Sees(Obj(l), o, duped)
  <2>1. o \in Things /\ o.is # "mark" /\ Sees(Obj(b), o, duped)
    BY <1>5, AnythingSeen
  <2>2. CASE duped
    BY <2>1, <2>2, LostSeen DEF Obj
  <2>3. CASE ~duped
    BY <2>1, <2>3, <1>5
  <2> QED BY <2>1, <2>2, <2>3
<1>6. ASSUME NEW t \in Types, o = Obj(t), ~duped => l = t
      PROVE  o \in Things /\ Sees(Obj(l), o, duped)
  <2>1. o \in Things
    BY <1>6 DEF Things, Obj, Origins
  <2>2. Sees(Obj(l), o, duped)
    BY <1>6 DEF Sees, Image, Told, Label, TypeName, Obj
  <2> QED BY <2>1, <2>2
<1>7. CASE f.by # Nobody
  <2>1. Image(f) = Obj(f.by) /\ o \in Anything(f.by)
    BY <1>7 DEF Image, Made
  <2>2. f.by \notin Reconstructors \cup {FromBuffer}
    BY <1>1, <1>7 DEF Origins, Helpers, PickleAssumption
  <2>3. ~duped => l = f.by
    BY <1>4, <2>1, <2>2 DEF ReduceLabel, TypeName, Obj
  <2> QED BY <1>1, <1>3, <1>5, <1>7, <2>1, <2>3
<1>8. CASE f.by = Nobody /\ f.is = "object"
  <2>1. Image(f) = f /\ o \in Anything(f.name) /\ f.name \in Classes
    BY <1>8 DEF Image, Made, Callable
  <2>2. f.name \notin Reconstructors \cup {FromBuffer} /\ f.name \in Origins /\ f.name # Nobody
    BY <2>1 DEF Origins, Helpers, PickleAssumption
  <2>3. ~duped => l = f.name
    BY <1>4, <1>8, <2>1, <2>2 DEF ReduceLabel, TypeName
  <2> QED BY <1>3, <1>5, <2>1, <2>2, <2>3
<1>9. CASE f.by = Nobody /\ f.is = "class"
  <2>1. Image(f) = f /\ f.name \in Names \cup {Unknown} /\ f.name # Nobody
    BY <1>9, NamedByKind DEF Image, PickleAssumption
  <2>2. ~duped => Label(fn) = f.name
    BY <1>4, <1>9, <2>1 DEF TypeName
  <2>3. CASE f.name \in Reconstructors
    <3>1. args.name # Nobody /\ o = Obj(args.name)
      BY <1>9, <2>3 DEF Made
    <3>2. ~duped => given = args
      BY <3>1 DEF Sees, Told, Image, Things, Mark
    <3>3. ~duped => l = args.name
      BY <2>2, <2>3, <3>1, <3>2 DEF ReduceLabel
    <3>4. args.name \in Types
      BY <3>1, NamedByKind DEF Types
    <3> QED BY <1>3, <1>6, <3>1, <3>3, <3>4
  <2>4. CASE f.name = FromBuffer
    <3>1. o = Obj(Array)
      BY <1>9, <2>4 DEF Made, PickleAssumption
    <3>2. ~duped => l = Array
      BY <2>2, <2>4 DEF ReduceLabel, PickleAssumption
    <3> QED BY <1>3, <1>6, <3>1, <3>2 DEF Types
  <2>5. CASE f.name \notin Reconstructors \cup {FromBuffer}
    <3>1. ~duped => l = f.name
      BY <2>2, <2>5 DEF ReduceLabel
    <3>2. CASE f.name \in Classes
      <4>1. o = Obj(f.name) /\ f.name \in Types
        BY <1>9, <2>1, <2>5, <3>2 DEF Made, Types
      <4> QED BY <1>3, <1>6, <3>1, <4>1
    <3>3. CASE f.name \notin Classes
      <4>1. o \in Anything(f.name)
        BY <1>9, <2>5, <3>3 DEF Made
      <4>2. f.name \in Origins
        BY <2>1, <2>5 DEF Origins, Helpers
      <4> QED BY <1>3, <1>5, <2>1, <3>1, <4>1, <4>2
    <3> QED BY <3>2, <3>3
  <2> QED BY <2>3, <2>4, <2>5
<1> QED BY <1>1, <1>7, <1>8, <1>9

\* REDUCE: the label is what the pickle tells of what the call gives.
LEMMA CallsKeep ==
    ASSUME PickleAssumption, Inv, ops' \in Nat, Reduce
    PROVE  Inv'
<1>0. PICK fn, f, given, args :
         fn = Below(stack, 1) /\ f = Below(real, 1) /\ given = Top(stack) /\ args = Top(real)
  OBVIOUS
<1>1. Free(2) /\ Callable(f) /\ args.is = "tuple"
  BY <1>0 DEF Reduce
<1>2. /\ Drop(stack, 2) \in Seq(Things) /\ Drop(real, 2) \in Seq(Things)
      /\ Agree(Drop(stack, 2), Drop(real, 2), duped)
      /\ fn \in Things /\ f \in Things /\ Sees(fn, f, duped)
      /\ given \in Things /\ args \in Things /\ Sees(given, args, duped)
  BY <1>0, <1>1, TakenSeen
<1>3. PICK o \in Made(f, args) :
         Become(Push(Drop(stack, 2), Obj(ReduceLabel(fn, given))), Push(Drop(real, 2), o))
  BY <1>0 DEF Reduce
<1>4. /\ o \in Things /\ Obj(ReduceLabel(fn, given)) \in Things
      /\ Sees(Obj(ReduceLabel(fn, given)), o, duped)
  BY <1>1, <1>2, <1>3, MadeSeen
<1> QED BY <1>2, <1>3, <1>4, ReplaceKeeps

\* The opcodes that take everything above the mark.
LEMMA MarksKeep ==
    ASSUME PickleAssumption, Inv, ops' \in Nat,
           \/ TupleToMark \/ ObjToMark \/ MutateToMark
           \/ \E c \in Classes : Inst(c)
           \/ \E t \in Atoms : BuildToMark(t)
    PROVE  Inv'
<1> DEFINE x == FirstPopped(stack)  y == FirstPopped(real)
<1>0. Marked
  BY DEF TupleToMark, ObjToMark, MutateToMark, Inst, BuildToMark
<1>1. stack \in Seq(Things) /\ real \in Seq(Things) /\ Agree(stack, real, duped)
  BY DEF Inv, TypeOK, LabelsMatch
<1>2. /\ ToMark(stack) \in Seq(Things) /\ ToMark(real) \in Seq(Things)
      /\ Agree(ToMark(stack), ToMark(real), duped)
      /\ x \in Things /\ y \in Things /\ Sees(x, y, duped)
  BY <1>0, <1>1, MarkKeeps DEF Marked
<1>3. CASE TupleToMark
  <2>1. /\ Sees(Tup(ClassOf(x)), Tup(ClassOf(y)), duped)
        /\ Tup(ClassOf(x)) \in Things /\ Tup(ClassOf(y)) \in Things
    BY <1>2, SeenAlike
  <2> QED BY <1>2, <1>3, <2>1, ReplaceKeeps DEF TupleToMark
<1>4. CASE ObjToMark
  <2>1. IsClass(y)
    BY <1>4 DEF ObjToMark
  <2>2. /\ Obj(Label(x)) \in Things /\ Instance(y) \in Things
        /\ Sees(Obj(Label(x)), Instance(y), duped)
    BY <1>2, <2>1, SeenAlike
  <2>3. Become(Push(ToMark(stack), Obj(Label(x))), Push(ToMark(real), Instance(y)))
    BY <1>4 DEF ObjToMark
  <2> QED BY <1>2, <2>2, <2>3, ReplaceKeeps
<1>5. CASE MutateToMark
  BY <1>2, <1>5, BecomeKeeps DEF MutateToMark
<1>6. CASE \E c \in Classes : Inst(c)
  BY <1>2, <1>6, FreshSeen, ReplaceKeeps DEF Inst, PickleAssumption
<1>7. CASE \E t \in Atoms : BuildToMark(t)
  BY <1>2, <1>7, FreshSeen, ReplaceKeeps DEF BuildToMark
<1> QED BY <1>3, <1>4, <1>5, <1>6, <1>7

LEMMA DropsKeep ==
    ASSUME Inv, ops' \in Nat, Pop \/ \E n \in 1..2 : Mutate(n)
    PROVE  Inv'
<1>1. stack \in Seq(Things) /\ real \in Seq(Things) /\ Agree(stack, real, duped)
  BY DEF Inv, TypeOK, LabelsMatch
<1>2. \A n \in Nat : /\ Drop(stack, n) \in Seq(Things) /\ Drop(real, n) \in Seq(Things)
                     /\ Agree(Drop(stack, n), Drop(real, n), duped)
  BY <1>1, DropKeeps
<1>3. CASE Pop
  <2>1. Become(Drop(stack, 1), Drop(real, 1))
    BY <1>3 DEF Pop
  <2> QED BY <1>2, <2>1, BecomeKeeps
<1>4. CASE \E n \in 1..2 : Mutate(n)
  <2>1. PICK n \in 1..2 : Mutate(n)
    BY <1>4
  <2>2. n \in Nat /\ Become(Drop(stack, n), Drop(real, n))
    BY <2>1 DEF Mutate
  <2> QED BY <1>2, <2>2, BecomeKeeps
<1> QED BY <1>3, <1>4

-----------------------------------------------------------------------------
(* The memo *)

LEMMA PutKeeps ==
    ASSUME NEW s \in Seq(Things), NEW r \in Seq(Things), NEW d, Agree(s, r, d),
           NEW i \in 1..Len(s) + 1,
           NEW x \in Things, NEW y \in Things, Sees(x, y, d)
    PROVE  /\ Put(s, i, x) \in Seq(Things) /\ Put(r, i, y) \in Seq(Things)
           /\ Agree(Put(s, i, x), Put(r, i, y), d)
<1>1. /\ Len(s) \in Nat /\ Len(r) = Len(s) /\ i \in Nat
      /\ \A j \in 1..Len(s) : s[j] \in Things /\ r[j] \in Things
  BY LenProperties, ElementOfSeq DEF Agree
<1> DEFINE n == IF i > Len(s) THEN i ELSE Len(s)
<1>2. /\ n \in Nat
      /\ \A j \in 1..n : j # i => j \in 1..Len(s)
  BY <1>1
<1>3. /\ Put(s, i, x) = [j \in 1..n |-> IF j = i THEN x ELSE s[j]]
      /\ Put(r, i, y) = [j \in 1..n |-> IF j = i THEN y ELSE r[j]]
  BY <1>1 DEF Put
<1> HIDE DEF n
<1>4. /\ \A j \in 1..n : (IF j = i THEN x ELSE s[j]) \in Things
      /\ \A j \in 1..n : (IF j = i THEN y ELSE r[j]) \in Things
  BY <1>1, <1>2
<1>5. /\ Put(s, i, x) \in Seq(Things) /\ Len(Put(s, i, x)) = n
      /\ Put(r, i, y) \in Seq(Things) /\ Len(Put(r, i, y)) = n
  BY <1>2, <1>3, <1>4, SeqDef, LenProperties
<1>6. \A j \in 1..n : Sees(IF j = i THEN x ELSE s[j], IF j = i THEN y ELSE r[j], d)
  BY <1>1, <1>2 DEF Agree
<1>7. \A j \in 1..n : Sees(Put(s, i, x)[j], Put(r, i, y)[j], d)
  BY <1>3, <1>6
<1> QED BY <1>5, <1>7 DEF Agree

LEMMA MemoizeKeeps ==
    ASSUME Inv, ops' \in Nat, NEW i \in 1..Len(memo) + 1, Memoize(i)
    PROVE  Inv'
<1>1. /\ memo \in Seq(Things) /\ realMemo \in Seq(Things) /\ Agree(memo, realMemo, duped)
      /\ Free(1)
  BY DEF Inv, TypeOK, LabelsMatch, Memoize
<1>2. Top(stack) \in Things /\ Top(real) \in Things /\ Sees(Top(stack), Top(real), duped)
  BY <1>1, TakenSeen
<1>3. memo' \in Seq(Things) /\ realMemo' \in Seq(Things) /\ Agree(memo', realMemo', duped)
  BY <1>1, <1>2, PutKeeps DEF Memoize
<1> QED BY <1>3 DEF Inv, TypeOK, LabelsMatch, Memoize, Agree

LEMMA GetKeeps ==
    ASSUME Inv, ops' \in Nat, NEW i \in 1..Len(memo), Get(i)
    PROVE  Inv'
<1>1. /\ stack \in Seq(Things) /\ real \in Seq(Things) /\ Agree(stack, real, duped)
      /\ memo \in Seq(Things) /\ realMemo \in Seq(Things) /\ Agree(memo, realMemo, duped)
  BY DEF Inv, TypeOK, LabelsMatch
<1>2. memo[i] \in Things /\ realMemo[i] \in Things /\ Sees(memo[i], realMemo[i], duped)
  BY <1>1, ElementOfSeq DEF Agree
<1> QED BY <1>1, <1>2, ReplaceKeeps DEF Get

LEMMA StopKeeps ==
    ASSUME Inv, ops' \in Nat, Stop
    PROVE  Inv'
<1>1. Free(1)
  BY DEF Stop
<1>2. Sees(Top(stack), Top(real), duped)
  BY <1>1, TakenSeen
<1>3. ~duped => answer'.label = TypeName(Image(answer'.of))
  BY <1>2 DEF Stop, Sees
<1> QED BY <1>3 DEF Inv, TypeOK, LabelsMatch, Stop, Agree

-----------------------------------------------------------------------------

LEMMA InvInit == Init => Inv
<1>1. <<>> \in Seq(Things) /\ Len(<<>>) = 0
  BY EmptySeq
<1>2. TypeName(Image(Obj(Unknown))) = Unknown
  BY DEF TypeName, Image, Obj
<1>3. Agree(<<>>, <<>>, FALSE)
  BY <1>1 DEF Agree
<1>4. Init => Agree(stack, real, duped) /\ Agree(memo, realMemo, duped)
  BY <1>3 DEF Init
<1>5. Init => TypeOK
  <2>1. 0 \in Nat /\ FALSE \in BOOLEAN
    OBVIOUS
  <2> QED BY <1>1, <2>1, Zenon DEF Init, TypeOK
<1>6. Init => answer.label = TypeName(Image(answer.of))
  BY <1>2 DEF Init
<1> QED BY <1>4, <1>5, <1>6 DEF Inv, LabelsMatch

LEMMA InvStep ==
    ASSUME PickleAssumption, Inv, [Next]_vars
    PROVE  Inv'
<1>1. CASE UNCHANGED vars
  BY <1>1 DEF vars, Inv, TypeOK, LabelsMatch, Agree
<1>2. CASE Next
  <2>1. ops' \in Nat /\ Opcode
    BY <1>2 DEF Next, Inv, TypeOK
  <2>2. CASE \/ \E t \in Atoms : PushAtom(t)
             \/ \E t \in Texts : PushText(t)
             \/ \E c \in Names : Global(c)
             \/ EmptyTuple \/ PushMark
    BY <2>1, <2>2, PushesKeep
  <2>3. CASE \/ TupleToMark \/ ObjToMark \/ MutateToMark
             \/ \E c \in Classes : Inst(c)
             \/ \E t \in Atoms : BuildToMark(t)
    BY <2>1, <2>3, MarksKeep
  <2>4. CASE \E n \in 1..3 : TupleOf(n)
    BY <2>1, <2>4, TuplesKeep
  <2>5. CASE \E extra \in 0..1 : NewObj(extra)
    BY <2>1, <2>5, NewObjectsKeep
  <2>6. CASE Pop \/ \E n \in 1..2 : Mutate(n)
    BY <2>1, <2>6, DropsKeep
  <2>7. CASE \E i \in 1..Len(memo) + 1 : Memoize(i)
    BY <2>1, <2>7, MemoizeKeeps
  <2>8. CASE \E i \in 1..Len(memo) : Get(i)
    BY <2>1, <2>8, GetKeeps
  <2>9. CASE StackGlobal
    BY <2>1, <2>9, GlobalsKeep
  <2>10. CASE Reduce
    BY <2>1, <2>10, CallsKeep
  <2>11. CASE Stop
    BY <2>1, <2>11, StopKeeps
  <2>12. CASE \E n \in 0..1 : FromOutside(n)
    BY <2>1, <2>12, OutsideKeeps
  <2>13. CASE Dup
    BY <2>1, <2>13, DupKeeps
  <2> QED BY <2>1, <2>2, <2>3, <2>4, <2>5, <2>6, <2>7, <2>8, <2>9, <2>10, <2>11, <2>12, <2>13
             DEF Opcode
<1> QED BY <1>1, <1>2

\* Whatever opcodes a pickle is made of, and whatever its calls give, at each
\* opcode the label of an object is its type or, where a function was called for
\* it, that function, and so is the answer of _pickle_type; after a DUP, the
\* stack of labels is still as deep as the unpickler's and has the same marks.
THEOREM PickleLabels == Spec => []LabelsMatch
<1>1. Init => Inv
  BY InvInit
<1>2. Inv /\ [Next]_vars => Inv'
  BY InvStep, PickleAssumption
<1>3. Inv => LabelsMatch
  BY DEF Inv
<1> QED BY <1>1, <1>2, <1>3, PTL DEF Spec

\* Both machines keep stacks and memos of labels, for every pickle.
THEOREM PickleTypes == Spec => []TypeOK
<1>1. Init => Inv
  BY InvInit
<1>2. Inv /\ [Next]_vars => Inv'
  BY InvStep, PickleAssumption
<1>3. Inv => TypeOK
  BY DEF Inv
<1> QED BY <1>1, <1>2, <1>3, PTL DEF Spec

=============================================================================
