----------------------------- MODULE PickleType -----------------------------
(***************************************************************************)
(* How `barca status` names the type of a pickled artifact without         *)
(* unpickling it: _pickle_type in python/barca/_inspect.py runs the        *)
(* pickle's opcodes on a stack of labels.  Beside it runs the machine it   *)
(* imitates, CPython's unpickler, on a stack of objects; both read the     *)
(* same opcodes, of any pickle that the unpickler accepts.                 *)
(*                                                                         *)
(* Both stacks hold records [is, name, by].  An object is a class or       *)
(* function, a string, a tuple, of which only a class at its head matters, *)
(* any other object, with its type, or the mark; `by` is where it comes    *)
(* from when the pickle does not tell its type: the function that was      *)
(* called for it, by REDUCE.  A label is one of these too; "object" stands *)
(* for a bare type name.                                                   *)
(*                                                                         *)
(* What is instantiated is a class, a function is called by REDUCE alone,  *)
(* a reconstructor with a class found by name first: a pickle that does    *)
(* otherwise is not accepted, or no pickler writes it.                     *)
(***************************************************************************)
EXTENDS Naturals, Sequences

CONSTANTS
    Names,            \* classes and functions, by qualified name
    Texts,            \* strings, the names of modules and classes among them
    Named,            \* what a pair of strings, module and name, stands for
    Classes,          \* those of Names that are classes, and give their own objects
    Reconstructors,   \* functions that build an object of their first argument
    FromBuffer,       \* numpy's _frombuffer
    Array,            \* numpy.ndarray
    Atoms,            \* builtin types that an opcode builds, with content or empty
    Unknown,          \* the type of what comes from outside the pickle
    Nobody,           \* no class
    MaxOps            \* bound: opcodes of a pickle

VARIABLES stack, memo,      \* the labels of _pickle_type
          real, realMemo,   \* the unpickler
          ops,              \* opcodes read
          answer,           \* the label and the object it is of, once known
          duped             \* whether the pickle had a DUP (for the property)

vars == <<stack, memo, real, realMemo, ops, answer, duped>>

Helpers == Reconstructors \cup {FromBuffer}

PickleAssumption ==
    /\ Named \in [Texts \X Texts -> Names]
    /\ Reconstructors \subseteq Names
    /\ FromBuffer \in Names \ Reconstructors
    /\ Classes \subseteq Names \ Helpers
    /\ Nobody \notin Names \cup Texts \cup {Unknown} /\ Unknown \notin Names \cup Texts
    /\ MaxOps \in Nat
ASSUME PickleAssumption

-----------------------------------------------------------------------------
(* Objects and labels *)

Mark == [is |-> "mark", name |-> Nobody, by |-> Nobody]
Cls(c) == [is |-> "class", name |-> c, by |-> Nobody]
Str(t) == [is |-> "str", name |-> t, by |-> Nobody]
Tup(head) == [is |-> "tuple", name |-> head, by |-> Nobody]
Obj(type) == [is |-> "object", name |-> type, by |-> Nobody]

From(o, b) == [o EXCEPT !.by = b]

\* What the file holds: a class or function is shown by its own name.
TypeName(o) == IF o.is \in {"tuple", "str"} THEN o.is ELSE o.name

\* _label
Label(item) == IF item.is \in {"tuple", "str"} THEN item.is ELSE item.name

StrValue(item) == IF item.is = "str" THEN item.name ELSE Unknown

\* _qualname: a builtin is named without its module.
Qualname(module, name) ==
    IF <<module, name>> \in Texts \X Texts THEN Named[<<module, name>>] ELSE Unknown

ClassOf(item) == IF item.is = "class" /\ item.by = Nobody THEN item.name ELSE Nobody

\* Mutant: reconstructors are taken for the class they build.
ReduceLabelPlain(fn, args) == IF Label(fn) = FromBuffer THEN Array ELSE Label(fn)

\* _reduce_label: what fn(*args) builds
ReduceLabel(fn, args) ==
    IF Label(fn) \in Reconstructors /\ args.is = "tuple" /\ args.name # Nobody
    THEN args.name
    ELSE IF Label(fn) = FromBuffer THEN Array ELSE Label(fn)

\* What comes out of a call, when nothing in the pickle tells.
Anything(b) == { From(o, b) : o \in { Obj(t) : t \in Classes \cup Atoms }
                                    \cup { Cls(c) : c \in Names } }

\* An object of a class may be called too.
Callable(f) == f.is = "class" \/ (f.is = "object" /\ f.name \in Classes)

\* What f(*args) may give.  A class gives its object, a function what it likes;
\* what is called may itself have come out of a call, as a class method does.
Made(f, args) ==
    IF f.by # Nobody THEN Anything(f.by)
    ELSE IF f.is = "object" THEN Anything(f.name)
    ELSE IF f.name \in Reconstructors
         THEN { Obj(c) : c \in {args.name} \ {Nobody} }
    ELSE IF f.name = FromBuffer THEN { Obj(Array) }
    ELSE IF f.name \in Classes THEN { Obj(f.name) } ELSE Anything(f.name)

-----------------------------------------------------------------------------
(* Stacks *)

Top(s) == s[Len(s)]
Below(s, n) == s[Len(s) - n]
Drop(s, n) == SubSeq(s, 1, Len(s) - n)

Marks(s) == {i \in 1..Len(s) : s[i].is = "mark"}
LastMark(P) == CHOOSE i \in P : \A j \in P : j <= i

\* _pop_to_mark: what stays, and the first item popped
ToMark(s) == SubSeq(s, 1, LastMark(Marks(s)) - 1)
FirstPopped(s) ==
    IF LastMark(Marks(s)) < Len(s) THEN s[LastMark(Marks(s)) + 1] ELSE Obj(Unknown)

\* The unpickler reaches n objects without crossing a mark.
Reaches(n) == \A i \in 1..Len(real) : i > Len(real) - n => real[i].is # "mark"
Free(n) == Len(real) >= n /\ Reaches(n)
\* There is a mark, and so one above all others.
Marked == \E i \in Marks(real) : \A j \in Marks(real) : j <= i

Push(s, x) == Append(s, x)
Put(m, i, x) == [j \in 1..(IF i > Len(m) THEN i ELSE Len(m)) |-> IF j = i THEN x ELSE m[j]]

-----------------------------------------------------------------------------
(* One action per kind of opcode: first what _pickle_type does to its stack,
   then what the unpickler does to its own. *)

Become(s, r) ==
    /\ stack' = s
    /\ real' = r
    /\ UNCHANGED <<memo, realMemo, answer, duped>>

\* The last branch of _pickle_type, for opcodes without operands: _PUSH_TYPES.
PushAtom(t) == Become(Push(stack, Obj(t)), Push(real, Obj(t)))
EmptyTuple == Become(Push(stack, Obj("tuple")), Push(real, Tup(Nobody)))

\* The last branch, for what is found outside the pickle: a registered
\* extension or a buffer, or in exchange for a key (n = 1).
FromOutside(n) ==
    /\ Free(n)
    /\ \E o \in Anything(Unknown) :
          Become(Push(Drop(stack, n), Obj(Unknown)), Push(Drop(real, n), o))

\* The last branch again: two results of no known type.
Dup ==
    /\ Free(1)
    /\ stack' = Push(Push(Drop(stack, 1), Obj(Unknown)), Obj(Unknown))
    /\ real' = Push(real, Top(real))
    /\ duped' = TRUE
    /\ UNCHANGED <<memo, realMemo, answer>>

PushText(t) == Become(Push(stack, Str(t)), Push(real, Str(t)))

PushMark == Become(Push(stack, Mark), Push(real, Mark))

\* MEMOIZE and the PUTs.  Picklers number what they remember from zero on.
Memoize(i) ==
    /\ Free(1)
    /\ memo' = Put(memo, i, Top(stack))
    /\ realMemo' = Put(realMemo, i, Top(real))
    /\ UNCHANGED <<stack, real, answer, duped>>

Get(i) == Become(Push(stack, memo[i]), Push(real, realMemo[i]))

Global(c) == Become(Push(stack, Cls(c)), Push(real, Cls(c)))

\* The name is on top, the module below it.
StackGlobal ==
    /\ Free(2)
    /\ Top(real).is = "str"
    /\ Below(real, 1).is = "str"
    /\ Become(Push(Drop(stack, 2), Cls(Qualname(StrValue(Below(stack, 1)), StrValue(Top(stack))))),
              Push(Drop(real, 2), Cls(Named[<<Below(real, 1).name, Top(real).name>>])))

TupleOf(n) ==
    /\ Free(n)
    /\ Become(Push(Drop(stack, n), Tup(ClassOf(Below(stack, n - 1)))),
              Push(Drop(real, n), Tup(ClassOf(Below(real, n - 1)))))

TupleToMark ==
    /\ Marked
    /\ Become(Push(ToMark(stack), Tup(ClassOf(FirstPopped(stack)))),
              Push(ToMark(real), Tup(ClassOf(FirstPopped(real)))))

IsClass(c) == c.is = "class" /\ c.name \in Classes
Instance(c) == From(Obj(c.name), c.by)

\* NEWOBJ (extra = 0) and NEWOBJ_EX (extra = 1, keyword arguments)
NewObj(extra) ==
    /\ Free(2 + extra)
    /\ IsClass(Below(real, 1 + extra))
    /\ Become(Push(Drop(stack, 2 + extra), Obj(Label(Below(stack, 1 + extra)))),
              Push(Drop(real, 2 + extra), Instance(Below(real, 1 + extra))))

Reduce ==
    /\ Free(2)
    /\ Callable(Below(real, 1))
    /\ Top(real).is = "tuple"
    /\ \E o \in Made(Below(real, 1), Top(real)) :
          Become(Push(Drop(stack, 2), Obj(ReduceLabel(Below(stack, 1), Top(stack)))),
                 Push(Drop(real, 2), o))

\* OBJ has the class above the mark, INST in its argument.
ObjToMark ==
    /\ Marked
    /\ IsClass(FirstPopped(real))
    /\ Become(Push(ToMark(stack), Obj(Label(FirstPopped(stack)))),
              Push(ToMark(real), Instance(FirstPopped(real))))

Inst(c) ==
    /\ Marked
    /\ Become(Push(ToMark(stack), Obj(c)), Push(ToMark(real), Obj(c)))

\* _MUTATORS: APPEND and BUILD (one operand), SETITEM (two), and those with a mark
Mutate(n) ==
    /\ Free(n + 1)
    /\ Become(Drop(stack, n), Drop(real, n))

MutateToMark ==
    /\ Marked
    /\ Become(ToMark(stack), ToMark(real))

\* The last branch: FROZENSET, LIST and DICT take all above the mark; POP.
BuildToMark(t) ==
    /\ Marked
    /\ Become(Push(ToMark(stack), Obj(t)), Push(ToMark(real), Obj(t)))

Pop ==
    /\ real # <<>>
    /\ Become(Drop(stack, 1), Drop(real, 1))

Stop ==
    /\ Free(1)
    /\ answer' = [label |-> Label(Top(stack)), of |-> Top(real)]
    /\ UNCHANGED <<stack, memo, real, realMemo, duped>>

Init ==
    /\ stack = <<>> /\ memo = <<>>
    /\ real = <<>> /\ realMemo = <<>>
    /\ ops = 0
    /\ answer = [label |-> Unknown, of |-> Obj(Unknown)]
    /\ duped = FALSE

Opcode ==
    \/ \E t \in Atoms : PushAtom(t) \/ BuildToMark(t)
    \/ \E t \in Texts : PushText(t)
    \/ \E c \in Names : Global(c)
    \/ \E c \in Classes : Inst(c)
    \/ \E n \in 1..3 : TupleOf(n)
    \/ \E n \in 1..2 : Mutate(n)
    \/ \E extra \in 0..1 : NewObj(extra) \/ FromOutside(extra)
    \/ \E i \in 1..Len(memo) + 1 : Memoize(i)
    \/ \E i \in 1..Len(memo) : Get(i)
    \/ EmptyTuple \/ PushMark \/ StackGlobal \/ TupleToMark \/ Dup
    \/ Reduce \/ ObjToMark \/ MutateToMark \/ Pop \/ Stop

Next == ops < MaxOps /\ ops' = ops + 1 /\ Opcode

Spec == Init /\ [][Next]_vars

-----------------------------------------------------------------------------
(* Properties *)

Origins == (Names \ Helpers) \cup {Nobody, Unknown}
Types == Names \cup Atoms \cup {Unknown, Array, "tuple", "str"}
Things ==
    UNION {{Mark},
           [is : {"class"}, name : Names \cup {Unknown}, by : Origins],
           [is : {"str"}, name : Texts, by : {Nobody}],
           [is : {"tuple"}, name : Names \cup {Unknown, Nobody}, by : {Nobody}],
           [is : {"object"}, name : Types, by : Origins]}

TypeOK ==
    /\ stack \in Seq(Things) /\ memo \in Seq(Things)
    /\ real \in Seq(Things) /\ realMemo \in Seq(Things)
    /\ ops \in Nat /\ duped \in BOOLEAN

\* Of classes, strings, marks and tuples with a class at the head the opcodes
\* read more than the type.
Told(x) == x.is \in {"mark", "class", "str"} \/ (x.is = "tuple" /\ x.name # Nobody)

\* What the pickle tells of an object: its type, or the function it came from.
Image(o) == IF o.by = Nobody THEN o ELSE Obj(o.by)

Sees(item, o, lost) ==
    /\ item.is = "mark" <=> o.is = "mark"
    /\ ~lost => /\ Label(item) = TypeName(Image(o))
                /\ Told(item) \/ Told(Image(o)) => item = Image(o)

Agree(s, r, lost) == Len(s) = Len(r) /\ \A i \in 1..Len(s) : Sees(s[i], r[i], lost)

\* Wherever the pickle leaves off, the label of an object that the unpickler
\* would have there is its type, and if a function was called for it, whatever
\* that returned, the name of this function; so is what _pickle_type returns at
\* STOP.  After a DUP the types are lost, but the stacks are as deep and have
\* their marks at the same places, so that no opcode takes what is not there.
LabelsMatch ==
    /\ Agree(stack, real, duped)
    /\ Agree(memo, realMemo, duped)
    /\ ~duped => answer.label = TypeName(Image(answer.of))

\* The doc's account of a pickle's shape: the type of the top-level object, if
\* it is known (_inspect.py, status.md).
AnswerIsType == answer.label \in {Unknown, TypeName(answer.of)}

=============================================================================
