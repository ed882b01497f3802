-------------------------- MODULE MCTypeDefinition --------------------------
(***************************************************************************)
(* Type tables for checking TypeDefinition.  They are built the way a C    *)
(* compiler with pahole would emit BTF for x86-64: ids are added one at a  *)
(* time, each new type may only contain (by value) types with lower ids,   *)
(* and every struct, union and datasec gets the offsets and size the C     *)
(* layout rules give it.  Pointers may point at any lower id or at the     *)
(* requested type, which is the last id, so pointer cycles through the     *)
(* requested type occur.  The flags select the harder palettes:            *)
(*   EmptyUnions     a union may have no member (legal GNU C);             *)
(*   AlignedMembers  the last member of a struct may carry                 *)
(*                   __attribute__((aligned(4)));                          *)
(*   AnonMembers     a member of struct or union type may be anonymous;    *)
(*   SelfCycles      a pointer or typedef may refer to itself, which a     *)
(*                   compiler never emits but a corrupt object may hold.   *)
(***************************************************************************)
EXTENDS TypeDefinition, TLC

CONSTANTS NumTypes,       \* ids 1 .. NumTypes come before the requested one
          MaxMembers,     \* members of a struct or union, vars of a datasec
          Shape,          \* Shape[k]: the classes of types id k may be
          EmptyUnions, AlignedMembers, SelfCycles, AnonMembers

Names == <<"a", "b", "c", "d">>

\* A table under construction: the type records and their C alignment/size.
Entry(r, a, s) == [r |-> r, a |-> a, s |-> s]

IntT(bits, enc) == [Ty("Int") EXCEPT !.bits = bits, !.enc = enc]
RefT(k, j)      == [Ty(k) EXCEPT !.ref = j]
ArrayT(j, n)    == [Ty("Array") EXCEPT !.ref = j, !.nelems = n]
VarT(j, static) == [Ty("Var") EXCEPT !.ref = j, !.flag = static, !.name = TypeName(FALSE, "v")]
EnumT(vals)     == [Ty("Enum") EXCEPT !.size = 4, !.mems = vals]

\* The C offsets of members of alignments al and sizes sz placed in order.
RECURSIVE COffsets(_, _, _, _)
COffsets(al, sz, i, end) ==
  IF i > Len(al) THEN <<>>
  ELSE LET at == RoundUp(end, al[i])
       IN  <<at>> \o COffsets(al, sz, i + 1, at + sz[i])

\* A struct of the member types L; packed gives every member alignment 1,
\* aligned raises the alignment of the last member to at least 4.
StructEntry(T, L, N, packed, aligned) ==
  LET n   == Len(L)
      al  == [i \in 1..n |-> IF packed THEN 1
                             ELSE IF aligned /\ i = n THEN Max2(T.a[L[i]], 4)
                             ELSE T.a[L[i]]]
      sz  == [i \in 1..n |-> T.s[L[i]]]
      off == COffsets(al, sz, 1, 0)
      end == IF n = 0 THEN 0 ELSE off[n] + sz[n]
      a   == Max({1} \cup Range(al))
      ms  == [i \in 1..n |-> [name |-> N[i], type |-> L[i],
                              bitOff |-> off[i] * 8, bitSize |-> 0]]
  IN  Entry([Ty("Struct") EXCEPT !.size = RoundUp(end, a), !.mems = ms],
            a, RoundUp(end, a))

UnionEntry(T, L, N) ==
  LET a  == Max({1} \cup {T.a[j] : j \in Range(L)})
      sz == RoundUp(Max({0} \cup {T.s[j] : j \in Range(L)}), a)
      ms == [i \in DOMAIN L |-> [name |-> N[i], type |-> L[i],
                                 bitOff |-> 0, bitSize |-> 0]]
  IN  Entry([Ty("Union") EXCEPT !.size = sz, !.mems = ms], a, sz)

\* A .data section holding the vars V, each at its natural alignment.
DatasecEntry(T, V) ==
  LET n   == Len(V)
      al  == [i \in 1..n |-> T.a[V[i]]]
      sz  == [i \in 1..n |-> T.s[V[i]]]
      off == COffsets(al, sz, 1, 0)
      vs  == [i \in 1..n |-> [type |-> V[i], offset |-> off[i], size |-> sz[i]]]
  IN  Entry([Ty("Datasec") EXCEPT !.name = TypeName(TRUE, "data"),
              !.mems = vs, !.size = IF n = 0 THEN 0 ELSE off[n] + sz[n]],
            1, 0)

Lists(S) == UNION {[1..n -> S] : n \in 0..MaxMembers}

ValueIds(T) == {j \in DOMAIN T.r \ {0} : T.r[j].kind # "Var"}
VarIds(T)   == {j \in DOMAIN T.r : T.r[j].kind = "Var"}

\* The member names of L: a struct or union member may be anonymous (C11).
Namings(T, L) ==
  {N \in [DOMAIN L -> {"", "a", "b", "c", "d"}] :
     \A i \in DOMAIN L :
       \/ N[i] = Names[i]
       \/ AnonMembers /\ N[i] = "" /\ T.r[L[i]].kind \in {"Struct", "Union"}}

Aggregates(T) ==
  UNION {UNION {{StructEntry(T, L, N, FALSE, FALSE), StructEntry(T, L, N, TRUE, FALSE)}
           \cup (IF AlignedMembers /\ L # <<>>
                 THEN {StructEntry(T, L, N, FALSE, TRUE)} ELSE {})
           \cup (IF L # <<>> \/ EmptyUnions THEN {UnionEntry(T, L, N)} ELSE {}) :
         N \in Namings(T, L)} : L \in Lists(ValueIds(T))}

\* The types id k < root may be, of the classes shape[k] names.
Palette(T, k, root, shape) ==
  LET ptrTo == (0 .. k - 1) \cup {root} \cup (IF SelfCycles THEN {k} ELSE {})
      cls == [scalar  |-> {Entry(IntT(8, "None"), 1, 1),
                           Entry(IntT(32, "Signed"), 4, 4),
                           Entry(IntT(64, "None"), 8, 8)},
              narrow  |-> {Entry(IntT(8, "None"), 1, 1),
                           Entry(IntT(32, "Signed"), 4, 4)},
              enum    |-> {Entry(EnumT(<<[name |-> "A", value |-> 0]>>), 4, 4),
                           Entry(EnumT(<<>>), 4, 4)},
              ptr     |-> {Entry(RefT("Ptr", j), 8, 8) : j \in ptrTo},
              array   |-> {Entry(ArrayT(j, n), T.a[j], n * T.s[j]) :
                             j \in ValueIds(T), n \in {2, 40}},
              typedef |-> {Entry(RefT("Typedef", j), T.a[j], T.s[j]) :
                             j \in ValueIds(T)}
                          \cup (IF SelfCycles THEN {Entry(RefT("Typedef", k), 1, 1)}
                                ELSE {}),
              var     |-> {Entry(VarT(j, st), T.a[j], T.s[j]) :
                             j \in ValueIds(T), st \in BOOLEAN},
              agg     |-> Aggregates(T)]
  IN  UNION {cls[c] : c \in shape[k]}

RootPalette(T) ==
  Aggregates(T) \cup {DatasecEntry(T, V) : V \in Lists(VarIds(T)) \ {<<>>}}

Extend(T, k, e) ==
  [r |-> [i \in 0..k |-> IF i = k THEN e.r ELSE T.r[i]],
   a |-> [i \in 0..k |-> IF i = k THEN e.a ELSE T.a[i]],
   s |-> [i \in 0..k |-> IF i = k THEN e.s ELSE T.s[i]]]

\* The tables of ids 0 .. k whose last id root is the requested one.
RECURSIVE Tables(_, _, _)
Tables(k, root, shape) ==
  IF k = 0 THEN {[r |-> (0 :> Ty("Void")), a |-> (0 :> 1), s |-> (0 :> 0)]}
  ELSE UNION {{Extend(T, k, e) :
                 e \in IF k = root THEN RootPalette(T) ELSE Palette(T, k, root, shape)} :
              T \in Tables(k - 1, root, shape)}

\* The requests on the tables of n ids below the requested one.
InputsOf(n, shape) == {[g |-> T.r, id |-> n + 1] : T \in Tables(n + 1, n + 1, shape)}

AllClasses == {"scalar", "enum", "ptr", "array", "typedef", "var", "agg"}

\* Every class at every id.
BroadShape == [k \in 1..NumTypes |-> AllClasses]

\* Two scalars of different alignments, then an aggregate nesting them.
NestedShape == <<{"narrow"}, {"narrow"}, {"agg"}>>

MCInputs == InputsOf(NumTypes, Shape)

\* The broad tables, and the nested ones: two scalars, a struct or union of
\* them, then the requested aggregate.
NaturalInputs == MCInputs \cup InputsOf(3, NestedShape)

(***************************************************************************)
(* Malformed tables, with u32 scaled to 10 bits (U32 = 1024, above every  *)
(* size of the natural tables of one id): each one makes a u32 sum or      *)
(* product of type_definition reach 2^32, or holds a Bool that is not 8    *)
(* bits wide.  BTF read from an untrusted object can hold    *)
(* any of them: nothing checks a member against its struct's size.         *)
(***************************************************************************)
AsTable(s) == [i \in 0 .. Len(s) - 1 |-> s[i + 1]]
MemberAt(n, j, byte) == [name |-> n, type |-> j, bitOff |-> byte * 8, bitSize |-> 0]
StructT(size, ms) == [Ty("Struct") EXCEPT !.size = size, !.mems = ms]

\* size_of of [[u8; 600]; 2]: the product 1200 passes the bound.
WrapProduct ==
  <<Ty("Void"), IntT(8, "None"), ArrayT(1, 600), ArrayT(2, 2),
    StructT(176, <<MemberAt("a", 3, 0)>>)>>

\* A member of size 1016 at byte 16: its end 1032 passes the bound.
WrapMemberEnd ==
  <<Ty("Void"), IntT(8, "None"), StructT(1016, <<MemberAt("a", 1, 0)>>),
    StructT(1020, <<MemberAt("b", 2, 16)>>)>>

\* A var of size 200 at offset 900 of a section: its end 1100 passes it.
WrapVarEnd ==
  <<Ty("Void"), IntT(32, "Signed"), VarT(1, FALSE),
    [Ty("Datasec") EXCEPT !.name = TypeName(TRUE, "data"), !.size = 1020,
       !.mems = <<[type |-> 2, offset |-> 900, size |-> 200]>>]>>

\* A 16-bit Bool member.
WideBool ==
  <<Ty("Void"), IntT(16, "Bool"), StructT(2, <<MemberAt("a", 1, 0)>>)>>

MalformedTables == {WrapProduct, WrapMemberEnd, WrapVarEnd, WideBool}
MalformedInputs == {[g |-> AsTable(t), id |-> Len(t) - 1] : t \in MalformedTables}

\* The natural tables (with empty unions under EmptyUnions) and the malformed ones.
PanicInputs == MCInputs \cup MalformedInputs

========================================================================
