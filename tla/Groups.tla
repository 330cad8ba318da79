------------------------------- MODULE Groups -------------------------------
(***************************************************************************)
(* The groups of the card and the numbers in them: a modulus, an order q,  *)
(* a cofactor f and generators, each in a block of fixed size with a size  *)
(* of its own; and what the proofs compute with them.                      *)
(*                                                                         *)
(* The commands that set a number take it from the buffer.  In ROOT it is  *)
(* there as it is, in WORKING behind the command itself, which             *)
(* checkBufferPrefix takes away: CardAuth.  Here the buffer is what is     *)
(* left of it.                                                             *)
(***************************************************************************)
EXTENDS Numbers, FiniteSets

CONSTANTS
  GroupIds, Gens,
  MaxSmall, MaxBig,   \* MAX_SMALLINT_SIZE, MAX_BIGINT_SIZE
  HashSize,           \* HASH_SIZE
  Data,               \* what is put in the buffer
  Nonces, Challenges, Secrets   \* the numbers of the proofs: k, c and x or v

ASSUME GroupsAssumption ==
  /\ MaxSmall \in Nat \ {0, 1} /\ MaxBig \in Nat /\ MaxSmall <= MaxBig
  /\ IsFiniteSet(Gens) /\ Cardinality(Gens) < Base
  /\ HashSize \in 1..MaxSmall
  /\ \A data \in Data : data \in Seq(Byte)
  /\ \A k \in Nonces \cup Secrets : k \in Seq(Byte) /\ Len(k) \in 1..MaxSmall
  /\ \A c \in Challenges : c \in Seq(Byte) /\ Len(c) \in 1..HashSize

VARIABLES
  groups,
  buffer,      \* its first buffer_size bytes
  stored,      \* history: what was set, since the group was removed
  longest,     \* history: the size of the longest number each generator has been
  empty        \* history: groups one of whose generators was set from an empty buffer

vars == <<groups, buffer, stored, longest, empty>>

\* A number of a group.
Register(n)   == [bytes : Block(n), size : 0..n]
Zero(n)       == [bytes |-> Zeros(n), size |-> 0]
Contents(r)   == Right(r.bytes, r.size)

Group     == [modulus : Register(MaxBig), q : Register(MaxSmall), f : Register(MaxBig),
              g : [Gens -> Register(MaxBig)], num_generators : Byte]
ZeroGroup == [modulus |-> Zero(MaxBig), q |-> Zero(MaxSmall), f |-> Zero(MaxBig),
              g |-> [gen \in Gens |-> Zero(MaxBig)], num_generators |-> 0]

\* What a group that has been removed holds for its user.
Nothing   == [modulus |-> <<>>, q |-> <<>>, f |-> <<>>, g |-> [gen \in Gens |-> <<>>]]

Exists(id)          == groups[id].modulus.size > 0
HasGenerator(id, gen) == groups[id].g[gen].size > 0

-----------------------------------------------------------------------------
(* Setting.  *)

\* (Faulty variant: the bytes on the left are not cleared.)
WithModulusOver(r, data) == [bytes |-> SetRight(r.bytes, data), size |-> Len(data)]

WithModulus(r, data) == [bytes |-> Aligned(data, MaxBig), size |-> Len(data)]

\* A number of at most n bytes is in the buffer.  Bound: it is one of Data, as the driver sends
\* PUT_DATA before every command that sets a number.
Given(n) == buffer \in Data /\ Len(buffer) <= n

\* The other numbers keep what lay left of the new one.
Over(r, data) == [bytes |-> SetRight(r.bytes, data), size |-> Len(data)]

\* PUT_DATA, or what another command leaves there.
PutData(data) ==
  /\ buffer' = data
  /\ UNCHANGED <<groups, stored, longest, empty>>

SetModulus(id) ==
  /\ Given(MaxBig)
  /\ groups' = [groups EXCEPT ![id].modulus = WithModulus(@, buffer)]
  /\ stored' = [stored EXCEPT ![id].modulus = buffer]
  /\ UNCHANGED <<buffer, longest, empty>>

\* (Faulty variant: q may be as large as the others.)
SetOrderUpToBig(id) ==
  /\ Given(MaxBig)
  /\ groups' = [groups EXCEPT ![id].q = Over(@, buffer)]
  /\ stored' = [stored EXCEPT ![id].q = buffer]
  /\ UNCHANGED <<buffer, longest, empty>>

SetOrder(id) ==
  /\ Given(MaxSmall)
  /\ groups' = [groups EXCEPT ![id].q = Over(@, buffer)]
  /\ stored' = [stored EXCEPT ![id].q = buffer]
  /\ UNCHANGED <<buffer, longest, empty>>

SetCofactor(id) ==
  /\ Given(MaxBig)
  /\ groups' = [groups EXCEPT ![id].f = Over(@, buffer)]
  /\ stored' = [stored EXCEPT ![id].f = buffer]
  /\ UNCHANGED <<buffer, longest, empty>>

\* (Faulty variant: a generator that is replaced is counted again.)
CountedAgain(group, gen) == (group.num_generators + 1) % Base

\* num_generators is a byte.
Counted(group, gen) ==
  IF group.g[gen].size = 0 THEN (group.num_generators + 1) % Base ELSE group.num_generators

SetGenerator(id, gen) ==
  /\ Given(MaxBig)
  /\ groups' = [groups EXCEPT ![id].g[gen] = Over(@, buffer),
                              ![id].num_generators = Counted(groups[id], gen)]
  /\ stored' = [stored EXCEPT ![id].g[gen] = buffer]
  /\ longest' = [longest EXCEPT ![id][gen] = IF Len(buffer) > @ THEN Len(buffer) ELSE @]
  /\ empty' = IF buffer = <<>> THEN empty \cup {id} ELSE empty
  /\ UNCHANGED buffer

\* (Faulty variant: the order keeps its size.)
EmptiedButOrder(group) ==
  [group EXCEPT !.modulus.size = 0, !.f.size = 0, !.num_generators = 0,
                !.g = [gen \in Gens |-> [group.g[gen] EXCEPT !.size = 0]]]

\* The sizes go, the bytes stay.
Emptied(group) ==
  [group EXCEPT !.modulus.size = 0, !.q.size = 0, !.f.size = 0, !.num_generators = 0,
                !.g = [gen \in Gens |-> [group.g[gen] EXCEPT !.size = 0]]]

RemoveGroup(id) ==
  /\ Exists(id)
  /\ groups' = [groups EXCEPT ![id] = Emptied(@)]
  /\ stored' = [stored EXCEPT ![id] = Nothing]
  /\ empty' = empty \ {id}
  /\ UNCHANGED <<buffer, longest>>

\* SET_VIRGIN_MODE, and the start of the program.
Erase ==
  /\ groups' = [id \in GroupIds |-> ZeroGroup]
  /\ buffer' = <<>>
  /\ stored' = [id \in GroupIds |-> Nothing]
  /\ longest' = [id \in GroupIds |-> [gen \in Gens |-> 0]]
  /\ empty' = {}

-----------------------------------------------------------------------------
(* Reading.  The buffer is used on the way.  *)

ReadGroupComponent(id) ==
  /\ Exists(id)
  /\ buffer' \in {Contents(groups[id].modulus), Contents(groups[id].q),
                  Contents(groups[id].f), <<groups[id].num_generators>>}
  /\ UNCHANGED <<groups, stored, longest, empty>>

\* The sizes it answers with are three times the size of what was in the buffer before.
ReadGroup(id) ==
  /\ Exists(id)
  /\ buffer' = <<groups[id].num_generators>>
  /\ UNCHANGED <<groups, stored, longest, empty>>

\* getGenerator: the whole block goes to the buffer, whose size is that of the generator.
ReadGenerator(id, gen) ==
  /\ Exists(id) /\ HasGenerator(id, gen)
  /\ buffer' = SubSeq(groups[id].g[gen].bytes, 1, groups[id].g[gen].size)
  /\ UNCHANGED <<groups, stored, longest, empty>>

-----------------------------------------------------------------------------
(* Computing.  *)

\* (Faulty variant: the bytes are taken from the left of the block.)
BaseFromTheLeft(id, gen) ==
  SubSeq(groups[id].g[gen].bytes, 1, groups[id].modulus.size)

\* singleOrDoubleExpo, and the commands for the key of the device: what is raised to a power.
ExpoBase(id, gen) ==
  Right(Reduced(groups[id].g[gen].bytes, groups[id].g[gen].size, Contents(groups[id].modulus)),
        groups[id].modulus.size)

\* provers[].c: START_RESPONSES puts the challenge on the right of HASH_SIZE bytes, and
\* singleResponse takes as many from the left.
ChallengeTaken(c) == SubSeq(Aligned(c, HashSize), 1, Len(c))

\* (Faulty variant: the product is written one byte further to the left.)
ProductToTheLeft(cBlock, uBlock) ==
  LET temp_buffer == cBlock \o uBlock
  IN  SubSeq(temp_buffer, 1, 1)
        \o BlockMultiply(SubSeq(temp_buffer, 2, 2 * MaxSmall - 1), Tail(cBlock), Tail(uBlock))
        \o Right(temp_buffer, 1)

\* c * u in temp_buffer, without the first bytes of c and of u.
Product(cBlock, uBlock) ==
  LET temp_buffer == cBlock \o uBlock
  IN  SubSeq(temp_buffer, 1, 2)
        \o BlockMultiply(SubSeq(temp_buffer, 3, 2 * MaxSmall), Tail(cBlock), Tail(uBlock))

\* singleResponse with an order q.  mem_cmp is a BYTE and never below 0: q is never added.
ResponseModulo(k, c, u, q) ==
  LET cBlock == Reduced(Aligned(ChallengeTaken(c), MaxSmall), Len(c), q)
      uBlock == Reduced(Aligned(u, MaxSmall), Len(u), q)
      cu     == Right(Reduced(Product(cBlock, uBlock), Len(c) + Len(u), q), MaxSmall)
      kBlock == Reduced(Aligned(k, MaxSmall), Len(k), q)
  IN  Right(BlockSubtract(kBlock, kBlock, cu), Len(q))

\* singleResponse without one.
ResponseOverIntegers(k, c, u) ==
  LET cu == Right(Product(Aligned(ChallengeTaken(c), MaxSmall), Aligned(u, MaxSmall)), MaxSmall)
  IN  Right(BlockSubtract(cu, Aligned(k, MaxSmall), cu), Len(k))

-----------------------------------------------------------------------------

Init ==
  /\ groups = [id \in GroupIds |-> ZeroGroup]
  /\ buffer = <<>>
  /\ stored = [id \in GroupIds |-> Nothing]
  /\ longest = [id \in GroupIds |-> [gen \in Gens |-> 0]]
  /\ empty = {}

Set(id) == \/ SetModulus(id) \/ SetOrder(id) \/ SetCofactor(id)
           \/ \E gen \in Gens : SetGenerator(id, gen)
Read(id) == \/ ReadGroup(id) \/ ReadGroupComponent(id)
            \/ \E gen \in Gens : ReadGenerator(id, gen)

Next == \/ \E data \in Data : PutData(data)
        \/ \E id \in GroupIds : Set(id) \/ Read(id) \/ RemoveGroup(id)
        \/ Erase

Spec == Init /\ [][Next]_vars

-----------------------------------------------------------------------------
(* Properties.  *)

TypeOK ==
  /\ groups \in [GroupIds -> Group]
  /\ buffer \in Seq(Byte)

\* singleOrDoubleExpo expects "temp_modulus to already have zero's on the left-most bytes":
\* it has, also after a longer modulus, and after the group was removed and set again.
ModulusPadded ==
  \A id \in GroupIds : Exists(id) =>
    groups[id].modulus.bytes = Aligned(Contents(groups[id].modulus), MaxBig)

\* What is read from a group is what was set since the group was last removed, although
\* neither removing it nor setting a shorter number clears the bytes of the last one.
ReadsWhatWasSet ==
  \A id \in GroupIds : Exists(id) =>
    /\ Contents(groups[id].modulus) = stored[id].modulus
    /\ Contents(groups[id].q) = stored[id].q
    /\ Contents(groups[id].f) = stored[id].f
    /\ \A gen \in Gens : Contents(groups[id].g[gen]) = stored[id].g[gen]

\* num_generators is their number, as long as none was set from an empty buffer: setting one
\* again and removing the group keep it so.
GeneratorsCounted ==
  \A id \in GroupIds \ empty :
    groups[id].num_generators = Cardinality({gen \in Gens : HasGenerator(id, gen)})

\* The power is taken of the generator that was set, if it is as long as the modulus, or
\* shorter but no shorter than any before it in its place: of a shorter one the bytes of a
\* longer one are still there, and one that is longer than the modulus is reduced to the
\* wrong end.
BaseIsGenerator ==
  \A id \in GroupIds, gen \in Gens :
    LET g == stored[id].g[gen]
        m == Value(stored[id].modulus)
    IN  /\ Exists(id) /\ HasGenerator(id, gen) /\ m # 0 /\ Value(g) % m # 0
        /\ \/ Len(g) = Len(stored[id].modulus)
           \/ Len(g) < Len(stored[id].modulus) /\ Len(g) = longest[id][gen]
        => Value(ExpoBase(id, gen)) % m = Value(g) % m

\* k - c * u for a challenge of full size: modulo q if the product is no longer than q and
\* nothing is borrowed, over the integers if there is no q.
ResponsesRight ==
  \A id \in GroupIds, k \in Nonces, c \in Challenges, u \in Secrets :
    LET q  == Contents(groups[id].q)
        Q  == Value(q)
        cu == Value(c) * Value(u)
    IN  Len(c) = HashSize /\ cu # 0 =>
          /\ /\ q # <<>> /\ q[1] # 0
             /\ Len(c) + Len(u) <= Len(q) /\ Len(k) <= Len(q)
             /\ 0 < cu % Q /\ cu % Q < Value(k) % Q
             => Value(ResponseModulo(k, c, u, q)) = (Value(k) - cu) % Q
          /\ q = <<>> /\ Len(c) + Len(u) <= MaxSmall /\ cu < Value(k)
             => Value(ResponseOverIntegers(k, c, u)) = Value(k) - cu

\* A response modulo q is  k - c * u  modulo q: "compute (k - c*u) mod q".
ResponseIsModuloOrder ==
  \A id \in GroupIds, k \in Nonces, c \in Challenges, u \in Secrets :
    LET q == Contents(groups[id].q)
    IN  /\ q # <<>> /\ q[1] # 0
        /\ Len(c) = HashSize /\ Value(c) * Value(u) # 0
        => Value(ResponseModulo(k, c, u, q)) = (Value(k) - Value(c) * Value(u)) % Value(q)
=============================================================================
