------------------------------- MODULE Guard -------------------------------
(***************************************************************************)
(* The guard's verdict on a document (guard.go).                           *)
(*                                                                         *)
(* A document has definitions: operations, one of which runs, and          *)
(* fragments.  The selections of a definition are a tree, kept flat: each  *)
(* stands at its address, the positions that lead to it from the           *)
(* definition's own set down.  A selection is a field with the key it is   *)
(* answered under, an inline fragment, or a spread, which names a fragment *)
(* of the document.                                                        *)
(***************************************************************************)
EXTENDS Integers, Sequences, FiniteSets

CONSTANTS
    SensitiveFields,                      \* Config, as they are used
    MaxAliases, MaxDepth,                 \* Config, as they are given
    DefaultMaxAliases, DefaultMaxDepth,
    MaxInt

ASSUME GuardAssumption ==
    /\ {MaxAliases, MaxDepth} \subseteq Int
    /\ {DefaultMaxAliases, DefaultMaxDepth, MaxInt} \subseteq Nat \ {0}

Selection == [kind: {"field", "inline", "spread"}, name: STRING, key: STRING]

Fragments(d) == DOMAIN d.sets \ d.operations

(* Spreads name fragments, of a lower rank than what they stand in. *)
Descends(d, rank) ==
    \A n \in DOMAIN d.sets : \A p \in DOMAIN d.sets[n] :
        d.sets[n][p].kind = "spread" =>
            /\ d.sets[n][p].name \in Fragments(d)
            /\ rank[d.sets[n][p].name] < rank[n]

(* What validation leaves: addresses without gaps, and no fragment that    *)
(* leads back to itself.                                                   *)
IsDocument(d) ==
    /\ IsFiniteSet(DOMAIN d.sets) /\ d.operations \subseteq DOMAIN d.sets
    /\ \A n \in DOMAIN d.sets :
          /\ IsFiniteSet(DOMAIN d.sets[n])
          /\ d.sets[n] \in [DOMAIN d.sets[n] -> Selection]
          /\ \A p \in DOMAIN d.sets[n] :
                /\ p \in Seq(Nat) /\ p # <<>>
                /\ \A i \in 1 .. Len(p) - 1 :
                      /\ SubSeq(p, 1, i) \in DOMAIN d.sets[n]
                      /\ d.sets[n][SubSeq(p, 1, i)].kind # "spread"
    /\ \E rank \in [DOMAIN d.sets -> 0 .. Cardinality(DOMAIN d.sets)] :
          Descends(d, rank)

-----------------------------------------------------------------------------
(* The walk. *)

(* The selections of every definition, each once; no spread is followed.   *)
Walked(d) == UNION {{n} \X DOMAIN d.sets[n] : n \in DOMAIN d.sets}

At(d, w) == d.sets[w[1]][w[2]]

(* The steps to an address that enter a field.                             *)
FieldsTo(set, p) ==
    {i \in 1 .. Len(p) : set[SubSeq(p, 1, i)].kind = "field"}

(* The level of what a selection selects: an inline fragment adds none.    *)
level(set, p) == 1 + Cardinality(FieldsTo(set, p))

FieldsOf(d) == {w \in Walked(d) : At(d, w).kind = "field"}
Counts(d, name) == {w \in FieldsOf(d) : At(d, w).name = name}

(* Zero takes the default, a negative value disables. *)
Limit(n, default) == IF n = 0 THEN default ELSE IF n < 0 THEN MaxInt ELSE n

-----------------------------------------------------------------------------
(* The verdict. *)

(* Defect: a field is counted by the key it is answered under. *)
OnceByKey(d) ==
    \A name \in SensitiveFields :
        Cardinality({w \in FieldsOf(d) : At(d, w).key = name}) <= 1

Once(d) == \A name \in SensitiveFields : Cardinality(Counts(d, name)) <= 1

Few(d) == Cardinality(FieldsOf(d)) <= Limit(MaxAliases, DefaultMaxAliases)

(* Defect: of the operations alone, which only name the fragments. *)
ShallowOperations(d) ==
    \A w \in Walked(d) : w[1] \in d.operations =>
        level(d.sets[w[1]], w[2]) <= Limit(MaxDepth, DefaultMaxDepth)

Shallow(d) ==
    \A w \in Walked(d) :
        level(d.sets[w[1]], w[2]) <= Limit(MaxDepth, DefaultMaxDepth)

Admitted(d) == Once(d) /\ Few(d) /\ Shallow(d)
=============================================================================
