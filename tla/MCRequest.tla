----------------------------- MODULE MCRequest ------------------------------
(* Two users, one request at a time on one connection, documents that      *)
(* alias, nest and spread the fields of a small schema, and a field that   *)
(* nobody annotated.  Process clocks are off by a tick.                    *)
EXTENDS Request, TLC
LOCAL INSTANCE SequencesExt
LOCAL INSTANCE FiniteSetsExt

Lower(role) == IF role = "Admin" THEN "admin" ELSE role

Open == [requires |-> "ANONYMOUS", roles |-> {}, mfa |-> FALSE, proves |-> "absent"]
SignedIn == [Open EXCEPT !.requires = "AUTHENTICATED"]
SmallSchema ==
    [f \in {"login", "item", "staff", "pay"} |->
        CASE f = "login" -> Open
          [] f = "item" -> SignedIn
          [] f = "staff" -> [SignedIn EXCEPT !.roles = {"staff"}]
          [] f = "pay" -> [SignedIn EXCEPT !.mfa = TRUE, !.proves = "claims"]]

(* None, and two joined by OR of which every row satisfies the second. *)
TwoConditions ==
    {<<>>, <<[or |-> FALSE, sat |-> {}], [or |-> TRUE, sat |-> Rows]>>}

NamesAdded ==
    [names: {{"app.tenant"}, {"app.user_id"}}, user: Users, roles: {{"Admin"}}]

-----------------------------------------------------------------------------
(* Documents as they are written: trees. *)

node(kind, name, key, sub) == [kind |-> kind, name |-> name, key |-> key, sub |-> sub]
f(name) == node("field", name, name, <<>>)
as(key, name) == node("field", name, key, <<>>)
item(sub) == node("field", "item", "item", sub)
inline(sub) == node("inline", "", "", sub)
spread(name) == node("spread", name, "", <<>>)

doc(ops, frags) == [operations |-> DOMAIN ops, trees |-> ops @@ frags]
one(set) == doc("Q" :> set, <<>>)
with(set, a) == doc("Q" :> set, "A" :> a)
with2(set, a, b) == doc("Q" :> set, "A" :> a @@ "B" :> b)

Written == <<
     one(<<as("a", "login"), as("b", "login")>>),
     one(<<f("login"), inline(<<as("a", "login")>>)>>),
     doc("Q" :> <<f("login")>> @@ "R" :> <<f("login")>>, <<>>),
     with(<<spread("A")>>, <<as("a", "login"), as("b", "login")>>),
     with2(<<spread("A"), spread("B")>>, <<as("a", "login")>>, <<as("b", "login")>>),
     with2(<<spread("A")>>, <<spread("B"), spread("B")>>, <<f("login")>>),
     one(<<f("pay"), inline(<<f("staff")>>)>>),
     one(<<f("item"), as("a", "item"), as("b", "item"), as("c", "item")>>),
     one(<<item(<<f("item")>>)>>),
     one(<<f("notes")>>),
     with(<<spread("A")>>, <<item(<<item(<<f("item")>>)>>)>>),
     with2(<<item(<<spread("A")>>)>>, <<item(<<spread("B")>>)>>, <<f("item")>>)>>

RECURSIVE Flat(_)
Flat(set) ==
    LET here == [p \in {<<i>> : i \in DOMAIN set} |->
                    LET s == set[p[1]]
                    IN  [kind |-> s.kind, name |-> s.name, key |-> s.key]]
        under(a, i) ==
            LET sub == Flat(set[i].sub)
            IN  a @@ [p \in {<<i>> \o q : q \in DOMAIN sub} |-> sub[Tail(p)]]
    IN  FoldLeft(under, here, [i \in DOMAIN set |-> i])

Flattened ==
    [n \in DOMAIN Written |->
        [operations |-> Written[n].operations,
         sets |-> [d \in DOMAIN Written[n].trees |-> Flat(Written[n].trees[d])]]]

(* What the configuration names: TLC evaluates Flattened once, but what    *)
(* stands for a constant at every use.                                     *)
SmallDocuments == Flattened

-----------------------------------------------------------------------------
(* The walk as the code makes it, down each tree: selections by field      *)
(* name, how many in all, and the deepest level.                           *)
RECURSIVE walkSelections(_, _, _)
walkSelections(set, lvl, acc) ==
    LET visit(a, s) ==
          CASE s.kind = "field" ->
                 walkSelections(s.sub, lvl + 1,
                    [a EXCEPT !.names = Append(@, s.name), !.total = @ + 1])
            [] s.kind = "inline" -> walkSelections(s.sub, lvl, a)
            [] s.kind = "spread" -> a
    IN  FoldLeft(visit, [acc EXCEPT !.depth = Max({@, lvl})], set)

(* Guard says of every document what the walk finds. *)
ASSUME WalkAgrees ==
    \A n \in DOMAIN Written :
        LET d == SmallDocuments[n]
            w == FoldLeft(LAMBDA a, name : walkSelections(Written[n].trees[name], 1, a),
                          [names |-> <<>>, total |-> 0, depth |-> 0],
                          SetToSeq(DOMAIN Written[n].trees))
        IN  /\ Cardinality(FieldsOf(d)) = w.total
            /\ \A name \in Fields :
                  Cardinality(Counts(d, name)) =
                     Cardinality({i \in DOMAIN w.names : w.names[i] = name})
            /\ Max({1} \cup {level(d.sets[x[1]], x[2]) : x \in Walked(d)}) = w.depth

Symmetry == Permutations(Users)
=============================================================================
