------------------------------ MODULE Request ------------------------------
(***************************************************************************)
(* A request through gqlgen: the middleware resolves the principal, the    *)
(* guard admits or refuses the document, the selections of the operation   *)
(* are executed one inside the other, each annotated field behind the      *)
(* directive, and the resolvers use the database.  That gqlgen calls the   *)
(* directive wherever the schema has it is assumed.                        *)
(***************************************************************************)
EXTENDS Authz, Guard

CONSTANTS Documents, NoDocument

ASSUME RequestAssumption ==
    /\ NoDocument \notin DOMAIN Documents
    /\ \A n \in DOMAIN Documents :
          /\ IsDocument(Documents[n])
          /\ \A w \in Walked(Documents[n]) :
                At(Documents[n], w).kind = "field" =>
                   At(Documents[n], w).name \in Fields

VARIABLES
    at,        \* where in its document the execution of each request is
    answered,  \* the keys of the operation's own fields, and whether to null
    ran        \* history: how often a request resolved each sensitive field

rvars == <<clock, held, changes, mfaAt, req, since, rows, shown, conn,
           at, answered, ran>>

(* height is the number of fields the execution is inside of. *)
Nowhere == [doc |-> NoDocument, op |-> NoDocument, in |-> NoDocument,
            addr |-> <<>>, height |-> 0]
NoneRan == [f \in SensitiveFields |-> 0]

IsPlace(c) ==
    /\ c.doc \in DOMAIN Documents
    /\ LET d == Documents[c.doc]
       IN  c \in [doc: {c.doc}, op: d.operations, in: DOMAIN d.sets, height: Nat,
                  addr: {<<>>} \cup DOMAIN d.sets[c.in]]

Doc(r) == Documents[at[r].doc]
Set(r) == Doc(r).sets[at[r].in]

RTypeOK ==
    /\ ZTypeOK
    /\ DOMAIN at = Requests
    /\ answered \in [Requests -> SUBSET (STRING \X {"value", "null"})]
    /\ ran \in [Requests -> [SensitiveFields -> Nat]]
    /\ \A r \in Requests :
          \/ at[r] = Nowhere /\ answered[r] = {} /\ ran[r] = NoneRan
          \/ req[r].open /\ IsPlace(at[r])

RInit ==
    /\ ZInit
    /\ at = [r \in Requests |-> Nowhere]
    /\ answered = [r \in Requests |-> {}]
    /\ ran = [r \in Requests |-> NoneRan]

Enter(r, u) == Arrive(r, u) /\ UNCHANGED <<at, answered, ran>>

Start(n, o) == [doc |-> n, op |-> o, in |-> o, addr |-> <<>>, height |-> 0]

(* The guard calls next: one operation of the document runs.               *)
Intercept(r, n, o) ==
    /\ req[r].open /\ at[r] = Nowhere /\ Admitted(Documents[n])
    /\ at' = [at EXCEPT ![r] = Start(n, o)]
    /\ UNCHANGED zvars /\ UNCHANGED <<answered, ran>>

(* OneShot: the document gets its one answer, and nothing of it runs.      *)
Refuse(r, n) ==
    /\ at[r] = Nowhere /\ ~Admitted(Documents[n])
    /\ Leave(r)
    /\ UNCHANGED <<at, answered, ran>>

-----------------------------------------------------------------------------
(* Execution.  The selections directly inside the one it is at: *)
Inside(r) ==
    IF at[r] = Nowhere THEN {}
    ELSE {p \in DOMAIN Set(r) : p = Append(at[r].addr, p[Len(p)])}

(* The selections of a fragment stand for themselves. *)
Pass(r, p) ==
    /\ Set(r)[p].kind = "inline"
    /\ at' = [at EXCEPT ![r].addr = p]
    /\ UNCHANGED zvars /\ UNCHANGED <<answered, ran>>

Follow(r, p) ==
    /\ Set(r)[p].kind = "spread"
    /\ at' = [at EXCEPT ![r].in = Set(r)[p].name, ![r].addr = <<>>]
    /\ UNCHANGED zvars /\ UNCHANGED <<answered, ran>>

Enters(r, p) ==
    at' = [at EXCEPT ![r].addr = p, ![r].height = at[r].height + 1]

(* The operation's own fields are resolved once for each key. *)
Own(r, p) == Set(r)[p].kind = "field" /\ at[r].height = 0
Fresh(r, p) == \A a \in answered[r] : a[1] # Set(r)[p].key
Answers(r, p, what) ==
    answered' = [answered EXCEPT ![r] =
                    answered[r] \cup {<<Set(r)[p].key, what>>}]

Run(r, p) ==
    /\ Own(r, p) /\ Fresh(r, p)
    /\ Serve(r, Set(r)[p].name)
    /\ Enters(r, p) /\ Answers(r, p, "value")
    /\ ran' = [ran EXCEPT ![r] =
                  [f \in SensitiveFields |->
                      IF f = Set(r)[p].name THEN ran[r][f] + 1 ELSE ran[r][f]]]

(* The directive refuses, or Proofs does: the field is null. *)
Deny(r, p) ==
    /\ Own(r, p) /\ Fresh(r, p) /\ Set(r)[p].name \in DOMAIN Auth
    /\ LET a == Auth[Set(r)[p].name]
       IN  \/ \E d \in Skews : ~Allows(a, req[r].p, d)
           \/ a.proves = "claims"
    /\ Answers(r, p, "null")
    /\ UNCHANGED zvars /\ UNCHANGED <<at, ran>>

(* A key selected again adds its selections to those of the first. *)
Merge(r, p) ==
    /\ Own(r, p) /\ <<Set(r)[p].key, "value">> \in answered[r]
    /\ Enters(r, p)
    /\ UNCHANGED zvars /\ UNCHANGED <<answered, ran>>

(* A field of a field, for one of the values of the field above it. *)
RunInside(r, p) ==
    /\ Set(r)[p].kind = "field" /\ at[r].height > 0
    /\ Serve(r, Set(r)[p].name)
    /\ Enters(r, p)
    /\ UNCHANGED <<answered, ran>>

(* Back to the operation's other selections. *)
Return(r) ==
    /\ at[r] # Nowhere
    /\ at' = [at EXCEPT ![r] = Start(at[r].doc, at[r].op)]
    /\ UNCHANGED zvars /\ UNCHANGED <<answered, ran>>

(* Defect: what was left of the document is the next request's. *)
AnswerKeeping(r) == Leave(r) /\ UNCHANGED <<at, answered, ran>>

(* Answered, or given up at any point. *)
Answer(r) ==
    /\ Leave(r)
    /\ at' = [at EXCEPT ![r] = Nowhere]
    /\ answered' = [answered EXCEPT ![r] = {}]
    /\ ran' = [ran EXCEPT ![r] = NoneRan]

RNext ==
    \/ \E r \in Requests :
          \/ \E u \in Users \cup {Nobody} : Enter(r, u)
          \/ \E n \in DOMAIN Documents :
                \/ \E o \in Documents[n].operations : Intercept(r, n, o)
                \/ Refuse(r, n)
          \/ \E p \in Inside(r) :
                \/ Pass(r, p) \/ Follow(r, p)
                \/ Run(r, p) \/ Deny(r, p) \/ Merge(r, p) \/ RunInside(r, p)
          \/ Return(r)
          \/ Resolver(r) /\ UNCHANGED <<at, answered, ran>>
          \/ Answer(r)
    \/ Others /\ UNCHANGED <<at, answered, ran>>

RSpec == RInit /\ [][RNext]_rvars

-----------------------------------------------------------------------------
(* Properties. *)

(* No request resolves a sensitive field of its operation twice, under     *)
(* whatever keys and through whatever fragments its document selects it.   *)
SensitiveOnce ==
    \A r \in Requests : \A f \in SensitiveFields : ran[r][f] <= 1

(* What the cap on depth means: it holds of each operation and fragment as *)
(* written, a field without selections counting for two, so the execution  *)
(* may go that deep once more for every fragment, and no deeper.           *)
NestingBounded ==
    \A r \in Requests :
        at[r] # Nowhere =>
            at[r].height <= (Limit(MaxDepth, DefaultMaxDepth) - 1)
                                * (1 + Cardinality(Fragments(Doc(r))))
=============================================================================
