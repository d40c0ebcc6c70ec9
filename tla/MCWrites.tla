------------------------------- MODULE MCWrites -------------------------------
(* Two processes that save, create, update and delete rows of a model, or of *)
(* a model that inherits from others.                                        *)
EXTENDS Writes, TLC

CONSTANTS p1, p2

Chains == {<<"place">>, <<"place", "cafe">>, <<"place", "shop", "cafe">>}

OwnOf(ch) == ch[Len(ch)]
Tables(ch) == {ch[i] : i \in DOMAIN ch}

Other == [where |-> 0, sets |-> <<>>, related |-> <<>>, key |-> 1, vals |-> <<>>, objs |-> <<>>,
          expression |-> FALSE]
AllWith(ch, v) == [t \in Tables(ch) |-> v]

Saves(ch) == {[op |-> op, key |-> k, vals |-> AllWith(ch, 1)] @@ Other :
                op \in {"save", "create"}, k \in Key}
             \cup {[op |-> "save", key |-> 2,
                    vals |-> [AllWith(ch, 1) EXCEPT ![OwnOf(ch)] = None]] @@ Other}
Bulks(ch) ==
  IF Len(ch) > 1 THEN {}
  ELSE {[op |-> "bulk", objs |-> [i \in DOMAIN ks |-> [key |-> ks[i], val |-> 1]]] @@ Other :
          ks \in {<<1, 2>>, <<2, 1>>, <<2, 2>>}}
       \cup {[op |-> "bulk", objs |-> objs] @@ Other :
               objs \in {<<[key |-> 1, val |-> 0], [key |-> 2, val |-> None]>>,
                        <<[key |-> 1, val |-> 1], [key |-> 2, val |-> 1], [key |-> 1, val |-> 0]>>}}
Sets(ch) ==
  CASE Len(ch) = 1 -> {<<>>}
    [] Len(ch) = 2 -> {<<"place">>}
    [] OTHER -> {<<"shop", "place">>, <<"place", "shop">>}
Updates(ch) ==
  {[op |-> "update", related |-> ps, sets |-> [t \in Range(ps) \cup own |-> 1]] @@ Other :
     ps \in Sets(ch), own \in (SUBSET {OwnOf(ch)}) \ (IF Len(ch) = 1 THEN {{}} ELSE {})}
Deletes(ch) == {[op |-> "delete", where |-> v] @@ Other : v \in {0, 1}}

Calls(ch) == Saves(ch) \cup Bulks(ch) \cup Updates(ch) \cup Deletes(ch)

\* The rows there are: none, one, two, and two of which one is a place only.
Row(v) == [val |-> v, of |-> None, created |-> 0]
Rows(ks) == [k \in ks |-> Row(0)]
Worlds(ch) ==
  {[t \in Tables(ch) |-> Rows(ks)] : ks \in SUBSET Key}
  \cup {[t \in Tables(ch) |-> IF t = OwnOf(ch) THEN Rows({1}) ELSE Rows(Key)]}

Program(atomic, calls) == [atomic |-> atomic, calls |-> calls]

World(ch, encrypt, w, prog1, prog2) ==
  [chain |-> ch, encrypted |-> encrypt, docs |-> w, progs |-> p1 :> prog1 @@ p2 :> prog2]

\* One process alone, which retries or goes on with a second call.
Alone(ch, encrypt) ==
  {World(ch, encrypt, w, Program(a, <<c, d>>), Program(FALSE, <<>>)) :
     w \in Worlds(ch), a \in BOOLEAN, c \in Calls(ch), d \in Saves(ch) \cup Deletes(ch)}

\* Two processes, in blocks or not.
Together(ch) ==
  {World(ch, FALSE, w, Program(a, <<c>>), Program(b, <<d>>)) :
     w \in Worlds(ch), a \in BOOLEAN, b \in BOOLEAN, c \in Calls(ch), d \in Calls(ch)}

\* Two processes one of which saves again what it failed to create.
Again == [op |-> "create", key |-> 1, vals |-> AllWith(<<"place">>, 1)] @@ Other
Retrying ==
  {World(<<"place">>, FALSE, w, Program(FALSE, <<Again, c>>), Program(b, <<d>>)) :
     w \in Worlds(<<"place">>), b \in BOOLEAN, c \in Saves(<<"place">>),
     d \in Calls(<<"place">>)}

WithExpression ==
  {World(<<"place">>, TRUE, [t \in {"place"} |-> Rows(Key)],
         Program(FALSE, <<[u EXCEPT !.expression = TRUE]>>), Program(FALSE, <<>>)) :
     u \in Updates(<<"place">>)}

AllPrograms ==
  UNION {Alone(ch, FALSE) \cup Together(ch) : ch \in Chains}
  \cup UNION {Alone(ch, TRUE) : ch \in {<<"place">>, <<"place", "cafe">>}}
  \cup Retrying \cup WithExpression
=============================================================================
