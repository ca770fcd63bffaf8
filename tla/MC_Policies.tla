----------------------------- MODULE MC_Policies -----------------------------
EXTENDS MapProjection, TLC

CONSTANTS x1, x2, x3

Identifiers == Permutations(CommandIds)
EachItsOwn == {<<x, x>> : x \in CommandIds}

(* Two classifications of the mail of three senders: apart, with two flows   *)
(* of the first; and together, the second and third in one source.           *)
Sender(m) == CASE m \in {"m1", "m4"} -> "a" [] m = "m2" -> "b" [] OTHER -> "c"
Key(m) == CASE m = "m1" -> "news" [] m = "m4" -> "bills" [] OTHER -> "offers"

Of(rows, sources) ==
    [rows |-> rows, sources |-> sources, sender |-> [m \in rows |-> Sender(m)],
     flow |-> [m \in rows |->
                 [source |-> CHOOSE S \in sources : Sender(m) \in S, key |-> Key(m)]],
     thread |-> [m \in rows |-> IF m \in {"m3", "m4"} THEN "t" ELSE m],
     guarded |-> rows \intersect {"m3"}]

Apart == Of({"m1", "m2", "m3", "m4"}, {{"a"}, {"b"}, {"c"}})
Together == Of({"m1", "m2", "m3"}, {{"a"}, {"b", "c"}})

BothMaps == {Apart, Together}
OneMap == {Together}
=============================================================================
