----------------------------- MODULE MCJsMessages -----------------------------
(* A small instance of JsMessages for TLC; see MCJsMessages.cfg. *)
EXTENDS JsMessages

Text(s) == <<"object", << <<<<"message">>, Str(s)>> >> >>
Uints(n) == <<"array", [i \in 1 .. n |-> Num(i)]>>
Entries(keys, s) == <<"pbmap", [i \in DOMAIN keys |-> <<keys[i], Text(s)>>]>>

message(v) == <<<<"message">>, v>>
uints(v) == <<<<"uints">>, v>>
messages(v) == <<<<"messages">>, v>>
count(n) == <<<<"count">>, Num(n)>>

MCObjects ==
    { <<"object", o>> : o \in {
        <<>>,
        << message(<<"object", <<>>>>), count(0) >>,
        << message(Text("hi")), uints(Uints(2)), count(3) >>,
        << uints(Uints(1)), messages(Entries(<<"1", "2">>, "hi")), count(1) >>,
        << messages(Entries(<<"1">>, "")), uints(Uints(1)) >>,
        << messages(Entries(<<"1">>, "hi")), count(1), uints(Uints(2)) >>,
        << messages(Entries(<<>>, "")), uints(Uints(0)) >>,
        << message(Text("long")) >>,
        << message(Text("long")), count(1) >>,
        << messages(Entries(<<"1", "2">>, "long")) >> } }

MCInstances ==
    { (4 :> Num(1)), (1 :> <<>>) @@ (2 :> Uints(2)), (1 :> (1 :> Str("long"))) }
===============================================================================
