---------------------------- MODULE MCVyOSSource ------------------------------
EXTENDS VyOSSource, TLC

(* Two hardware addresses, one of them in both spellings, and none.        *)
MCFold == (<<"m">> :> <<"m">>) @@ (<<"M">> :> <<"m">>) @@ (<<"n">> :> <<"n">>)
          @@ (<<>> :> <<>>)
MCLinkLocal == {<<"fe80">>}

(* A name of ASCII letters, and one of which some letters have two bytes.  *)
A(bytes) == [bytes |-> bytes, chars |-> Len(bytes)]
U(bytes) == [bytes |-> bytes, chars |-> Cardinality({i \in DOMAIN bytes : bytes[i] # "+"})]
L(ip, mac, host, origin) == [ip |-> A(ip), mac |-> A(mac), host |-> U(host), origin |-> A(origin)]
One == <<"1">>
Two == <<"1", "2">>
Local == <<"l", "o">>

Tables ==
    {<<>>,
     <<L(One, <<"m">>, <<"a">>, Local), L(Two, <<"n">>, <<"a", "u", "+">>, Local)>>,
     <<L(Two, <<"M">>, <<"u", "+", "u", "+">>, Local), L(One, <<>>, <<>>, Local)>>,
     <<L(One, <<"M">>, <<"a">>, <<>>), L(Two, <<"m">>, <<>>, Local)>>,
     <<L(Two, <<"n">>, <<"u", "+">>, Local), L(One, <<"m">>, <<"a">>, <<>>)>>}

N(to, lladdr, nud) == [to |-> to, lladdr |-> lladdr, nud |-> <<nud>>]
Neighbours ==
    {<<>>,
     <<N(<<"x">>, <<"m">>, "REACHABLE"), N(<<"y">>, <<"m">>, "STALE"), N(<<"z">>, <<"n">>, "DELAY")>>,
     <<N(<<"x">>, <<"n">>, "STALE"), N(<<"fe80">>, <<"n">>, "STALE"), N(<<"y">>, <<>>, "FAILED")>>}

MCByte ==
    {Blank, Dash, "A", "C", "H", "I", "M", "O", "P",
     "1", "2", "a", "fe80", "l", "m", "n", "o", "u", "x", "y", "z", "+"}

MCRouters ==
    [version : Versions, leases : Tables, neighbours : Neighbours]
===============================================================================
