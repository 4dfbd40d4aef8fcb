---------------------------- MODULE MCHealDriver ----------------------------
(* One healing block beside blocks and static upstreams with similar names. *)
EXTENDS HealDriver

Ws == <<"ws">>
Se == <<"ws", "se">>
Wsx == <<"wsx">>

AllPrefixes == {Ws, Se, Wsx}

\* A vendor's proxy id, and a hostname whose first part is a country.
Names == {<<"d", "7">>, <<"se", "got", "1">>}

\* Three that start, the last with a Mullvad block ws beside a Webshare block
\* ws-se; four that startup refuses.
Named ==
    {[pools |-> {Ws, Wsx}, healers |-> {Ws}, statics |-> {<<"home">>}],
     [pools |-> {Ws}, healers |-> {Ws}, statics |-> {<<"ws">>}],
     [pools |-> {Ws, Se}, healers |-> {Se}, statics |-> {<<"ws", "d">>}],
     [pools |-> {Ws}, healers |-> {Ws}, statics |-> {<<"ws", "fixed">>}],
     [pools |-> {Ws, Se}, healers |-> {Se}, statics |-> {<<"ws", "se", "d">>}],
     [pools |-> {Ws, Se}, healers |-> {Ws}, statics |-> {}],
     [pools |-> {Ws, Se}, healers |-> {Ws, Se}, statics |-> {}]}
=============================================================================
