---------------------------- MODULE MCInvocations ----------------------------
(* Bounded instances of Invocations. *)
EXTENDS Invocations

MCDriver == {rival3, rival600, prime, apex100, aerox3, aerox3_bt, rival3_gen2}

F(w) == Flag(w)
MCLine == {
    <<>>, <<F("--list")>>, <<F("--save")>>, <<F("--accel-stop")>>, <<F("--accel-stop"), Val(7)>>,
    <<F("--bogus")>>, <<F("--dpi")>>, <<F("--dpi"), F("--save")>>,
    <<F("--dpi"), Val(3333), F("--save")>>, <<F("--cpi"), Val(150)>>, <<F("--dpi"), Val(70000)>>,
    <<F("--dpi"), Val(3200), F("--dpi"), Val(40)>>,
    <<F("--rate"), Val(250), F("--fx"), Val(1)>>, <<F("--polling"), Val(333)>>,
    <<F("--color"), ZoneVal(2, 255), F("--brightness"), Val(62)>>,
    <<F("--fx"), Val(4), F("--color"), Val(77), F("--save")>>,
    <<F("-b"), Val(101)>>, <<F("--accel"), Val(50), F("--rate"), Val(125)>>,
    <<F("--snap"), Val(45), F("--decel"), Val(10)>>,
    <<F("--high-efficiency"), F("--save")>>, <<F("--high-efficiency"), Val(1)>> }

MCTexts ==
    <<"zone_fx", 2>> :> {4, NoLine}
    @@ [k \in {<<"zone", 1>>, <<"reactive", 0>>, <<"polling_hz", 0>>} |-> {Junk}]
    @@ [k \in {<<"brightness", 0>>, <<"dpi_active", 0>>, <<"illum_dim_s", 0>>} |-> {1300}]
    @@ <<"dpi_count", 0>> :> {Junk, 4, NoLine} @@ <<"dpi", 1>> :> {<<40, 65999>>}
    @@ <<"button", 1>> :> {<<"key", 4>>}
=============================================================================
