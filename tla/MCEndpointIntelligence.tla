----------------------- MODULE MCEndpointIntelligence -----------------------
(***************************************************************************)
(* A small instance of EndpointIntelligence: addresses of two octets or    *)
(* three hextets, made of runs that are an octet, a hextet only, too long  *)
(* for either, or not hexadecimal.                                         *)
(***************************************************************************)
EXTENDS EndpointIntelligence

OneIp == {<<"7", Dot, "7">>}
OneBadIp == {<<"7", Dot, "ff">>}
=============================================================================
