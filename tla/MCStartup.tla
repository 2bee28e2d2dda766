----------------------------- MODULE MCStartup -----------------------------
(***************************************************************************)
(* TLC instance of Startup: 2^32 and 2^64 are 16 and 64, shard counts go  *)
(* from 2 to 8, a page is a quarter of a shard.  Every configuration of    *)
(* the Go wrapper over a few values of each parameter (too small, too      *)
(* large, wrapping round, negative), and every document of up to three     *)
(* members of all types, in both layouts.                                  *)
(***************************************************************************)
EXTENDS Startup

GoConfigs ==
    [Shards : {0, 4, 6, 16, 18, 63}, ForceSet : BOOLEAN,
     Expire : {-3, 2, 5}, ExpireNs : {0, 1, 3, 50},
     Vacuum : {-1, 6}, VacuumNs : {0, 4},
     MaxSize : {0, 5, 30}, VerboseLevel : {0, 9}]

(* Scalars of each type.  The names are those of parameters, by position,  *)
(* so that the constructor finds the values, of the wrong type too.        *)
Scalar == {<<"i", -1>>, <<"i", 50>>, <<"s", "x">>, <<"f", "1.5">>, <<"f", "2.0">>,
           <<"b", TRUE>>, <<"null", 0>>}
Inner == {<< <<"g", v[1], v[2]>> >> : v \in {<<"i", 7>>, <<"s", "y">>}}
           \cup {<< <<"g", "b", FALSE>>, <<"max_size", v[1], v[2]>> >> :
                   v \in {<<"i", 7>>, <<"s", "y">>}}
           \cup {<< <<"g", "null", 0>>, <<"h", "f", "1.2345678">> >>,
                 << <<"g", "f", "1000000.5">>, <<"h", "f", "2.5">> >>}

(* These floats are rounded, or lose their point, when they are written.   *)
MCStreamed == [x \in {"2.0", "1.2345678", "1000000.5"} |->
                 CASE x = "2.0"       -> <<"i", 2>>
                   [] x = "1.2345678" -> <<"f", "1.23457">>
                   [] x = "1000000.5" -> <<"s", "1e+06">>]

Values == Scalar \cup {<<"o", o>> : o \in Inner}
Names == <<"shards_cnt", "max_size", "expire_ns">>
Documents == UNION {[1..n -> Values] : n \in 1..3}
DocumentMembers == {[n \in DOMAIN d |-> <<Names[n], d[n][1], d[n][2]>>] : d \in Documents}

MCSources == {GoSource(c) : c \in GoConfigs}
               \cup {Document(m, s) : m \in DocumentMembers, s \in BOOLEAN}

(* All that ReadsBack says is said of each of them.                        *)
ASSUME ProperSources == \A s \in MCSources : Proper(s)
=============================================================================
