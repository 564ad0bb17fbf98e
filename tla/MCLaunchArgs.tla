---------------------------- MODULE MCLaunchArgs ----------------------------
(* Instances of LaunchArgs for TLC: two versions with overlapping flags,   *)
(* user arguments that differ by case only, two that are memory settings,  *)
(* one of them in lower case, and one that is refused.                     *)
EXTENDS LaunchArgs

Arg(v) == Line("arg", v)
MCFlags == [v \in {"1.20", "1.21"} |-> IF v = "1.20" THEN <<Arg("G")>> ELSE <<Arg("G"), Arg("H")>>]
MCUserLines == {Arg("a"), Arg("A"), Arg("b/"), Line("xmx", "9G"), Arg("xmx1g")}
MCLines == MCUserLines \cup {Arg("G"), Arg("H"), Arg("i")} \cup {Line(k, s) : k \in {"xms", "xmx"}, s \in {"1G", "2G"}}
MCFold == [l \in MCLines |-> CASE l = Arg("A")          -> Arg("a")
                               [] l = Line("xmx", "1G") -> Arg("xmx1g")
                               [] OTHER                 -> l]
MCRejected == {Arg("b/")}
MCImported == <<Line("xmx", "2G"), Arg("i")>>
=============================================================================
