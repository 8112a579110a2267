------------------------------ MODULE MCLauncher ------------------------------
(* Launcher for TLC: a project apart from pi's state, above the database, above *)
(* the home directory, in /tmp, and in ~/.pi itself.                            *)
EXTENDS Launcher

At(inside, under) == [inside |-> inside, under |-> under]

SampleLayouts == {At({}, {}), At({"fff"}, {}), At({"home", "pi", "fff"}, {}),
                  At({}, {"tmp"}), At({}, {"pi"})}
===============================================================================
