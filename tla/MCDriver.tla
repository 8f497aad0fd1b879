------------------------------ MODULE MCDriver ------------------------------
(* Two drivers.  The first gets every kind of command line, the second builds a *)
(* container, with and without -save-temps.                                     *)
EXTENDS Driver

Flag(name) == Option(name, {})
Input == Option("INPUT", {"a.o"})
Wl(v) == Option("Wl", {v})
Dir(name, tools) == [name |-> name, tools |-> tools]
Everything == {"clang", "clang++", "llvm-objcopy"}
Installed == SearchPaths(<<Dir(".", {})>>, <<Dir("hexagon", Everything)>>, <<Dir("/usr/bin", {"clang"})>>)
NoHexagon == SearchPaths(<<Dir(".", {})>>, <<>>, <<Dir("/usr/bin", {"clang", "clang++"})>>)
LineOf(options, ext, config, base, source, dirs) ==
  [options |-> options, ext |-> ext, config |-> config, base |-> base, source |-> source, dirs |-> dirs]
Line(options, ext, config, base) == LineOf(options, ext, config, base, ".cpp", Installed)

Tuples(S, n) == UNION {[1 .. k -> S] : k \in 0 .. n}

\* Up to three directives around an input; two at once, and one the driver does not know.
LinkOptions ==
  {<<Input>> \o s : s \in
     Tuples({Wl("--start-group"), Wl("--end-group"), Wl("--whole-archive"), Wl("--no-whole-archive")}, 3)}
  \union {<<Option("Wl", {"--start-group", "--end-group"}), Input>>, <<Wl("--no-such"), Input>>,
          <<Wl("--wrap"), Flag("with-stdlib"), Input>>, <<Flag("u"), Flag("L"), Flag("l"), Flag("no-defaultlib-paths")>>}

CompileOptions ==
  {<<Flag(m)>> \o s : m \in {"c", "E", "S"},
                      s \in Tuples({Flag("O0"), Flag("O3"), Flag("g"), Flag("g0")}, 2)}
  \union {<<Flag("c"), Option("std", {"c++17"}), Flag("D"), Flag("U")>>, <<Flag("c"), Option("std", {"c++23"})>>}

SaveTemps == {<<Input>>, <<Input, Flag("save-temps")>>}

MCArgsOf(p) ==
  IF p = 1
  THEN {Line(o, ".elf", "none", "a") : o \in LinkOptions}
       \union {Line(o, ".o", "none", "a") : o \in CompileOptions}
       \union {Line(o, e, c, "a") : o \in SaveTemps, e \in {"", ".qpc"}, c \in {"none", "good", "bad"}}
       \union {Line(<<Input>>, ".so", "none", "a"), Line(<<>>, "", "none", ""),
               Line(<<Flag("c")>>, "", "none", ""),
               LineOf(<<Flag("c"), Option("std", {"c++11"})>>, ".o", "none", "a", ".c", NoHexagon),
               LineOf(<<Flag("c")>>, ".o", "none", "a", ".f", Installed),
               LineOf(<<Input>>, ".qpc", "good", "a", "", NoHexagon)}
  ELSE {Line(o, ".qpc", "good", "b") : o \in SaveTemps}
=============================================================================
