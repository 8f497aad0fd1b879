-------------------------- MODULE MCProgramLayout --------------------------
(* Configs for ProgramLayout.  Room for four buffer doorbells, 128-byte lines: *)
(* the dummy descriptor is at 128, the rings of one thread at 256 to 511, and  *)
(* user buffers may start at 384.                                              *)
EXTENDS ProgramLayout

CONSTANT MaxLen   \* longest list of inputs or outputs

Plain == [dest |-> "L2TCM", dev |-> 4096, base |-> 0, size |-> 64, nsps |-> {},
          noDoorbell |-> FALSE, allowPartial |-> FALSE, fences |-> <<0, 0>>]

OnFirst == [Plain EXCEPT !.nsps = {0}, !.dev = 2048]
OnSecond == [Plain EXCEPT !.nsps = {1}, !.size = 32]
Paged == [Plain EXCEPT !.base = 4096, !.dev = 64]
Vector == [Plain EXCEPT !.dest = "VTCM", !.base = 4096, !.dev = 0, !.nsps = {1}]
Shared == [Plain EXCEPT !.dest = "DDR", !.size = 128]
Lowest == [Plain EXCEPT !.dev = 384, !.nsps = {0}]
Silent == [Plain EXCEPT !.noDoorbell = TRUE, !.nsps = {1}]

\* Each has one error in it.
Faulty ==
  {[Plain EXCEPT !.size = 0], [Plain EXCEPT !.nsps = {5}], [Plain EXCEPT !.base = 100],
   [Plain EXCEPT !.dev = 128], [Plain EXCEPT !.dev = 0, !.size = 4096],
   [Plain EXCEPT !.dev = 1048576], [Plain EXCEPT !.dest = "VTCM", !.dev = 8388608],
   [Shared EXCEPT !.base = 4096], [Plain EXCEPT !.allowPartial = TRUE],
   [Plain EXCEPT !.fences = <<2, 0>>]}

Lists(kinds, n) == UNION {[1 .. k -> kinds] : k \in 0 .. n}
Valid == [hwVersion |-> <<2, 0>>, numNsps |-> 2, numThreads |-> 1, numHmxThreads |-> 0,
          inputs |-> <<>>, outputs |-> <<>>, internals |-> <<>>]

WholeConfigs ==
  {[Valid EXCEPT !.inputs = i, !.outputs = o, !.internals = x, !.numNsps = n] :
     i \in Lists({Plain, OnFirst, OnSecond, Paged, Vector, Shared, Silent}, MaxLen),
     o \in Lists({OnFirst, OnSecond, Vector, Shared}, MaxLen),
     x \in Lists({Plain, Paged, Vector, Lowest}, 1), n \in {1, 2}}

OddConfigs ==
  {[Valid EXCEPT !.inputs = i, !.outputs = o, !.internals = x] :
     i \in Lists(Faulty, 1), o \in Lists(Faulty, 1), x \in Lists(Faulty, 1)}
  \union {[Valid EXCEPT !.numNsps = n, !.numThreads = t, !.numHmxThreads = h, !.inputs = <<Lowest>>] :
            n \in {0, 1, 17}, t \in {0, 2, 7}, h \in {0, 1, 3}}

MCConfigs == WholeConfigs \union OddConfigs
=============================================================================
