---------------------------- MODULE MCStaleness ----------------------------
(* A load, a clean and a plot cell; x and y have one writer, z may have two. *)
EXTENDS Staleness

CONSTANTS load, clean, plot, x, y, z, load1, load2, clean1, clean2, plot1, plot2

MCSourcesOf ==
  [c \in Cells |-> CASE c = load -> {load1, load2}
                     [] c = clean -> {clean1, clean2}
                     [] c = plot -> {plot1, plot2}]

MCUses ==
  [s \in Sources |-> CASE s = clean1 -> {x} [] s = plot1 -> {y} [] s = plot2 -> {x, z} [] OTHER -> {}]

MCWrites ==
  [s \in Sources |-> CASE s = load1 -> {x} [] s = load2 -> {x, z}
                      [] s = clean1 -> {y} [] s = clean2 -> {y, z} [] OTHER -> {}]

\* Once disturbed, the properties say nothing until the next kernel, and every
\* state with a new kernel is also reached without a disturbance before it.
Calm == disturbed = "no"
============================================================================
