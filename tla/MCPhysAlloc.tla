---------------------------- MODULE MCPhysAlloc ----------------------------
(* Eight pages of two half pages each, in four words of two bits; pages 0   *)
(* and 2 are fixed.  The boot loader reports every pair of regions, of      *)
(* every type, on and off page boundaries, adjacent, overlapping or with a  *)
(* hole, and modules that do or do not begin and end at a page boundary, as *)
(* far as the code's assumptions about the boot loader hold.                *)
EXTENDS PhysAlloc

MCFixed == {0, 2}

Region(b, l, t) == [base |-> b, length |-> l, type |-> t]

MCMaps == {<<Region(0, m, 1), Region(b, l, t)>> :
             m \in {3, 6}, b \in {7, 8}, l \in {4, 6}, t \in 1..2}

MCModules == {<<>>,
              <<[start |-> 9, end |-> 11, at |-> 6]>>,
              <<[start |-> 10, end |-> 12, at |-> 14], [start |-> 13, end |-> 14, at |-> 14]>>}

MCBootInfos == {i \in {[mmap |-> m, modules |-> l, self |-> s] :
                         m \in MCMaps, l \in MCModules, s \in {6, 13}} : BootInfoOK(i)}
=============================================================================
