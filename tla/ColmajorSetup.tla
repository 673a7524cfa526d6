--------------------------- MODULE ColmajorSetup ---------------------------
(***************************************************************************)
(* build_stage of colmajor_setup.py: the tables of one stage of the layer. *)
(* The permutation is factorised into two layers of planes, tau and rho    *)
(* (build_planes), every plane gets an angle, and the same rotations are   *)
(* then written down in three forms,                                       *)
(*                                                                         *)
(*   row    lists of planes over the features, for the fused stage kernel  *)
(*   swap   per cycle: pairs of positions with angles, for rot_cycle_cm    *)
(*          and its vectorised kin                                         *)
(*   fx     per cycle: angles only, the pairs being literals of            *)
(*          rot_cycle_fixed and rot_persist; the direction of a rotation   *)
(*          is folded into the sign of the sine                            *)
(*                                                                         *)
(* which "produce identical output".  Values are kept symbolic: a feature  *)
(* is a linear combination, a set of terms <<sign, coefficients, input>>.  *)
(*                                                                         *)
(* Extends PermCycles, whose walk is the cycles_of that build_planes       *)
(* calls; its tau and sig are the planes tau and rho.                      *)
(***************************************************************************)
EXTENDS PermCycles

VARIABLES
  h,                            \* cycles that build_stage has turned to
  cyc_feat,                     \* CF: the cycles that have tables
  swap,                         \* LO, HI, CO, SI: [lo, hi, cs, sn] per pair
  fx                            \* FXC, FXS: [cs, sn, sign] per pair

svars     == <<h, cyc_feat, swap, fx>>
buildVars == <<vars, svars>>

LMAX  == 11

\* Slip: the rows of the second reflection off by one.
RHO_POS_OFF   == <<<<0, 2>>, <<3, 10>>, <<4, 9>>, <<5, 8>>, <<6, 7>>>>

\* The pairs of positions of an 11-cycle that the two layers swap.
TAU_POS == <<<<1, 10>>, <<2, 9>>, <<3, 8>>, <<4, 7>>, <<5, 6>>>>
RHO_POS == <<<<0, 1>>, <<2, 10>>, <<3, 9>>, <<4, 8>>, <<5, 7>>>>

\* Slip: the rho layer first.
RP_RHO_FIRST == <<<<0, 1>>, <<2, 10>>, <<3, 9>>, <<4, 8>>, <<5, 7>>,
                  <<1, 10>>, <<2, 9>>, <<3, 8>>, <<4, 7>>, <<5, 6>>>>

\* The literal pairs of rot_cycle_fixed (RP), in the order of its tables.
RP == <<<<1, 10>>, <<2, 9>>, <<3, 8>>, <<4, 7>>, <<5, 6>>,
        <<0, 1>>, <<2, 10>>, <<3, 9>>, <<4, 8>>, <<5, 7>>>>

BuildInit ==
  /\ Init
  /\ h = 0
  /\ cyc_feat = <<>>
  /\ swap = <<>>
  /\ fx = <<>>

\* cycles_of, which build_planes calls first.
CyclesIn ==
  /\ pc \in {"scan", "walk"}
  /\ Next
  /\ UNCHANGED svars

-----------------------------------------------------------------------------
\* Slip: cycles of even length are reflected too.
PlanesOfAny ==
  /\ pc = "match" /\ m < Len(cycles)
  /\ m' = m + 1
  /\ tau' = Reflect(tau, cycles[m + 1], 0)
  /\ sig' = Reflect(sig, cycles[m + 1], 1)
  /\ UNCHANGED <<perm, pc, s, seen, c, x, cycles, svars>>

\* The planes of the next cycle, if its length is odd.
PlanesOf ==
  LET d == cycles[m + 1]
  IN  /\ pc = "match" /\ m < Len(cycles)
      /\ m' = m + 1
      /\ IF Len(d) % 2 = 1 /\ Len(d) > 1
         THEN tau' = Reflect(tau, d, 0) /\ sig' = Reflect(sig, d, 1)
         ELSE UNCHANGED <<tau, sig>>
      /\ UNCHANGED <<perm, pc, s, seen, c, x, cycles, svars>>

EndPlanes ==
  /\ pc = "match" /\ m = Len(cycles)
  /\ pc' = "stage"
  /\ UNCHANGED <<perm, s, seen, c, x, cycles, m, tau, sig, svars>>

\* tp and rp: the planes <<i, j>> of a layer, i < j.
PlanesIn(inv) == {pl \in Coord \X Coord : inv[pl[1]] = pl[2] /\ pl[1] < pl[2]}

\* The cosine and the sine drawn for a plane of a layer.
Cos(layer, pl) == <<"cos", layer, pl>>
Sin(layer, pl) == <<"sin", layer, pl>>

\* src[(min(fa, fb), max(fa, fb))]
Plane(fa, fb) == IF fa < fb THEN <<fa, fb>> ELSE <<fb, fa>>

\* The table entries of cycle d for the pair of positions ab of a layer.
SwapEntry(d, layer, ab) ==
  LET fa == At(d, ab[1])
      fb == At(d, ab[2])
      pl == Plane(fa, fb)
  IN  [lo |-> IF fa < fb THEN ab[1] ELSE ab[2],
       hi |-> IF fa < fb THEN ab[2] ELSE ab[1],
       cs |-> Cos(layer, pl), sn |-> Sin(layer, pl)]

\* Slip: the sine keeps its sign.
FxUnsigned(d, layer, ab) ==
  LET pl == Plane(At(d, ab[1]), At(d, ab[2]))
  IN  [cs |-> Cos(layer, pl), sn |-> Sin(layer, pl), sign |-> 1]
FxEntry(d, layer, ab) ==
  LET fa == At(d, ab[1])
      fb == At(d, ab[2])
      pl == Plane(fa, fb)
  IN  [cs |-> Cos(layer, pl), sn |-> Sin(layer, pl), sign |-> IF fa < fb THEN 1 ELSE -1]

\* The layers and pairs of a table, tau first.
Pairs ==
  [i \in 1 .. Len(TAU_POS) |-> [layer |-> "tau", ab |-> TAU_POS[i]]]
    \o [i \in 1 .. Len(RHO_POS) |-> [layer |-> "rho", ab |-> RHO_POS[i]]]

SkipCycle ==
  /\ pc = "stage" /\ h < Len(cycles) /\ Len(cycles[h + 1]) # LMAX
  /\ h' = h + 1
  /\ UNCHANGED <<perm, pc, s, seen, c, x, cycles, m, tau, sig, cyc_feat, swap, fx>>

\* The dictionary look-up raises when a pair is not a plane of its layer.
KeyError(d) ==
  \/ \E i \in 1 .. Len(TAU_POS) :
       Plane(At(d, TAU_POS[i][1]), At(d, TAU_POS[i][2])) \notin PlanesIn(tau)
  \/ \E i \in 1 .. Len(RHO_POS) :
       Plane(At(d, RHO_POS[i][1]), At(d, RHO_POS[i][2])) \notin PlanesIn(sig)

\* The tables of the next 11-cycle.
StageCycle ==
  LET d == cycles[h + 1]
  IN  /\ pc = "stage" /\ h < Len(cycles) /\ Len(d) = LMAX
      /\ h' = h + 1
      /\ IF KeyError(d)
         THEN pc' = "KeyError" /\ UNCHANGED <<cyc_feat, swap, fx>>
         ELSE /\ cyc_feat' = Append(cyc_feat, d)
              /\ swap' = Append(swap,
                         [i \in 1 .. Len(Pairs) |-> SwapEntry(d, Pairs[i].layer, Pairs[i].ab)])
              /\ fx' = Append(fx,
                         [i \in 1 .. Len(Pairs) |-> FxEntry(d, Pairs[i].layer, Pairs[i].ab)])
              /\ pc' = pc
      /\ UNCHANGED <<perm, s, seen, c, x, cycles, m, tau, sig>>

EndStage ==
  /\ pc = "stage" /\ h = Len(cycles)
  /\ pc' = "built"
  /\ UNCHANGED <<perm, s, seen, c, x, cycles, m, tau, sig, svars>>

BuildNext == CyclesIn \/ PlanesOf \/ EndPlanes \/ SkipCycle \/ StageCycle \/ EndStage

BuildSpec == BuildInit /\ [][BuildNext]_buildVars

-----------------------------------------------------------------------------
\* Linear combinations: k times v, with a sign; the input f itself.
Times(sign, k, v) == {<<sign * t[1], t[2] \cup {k}, t[3]>> : t \in v}
Input(f)          == {<<1, {}, f>>}

\* (lo, hi) turned by the angle with cosine cs and sine sign * sn.
TurnedLo(lo, hi, cs, sn, sign) == Times(1, cs, lo) \cup Times(-sign, sn, hi)
TurnedHi(lo, hi, cs, sn, sign) == Times(sign, sn, lo) \cup Times(1, cs, hi)

\* v with the entries at a and b turned.
Turn(v, a, b, cs, sn, sign) ==
  [v EXCEPT ![a] = TurnedLo(v[a], v[b], cs, sn, sign),
            ![b] = TurnedHi(v[a], v[b], cs, sn, sign)]

\* The row form, applied plane by plane: one layer of disjoint planes.
RowLayer(v, layer, inv) ==
  [f \in Coord |->
     LET pl == Plane(f, inv[f])
     IN  IF inv[f] = f THEN v[f]
         ELSE IF f < inv[f]
         THEN TurnedLo(v[f], v[inv[f]], Cos(layer, pl), Sin(layer, pl), 1)
         ELSE TurnedHi(v[inv[f]], v[f], Cos(layer, pl), Sin(layer, pl), 1)]
RowForm == RowLayer(RowLayer([f \in Coord |-> Input(f)], "tau", tau), "rho", sig)

\* The inputs of a cycle, by position.
Loaded(d) == [p \in 0 .. LMAX - 1 |-> Input(At(d, p))]

\* rot_cycle_cm on cycle i: the entries of the swap table one after another.
SwapForm(i) ==
  LET after[k \in 0 .. Len(swap[i])] ==
        IF k = 0 THEN Loaded(cyc_feat[i])
        ELSE LET e == swap[i][k] IN Turn(after[k - 1], e.lo, e.hi, e.cs, e.sn, 1)
  IN  after[Len(swap[i])]

\* rot_cycle_fixed on cycle i: the literal pairs one after another.
FxForm(i) ==
  LET after[k \in 0 .. Len(RP)] ==
        IF k = 0 THEN Loaded(cyc_feat[i])
        ELSE LET e == fx[i][k]
             IN  Turn(after[k - 1], RP[k][1], RP[k][2], e.cs, e.sn, e.sign)
  IN  after[Len(RP)]

-----------------------------------------------------------------------------
\* The literal pairs of positions are planes of their layers, whatever
\* features the cycle joins: the look-up of an angle never raises.
NoKeyError == pc # "KeyError"

\* The three forms of the same rotations compute the same values in every
\* feature of every cycle that has tables.
FormsAgree ==
  pc = "built" =>
    LET row == RowForm
    IN  \A i \in 1 .. Len(cyc_feat) :
          LET sw == SwapForm(i)
              fd == FxForm(i)
          IN  \A p \in 0 .. LMAX - 1 :
                /\ sw[p] = row[At(cyc_feat[i], p)]
                /\ fd[p] = sw[p]

\* The features that no table holds are left alone by the row form as well,
\* if every other odd cycle is a fixed point: then even cycles are dropped by
\* all forms alike.
OthersUntouched ==
  pc = "built" =>
    LET tabled == {At(cyc_feat[i], p) : i \in 1 .. Len(cyc_feat), p \in 0 .. LMAX - 1}
        row    == RowForm
    IN  (\A i \in 1 .. Len(cycles) : Len(cycles[i]) \in {1, LMAX} \/ Len(cycles[i]) % 2 = 0)
          => \A f \in Coord \ tabled : row[f] = Input(f)

\* The stage is built around the permutation: the value of feature f that is
\* swapped, and not scaled, by every plane it meets comes out at perm[f].
SwapsFollowPerm ==
  pc = "built" =>
    \A i \in 1 .. Len(cyc_feat) :
      LET fd == FxForm(i)
      IN  \A p \in 0 .. LMAX - 1 :
            LET f == At(cyc_feat[i], p)
                q == CHOOSE q \in 0 .. LMAX - 1 : At(cyc_feat[i], q) = perm[f]
            IN  \E t \in fd[q] : t[3] = f /\ \A k \in t[2] : k[1] = "sin"
=============================================================================
