---------------------------- MODULE Orientations ----------------------------
(***************************************************************************)
(* signfree_layers of givens_perm.py: after two_matchings has factorised   *)
(* perm into two layers of swaps, solve_orientations realises every swap   *)
(* as a rotation by +90 or -90 degrees, choosing the angles so that the    *)
(* two layers equal perm exactly, without residual signs.  A rotation is   *)
(* a swap up to one sign, so each coordinate demands the parity of the one *)
(* or two planes it passes through; the demands are entered one by one in  *)
(* a union-find forest with parities, whose node GND stands for the parity *)
(* 0.  A demand that contradicts the earlier ones raises.                  *)
(*                                                                         *)
(* Extends PermCycles, whose steps are those of two_matchings.             *)
(***************************************************************************)
EXTENDS PermCycles, FiniteSets

VARIABLES
  f,            \* the coordinates below f have entered their demands
  par, rel,     \* the forest: parent, and parity relative to the parent
  t_ang, s_ang  \* the result: 0 for +90 degrees, 1 for -90, per plane

ovars     == <<f, par, rel, t_ang, s_ang>>
solveVars == <<vars, ovars>>

Bit == {0, 1}

\* bit a XOR bit b
Xor(a, b) == (a + b) % 2

-----------------------------------------------------------------------------
\* The planes of a layer are its swapped pairs, numbered by their lower ends.
LowerEnds(inv) == {a \in Coord : inv[a] > a}
PlaneCount(inv) == Cardinality(LowerEnds(inv))
PlaneOf(inv, a) ==
  Cardinality({b \in LowerEnds(inv) : b < a /\ b < inv[a]})

\* The nodes: first the tau planes, then the sig planes, then the ground.
nt   == PlaneCount(tau)
ns   == PlaneCount(sig)
GND  == nt + ns
Node == 0 .. GND

TNode(a) == PlaneOf(tau, a)
\* Slip: the sig planes share the numbers of the tau planes.
SNodeShared(a) == PlaneOf(sig, a)
SNode(a) == nt + PlaneOf(sig, a)

\* The root of every node of a forest, and its parity relative to the root.
RootIn(uf) ==
  LET root[y \in Node] == IF uf.par[y] = y THEN y ELSE root[uf.par[y]] IN root
ParityIn(uf) ==
  LET parity[y \in Node] ==
        IF uf.par[y] = y THEN 0 ELSE Xor(uf.rel[y], parity[uf.par[y]])
  IN  parity

\* Slip: a compressed node keeps the parity relative to its former parent.
FindStale(uf, y) ==
  LET path[z \in Node] == IF uf.par[z] = z THEN {} ELSE {z} \cup path[uf.par[z]]
  IN  [uf EXCEPT !.par = [z \in Node |-> IF z \in path[y] THEN RootIn(uf)[z] ELSE @[z]]]

\* find(y): every node on the way to the root becomes a child of the root.
Find(uf, y) ==
  LET path[z \in Node] == IF uf.par[z] = z THEN {} ELSE {z} \cup path[uf.par[z]]
  IN  [par |-> [z \in Node |-> IF z \in path[y] THEN RootIn(uf)[z] ELSE uf.par[z]],
       rel |-> [z \in Node |-> IF z \in path[y] THEN ParityIn(uf)[z] ELSE uf.rel[z]]]

\* union(a, b, bit): demand the parity bit between a and b.  The result says
\* whether the demand agrees with the earlier ones.
Union(uf, a, b, bit) ==
  LET found == Find(Find(uf, a), b)
      ra    == RootIn(found)[a]
      rb    == RootIn(found)[b]
      need  == Xor(Xor(ParityIn(found)[a], ParityIn(found)[b]), bit)
  IN  IF ra = rb
      THEN [ok |-> need = 0, uf |-> found]
      ELSE [ok |-> TRUE,
            uf |-> [par |-> [found.par EXCEPT ![ra] = rb],
                    rel |-> [found.rel EXCEPT ![ra] = need]]]

-----------------------------------------------------------------------------
SolveInit ==
  /\ Init
  /\ f = 0
  /\ par = <<>>
  /\ rel = <<>>
  /\ t_ang = <<>>
  /\ s_ang = <<>>

\* two_matchings, which is called first.
Match == Next /\ UNCHANGED ovars

\* The system of demands is set up: every node is a root.
Setup ==
  /\ pc = "matched"
  /\ pc' = "solve"
  /\ par' = [y \in Node |-> y]
  /\ rel' = [y \in Node |-> 0]
  /\ UNCHANGED <<perm, s, seen, c, x, cycles, m, tau, sig, f, t_ang, s_ang>>

sgn(a, b) == IF a < b THEN 1 ELSE -1
BitOf(sign) == IF sign = 1 THEN 0 ELSE 1

\* Coordinate f demands parity `bit` between a and b; on a contradiction the
\* function raises.
Demand(a, b, bit) ==
  LET result == Union([par |-> par, rel |-> rel], a, b, bit)
  IN  /\ par' = result.uf.par
      /\ rel' = result.uf.rel
      /\ IF result.ok THEN f' = f + 1 /\ pc' = pc
                      ELSE f' = f     /\ pc' = "raised"
      /\ UNCHANGED <<perm, s, seen, c, x, cycles, m, tau, sig, t_ang, s_ang>>

\* Slip: only the direction of the whole way counts.
BothLayersOneSign ==
  LET p == tau[f]
      q == perm[f]
  IN  /\ pc = "solve" /\ f < n
      /\ p # f /\ q # p
      /\ Demand(TNode(f), SNode(p), BitOf(sgn(f, q)))

\* tau moves f to p and sig moves p to q.
BothLayers ==
  LET p == tau[f]
      q == perm[f]
  IN  /\ pc = "solve" /\ f < n
      /\ p # f /\ q # p
      /\ Demand(TNode(f), SNode(p), BitOf(sgn(f, p) * sgn(p, q)))

TauOnly ==
  LET p == tau[f]
  IN  /\ pc = "solve" /\ f < n
      /\ p # f /\ perm[f] = p
      /\ Demand(TNode(f), GND, BitOf(sgn(f, p)))

SigOnly ==
  LET p == tau[f]
      q == perm[f]
  IN  /\ pc = "solve" /\ f < n
      /\ p = f /\ q # p
      /\ Demand(SNode(p), GND, BitOf(sgn(p, q)))

FixedPoint ==
  /\ pc = "solve" /\ f < n
  /\ tau[f] = f /\ perm[f] = f
  /\ f' = f + 1
  /\ UNCHANGED <<perm, pc, s, seen, c, x, cycles, m, tau, sig, par, rel, t_ang, s_ang>>

\* The angles are read off the forest.  (The forest itself, which these last
\* calls of find still compress, is dropped.)
Angles ==
  LET bit == ParityIn([par |-> par, rel |-> rel])
  IN  /\ pc = "solve" /\ f = n
      /\ pc' = "done"
      /\ t_ang' = [i \in 0 .. nt - 1 |-> bit[i]]
      /\ s_ang' = [i \in 0 .. ns - 1 |-> bit[nt + i]]
      /\ UNCHANGED <<perm, s, seen, c, x, cycles, m, tau, sig, f, par, rel>>

SolveNext ==
  \/ Match \/ Setup \/ BothLayers \/ TauOnly \/ SigOnly \/ FixedPoint \/ Angles

SolveSpec == SolveInit /\ [][SolveNext]_solveVars

-----------------------------------------------------------------------------
\* The sign with which a layer of rotations carries coordinate a: a rotation
\* of the plane i < j by +90 degrees takes e_i to e_j and e_j to -e_i.
LayerSign(inv, bit, a) ==
  CASE inv[a] = a -> 1
    [] inv[a] # a -> sgn(a, inv[a]) * (IF bit = 0 THEN 1 ELSE -1)

\* The sign that both layers give to coordinate a, with angles b.
NetSign(b, a) ==
  LayerSign(tau, b[TNode(a)], a) * LayerSign(sig, b[SNode(tau[a])], tau[a])

Assignments == {b \in [Node -> Bit] : b[GND] = 0}

\* The forest says neither more nor less than the demands entered so far: the
\* choices of angles that it allows are those that carry each of the
\* coordinates below f without a sign.  So no demand is lost or distorted by
\* a link or by the compression of a path.
ForestRepresents ==
  pc = "solve" =>
    \A b \in Assignments :
      (\A y \in Node : Xor(b[y], b[par[y]]) = rel[y])
        <=> (\A a \in 0 .. f - 1 : NetSign(b, a) = 1)

\* It raises exactly when there is no choice of angles, which is the case of
\* the permutations with a cycle of even length.
RaisesIfImpossible ==
  LET even == \E j \in 1 .. Len(cycles) : Len(cycles[j]) % 2 = 0
  IN  /\ pc = "raised" =>
           /\ even
           /\ \A b \in Assignments : \E a \in Coord : NetSign(b, a) # 1
      /\ pc = "done" => ~even

\* The angles returned, as an assignment.
Chosen == [y \in Node |-> IF y < nt THEN t_ang[y] ELSE IF y < GND THEN s_ang[y - nt] ELSE 0]

\* Every coordinate that is moved by both layers arrives without a sign.
\* Those moved by one layer only either all do, or all arrive negated.
SignsUniform ==
  pc = "done" =>
    \E sign \in {1, -1} : \A a \in Coord :
      NetSign(Chosen, a) = IF (tau[a] = a) # (perm[a] = tau[a]) THEN sign ELSE 1

\* The docstring of signfree_layers: "two oriented Givens layers whose product
\* is EXACTLY perm1 (apply tau layer first, then sig layer). No residual signs."
NoResidualSigns ==
  pc = "done" => \A a \in Coord : NetSign(Chosen, a) = 1
=============================================================================
