------------------------------- MODULE RbTree -------------------------------
(***************************************************************************)
(* The red-black tree of lib/rbtree.c, in memory: kmem.c lays its nodes    *)
(* over the blocks that they describe.  Memory is made of words of four    *)
(* bytes; a word that was never written is 0.  A node is the number of its *)
(* first word, NULL is 0: key, parent_and_color (the address of the parent *)
(* in bytes, plus the color), L, R.                                        *)
(*                                                                         *)
(* A tree is a record of memory, the root, and wild: the code has read     *)
(* fields through NULL, and what follows depends on what lies at address 0. *)
(* The two halves of each function, which differ by L and R, are one.      *)
(***************************************************************************)
EXTENDS Integers, FiniteSets, SequencesExt

CONSTANT Keys  \* bound: the keys of the client's nodes are 1..Keys

Black == 0
Red   == 1
L == 2
R == 3
Opposite(s) == 5 - s

Empty == [ram |-> <<>>, root |-> 0, wild |-> FALSE]

Word(t, w)        == IF w \in DOMAIN t.ram THEN t.ram[w] ELSE 0
Put(t, w, x)      == [t EXCEPT !.ram = (w :> x) @@ @]
Key(t, n)         == Word(t, n)
Parent(t, n)      == Word(t, n + 1) \div 4
Color(t, n)       == Word(t, n + 1) % 4
Child(t, n, s)    == Word(t, n + s)
SetChild(t, n, s, x) == Put(t, n + s, x)
SetColor(t, n, c) == Put(t, n + 1, 4 * Parent(t, n) + c)

\* SET_PARENT(NULL, p) writes a word that nobody reads before the tree is wild.
SetParent(t, n, p) == IF n = 0 THEN t ELSE Put(t, n + 1, 4 * p + Color(t, n))

BlackOrNull(t, n) == n = 0 \/ Color(t, n) = Black
Wild(t)           == [t EXCEPT !.wild = TRUE]

\* memset of a node
Clear(t, n) == [t EXCEPT !.ram = [w \in DOMAIN @ \ (n..(n + 3)) |-> @[w]]]

-----------------------------------------------------------------------------
(* rb_search; its last node before NULL is where rb_insert links a new one *)

RECURSIVE Search(_, _, _)
Search(t, x, key) ==
  IF x = 0 \/ Key(t, x) = key THEN x
  ELSE Search(t, Child(t, x, IF key < Key(t, x) THEN L ELSE R), key)

RECURSIVE Place(_, _, _)
Place(t, x, key) ==
  LET down == Child(t, x, IF key < Key(t, x) THEN L ELSE R) IN
  IF Key(t, x) = key \/ down = 0 THEN x ELSE Place(t, down, key)

RECURSIVE Outermost(_, _, _)
Outermost(t, x, s) == IF Child(t, x, s) = 0 THEN x ELSE Outermost(t, Child(t, x, s), s)

RECURSIVE Above(_, _, _)
Above(t, n, s) ==
  LET p == Parent(t, n) IN IF p # 0 /\ n = Child(t, p, s) THEN Above(t, p, s) ELSE p

\* rb_succ (s = R) and rb_pred (s = L)
Neighbour(t, n, s) ==
  IF Child(t, n, s) # 0 THEN Outermost(t, Child(t, n, s), Opposite(s)) ELSE Above(t, n, s)

-----------------------------------------------------------------------------
(* Rotations *)

Detach(t, x) ==
  LET p == Parent(t, x) IN
  SetParent(IF p = 0 THEN t ELSE SetChild(t, p, IF Child(t, p, L) = x THEN L ELSE R, 0), x, 0)

\* src takes the place of dst.
Transplant(t, dst, src) ==
  LET p == Parent(t, dst) IN
  SetParent(IF t.root = dst THEN [t EXCEPT !.root = src]
            ELSE IF dst = Child(t, p, R) THEN SetChild(t, p, R, src)
            ELSE IF dst = Child(t, p, L) THEN SetChild(t, p, L, src) ELSE t,
            src, p)

RotateLosing(t, x, s) ==  \* mutant: the inner subtree is dropped
  LET a  == Child(t, x, Opposite(s))
      up == Transplant(Detach(t, a), x, a) IN
  IF a = 0 THEN t ELSE SetParent(SetChild(up, a, s, x), x, a)

\* rb_left_rotate (s = L) and rb_right_rotate (s = R): a comes up, its inner subtree
\* changes sides.
Lower(t, x, a, s) == SetParent(SetChild(t, a, s, x), x, a)

Rehang(t, x, a, s) ==
  LET b == Child(t, a, s) IN
  IF b = 0 THEN Lower(t, x, a, s)
  ELSE SetParent(SetChild(Lower(Detach(t, b), x, a, s), x, Opposite(s), b), b, x)

Rotate(t, x, s) ==
  LET a == Child(t, x, Opposite(s)) IN
  IF a = 0 THEN t ELSE Rehang(Transplant(Detach(t, a), x, a), x, a, s)

-----------------------------------------------------------------------------
(* Insertion: [tree, exists] *)

InsertFixupNever(t, n) == t  \* mutant

RECURSIVE InsertFixup(_, _)
InsertFixup(t, n) ==
  LET p == Parent(t, n)
      g == Parent(t, p)
      s == IF Child(t, g, L) = p THEN L ELSE R
      uncle == Child(t, g, IF Child(t, g, R) = p THEN L ELSE R)
      Paint(x) == SetColor(SetColor(t, x, Black), g, Red) IN
  IF p = 0 THEN SetColor(t, n, Black)
  ELSE IF Color(t, p) = Black THEN t
  ELSE IF g = 0 THEN Wild(t)
  ELSE IF uncle # 0 /\ Color(t, uncle) = Red
  THEN InsertFixup(SetColor(Paint(p), uncle, Black), g)
  ELSE Rotate(IF Child(t, p, s) = n THEN Paint(p) ELSE Rotate(Paint(n), p, s), g, Opposite(s))

BlackRoot(t) == SetColor(t, t.root, Black)

Insert(t, n) ==
  LET r    == SetColor(t, n, Red)
      at   == Place(r, r.root, Key(r, n))
      side == IF Key(r, at) > Key(r, n) THEN L ELSE R
      in   == IF r.root = 0 THEN SetParent([r EXCEPT !.root = n], n, 0)
              ELSE SetParent(SetChild(r, at, side, n), n, at) IN
  IF r.root # 0 /\ Key(r, at) = Key(r, n) THEN [exists |-> TRUE, tree |-> r]
  ELSE [exists |-> FALSE, tree |-> BlackRoot(InsertFixup(in, n))]

-----------------------------------------------------------------------------
(* Removal *)

\* A red sibling goes up, its black child is the next one.
BlackSibling(t, p, far) ==
  LET other == Child(t, p, far) IN
  IF Color(t, other) = Black THEN t
  ELSE Rotate(SetColor(SetColor(t, other, Black), p, Red), p, Opposite(far))

\* The red nephew is the far one.
FarNephew(t, p, far) ==
  LET other == Child(t, p, far)
      near  == Opposite(far) IN
  IF ~BlackOrNull(t, Child(t, other, far)) THEN t
  ELSE Rotate(SetColor(SetColor(t, Child(t, other, near), Black), other, Red), other, far)

\* It makes up for the black node.
Borrow(t, p, far) ==
  LET other == Child(t, p, far) IN
  IF other = 0 \/ Child(t, other, far) = 0 THEN Wild(t)
  ELSE BlackRoot(Rotate(SetColor(SetColor(SetColor(t, other, Color(t, p)), p, Black),
                                 Child(t, other, far), Black), p, Opposite(far)))

\* n, possibly NULL, lacks a black node on its paths; p is what the caller takes
\* for its parent.
RECURSIVE RemoveFixup(_, _, _), WithBlackSibling(_, _, _)
RemoveFixup(t, n, p) ==
  LET far == IF Child(t, p, L) = n THEN R ELSE L IN
  IF ~BlackOrNull(t, n) \/ n = t.root
  THEN IF n = 0 THEN t ELSE SetColor(t, n, Black)
  ELSE IF p = 0 \/ Child(t, p, far) = 0 THEN Wild(t)
  ELSE WithBlackSibling(BlackSibling(t, p, far), p, far)

WithBlackSibling(t, p, far) ==
  LET other == Child(t, p, far) IN
  IF other = 0 THEN Wild(t)
  ELSE IF \A s \in {L, R} : BlackOrNull(t, Child(t, other, s))
  THEN RemoveFixup(SetColor(t, other, Red), p, Parent(t, p))
  ELSE Borrow(FarNephew(t, p, far), p, far)

\* r, which has no left child, takes the place of n, which has two.
Unhook(t, n, r) ==
  IF Parent(t, r) = n THEN SetParent(t, Child(t, r, R), r)
  ELSE SetParent(SetChild(Transplant(t, r, Child(t, r, R)), r, R, Child(t, n, R)), Child(t, n, R), r)

Replace(t, n, r) ==
  SetColor(SetParent(SetChild(Transplant(t, n, r), r, L, Child(t, n, L)), Child(t, n, L), r),
           r, Color(t, n))

\* The code passes the node that it moved, or the one it removed, as the parent.
RemoveNode(t, n) ==
  LET only == IF Child(t, n, L) = 0 THEN Child(t, n, R) ELSE Child(t, n, L)
      r    == Neighbour(t, n, R)
      Done(u, color, child, p) == IF color = Black THEN RemoveFixup(u, child, p) ELSE u IN
  IF Child(t, n, L) = 0 \/ Child(t, n, R) = 0
  THEN Done(Transplant(t, n, only), Color(t, n), only, n)
  ELSE Done(Replace(Unhook(t, n, r), n, r), Color(t, r), Child(t, r, R), r)

-----------------------------------------------------------------------------
(* A client with nodes of its own *)

VARIABLES
  tree,     \* the tree
  nodes,    \* the nodes that are in it
  removals  \* has a node been removed?

rbvars == <<tree, nodes, removals>>

\* Where the client has the node of a key, and one for a second insertion.
Home(key) == 4 * key
Node      == {Home(key) : key \in 1..Keys}

RbInit == tree = Empty /\ nodes = {} /\ removals = FALSE

\* rb_insert leaves a node whose key is there already to its caller.
Add(key) ==
  LET n == IF Home(key) \in nodes THEN Home(Keys + 1) ELSE Home(key)
      i == Insert(Put(Clear(tree, n), n, key), n) IN
  /\ ~tree.wild
  /\ tree' = IF i.exists THEN Clear(i.tree, n) ELSE i.tree
  /\ nodes' = IF i.exists THEN nodes ELSE nodes \cup {n}
  /\ UNCHANGED removals

Drop(n) ==
  /\ ~tree.wild /\ n \in nodes
  /\ tree' = Clear(RemoveNode(tree, n), n)
  /\ nodes' = nodes \ {n}
  /\ removals' = TRUE

RbNext ==
  \/ \E key \in 1..Keys : Add(key)
  \/ \E n \in Node : Drop(n)

RbSpec == RbInit /\ [][RbNext]_rbvars

-----------------------------------------------------------------------------
(* Properties *)

Children(n) == {Child(tree, n, s) : s \in {L, R}} \ {0}

\* Nodes at most d steps below n.
RECURSIVE Below(_, _)
Below(n, d) ==
  IF n = 0 THEN {} ELSE IF d = 0 THEN {n} ELSE {n} \cup UNION {Below(c, d - 1) : c \in Children(n)}
Subtree(n) == Below(n, Keys)

\* What rb_succ and rb_pred find: the next node by key, or NULL.
NeighboursRight ==
  \A n \in nodes :
    LET k == Key(tree, n)
        up == Neighbour(tree, n, R)
        down == Neighbour(tree, n, L) IN
    /\ \A m \in nodes : Key(tree, m) > k => up # 0 /\ Key(tree, up) \in (k + 1)..Key(tree, m)
    /\ \A m \in nodes : Key(tree, m) < k => down # 0 /\ Key(tree, down) \in Key(tree, m)..(k - 1)
    /\ up # 0 => Key(tree, up) > k
    /\ down # 0 => Key(tree, down) < k

\* Through all rotations and removals, even the ones that break the colors, the
\* tree holds exactly its nodes, parents and children know each other, and smaller
\* keys are to the left: rb_search finds what was inserted and nothing else, and
\* rb_succ and rb_pred find the neighbours.
SearchTree ==
  ~tree.wild =>
    /\ Subtree(tree.root) = nodes
    /\ tree.root # 0 => Parent(tree, tree.root) = 0
    /\ \A n \in nodes :
         /\ \A c \in Children(n) : Parent(tree, c) = n
         /\ \A m \in Subtree(Child(tree, n, L)) : Key(tree, m) < Key(tree, n)
         /\ \A m \in Subtree(Child(tree, n, R)) : Key(tree, m) > Key(tree, n)
    /\ NeighboursRight

RECURSIVE BlackHeights(_)
BlackHeights(n) ==
  IF n = 0 THEN {0}
  ELSE {h + 1 - Color(tree, n) : h \in BlackHeights(Child(tree, n, L)) \cup BlackHeights(Child(tree, n, R))}

\* rb_insert keeps the tree balanced: no red node has a red child, all paths down
\* have as many black nodes, and its code never looks through NULL.
Balanced ==
  ~removals =>
    /\ ~tree.wild
    /\ \A n \in nodes : \A c \in Children(n) : Color(tree, n) = Red => Color(tree, c) = Black
    /\ Cardinality(BlackHeights(tree.root)) = 1

\* Both, as long as the code can keep them.
RedBlackTree == SearchTree /\ Balanced
=============================================================================
