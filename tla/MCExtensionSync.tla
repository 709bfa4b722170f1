-------------------------- MODULE MCExtensionSync --------------------------
(* Two peers whose chains part after t1, one whose chain comes in parts.    *)
EXTENDS ExtensionSync, TLC

CONSTANTS g, t1, t2, t3, t4, t5, x1, o1, n1, n2

MCReference == (g :> g) @@ (t1 :> g) @@ (t2 :> t1) @@ (t3 :> t2) @@ (t4 :> t3) @@ (t5 :> t4)
               @@ (x1 :> t1) @@ (o1 :> t1)
MCStart == <<g>>
Forked == (n1 :> <<g, t1, t2, t3>>) @@ (n2 :> <<g, t1, x1>>)
Heights == 1..22
ByHeight == [h \in Heights |-> IF h = 1 THEN 1 ELSE h - 1]
LongChain == n1 :> [h \in Heights |-> h]
FirstBlock == <<1>>
=============================================================================
