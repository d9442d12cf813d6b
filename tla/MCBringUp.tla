----------------------------- MODULE MCBringUp -----------------------------
EXTENDS BringUp

CONSTANTS p1

MCPart == 0 .. NumSlots + 2
At(a, s) == [attached |-> a, present |-> s]
OnePort(it) == [attached |-> p1 :> it.attached, present |-> p1 :> it.present]
Boots == {OnePort(At("pm", {0, 1})), OnePort(At("pm", {0})), OnePort(At("none", {}))}
FirstEmpty == {OnePort(At("pm", {1}))}
Plugs == {At("disk", {}), At("pm", {0, 1})}
Twins == {{<<p1, 0>>, <<p1, 1>>}}
=============================================================================
