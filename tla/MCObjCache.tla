------------------------------ MODULE MCObjCache ------------------------------
EXTENDS ObjCache, TLC

CONSTANTS t1, t2, t3, c1

\* cache 2 objects, wake someone for 3, give back 1 at a time; then none, none, all.
CreatedDef == <<1, 1, 1>>
ReleaseDef == <<0, 0, 9>>

===============================================================================
