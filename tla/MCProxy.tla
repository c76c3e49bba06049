------------------------------- MODULE MCProxy -------------------------------
(* The two structures that the threads of the proxy share, the connection  *)
(* buffer and the object cache: a behaviour runs one of them and leaves the *)
(* other as it is at first.                                                *)
EXTENDS Sbuf, Cache

VARIABLE structure

allvars == <<structure, sbufvars, vars>>

ProxyInit == SbufInit /\ Init /\ structure \in {"sbuf", "cache"}

Buffer(step) == structure = "sbuf" /\ step /\ UNCHANGED <<structure, vars>>
Object(step) == structure = "cache" /\ step /\ UNCHANGED <<structure, sbufvars>>

ProxyNext == Buffer(SbufNext) \/ Object(Next)

(* The fairness of FairSbuf and of FairSpec.                               *)
ProxySpec == /\ ProxyInit /\ [][ProxyNext]_allvars
             /\ \A p \in Producers : WF_allvars(Buffer(Insert(p)))
             /\ \A c \in Consumers : WF_allvars(Buffer(Remove(c)))
             /\ \A t \in Pollers : WF_allvars(Buffer(Query(t)))
             /\ \A t \in Workers : /\ WF_allvars(Object(Read(t)))
                                   /\ WF_allvars(Object(Write(t)))
=============================================================================
