------------------------------ MODULE Accounts ------------------------------
(***************************************************************************)
(* Registration and login (src/src/clogic.cpp: RegisterRq, LoginRq).  A    *)
(* registration asks whether the number is free, inserts the account, asks *)
(* for the id of the first account with the number, and makes that         *)
(* account's directory; its mkdir is what decides between two that meet.   *)
(***************************************************************************)
EXTENDS TcpKernel

CONSTANTS
  UniqueTel,           \* does the schema refuse a second account of one number?
  t_user_0             \* the accounts at the beginning

VARIABLES
  t_user,              \* rows in the order of u_id
  homes,               \* the ids whose directory exists
  m_mapIdToUserinfo,   \* from the ids logged in to the objects in heap
  heap                 \* the STRU_USERINFO that were allocated

accountVars == <<t_user, homes, m_mapIdToUserinfo, heap>>
Ids == 1..Len(t_user)

ASSUME AccountsAssumption ==
  /\ UniqueTel \in BOOLEAN
  /\ t_user_0 \in Seq([u_tel : STRING, u_password : STRING])
  /\ \A r \in Requests : r.type = "REGISTER_RQ" => r.tel \in STRING /\ r.password \in STRING

Accounts(tel) == {i \in Ids : t_user[i].u_tel = tel}
FirstId(tel) == CHOOSE i \in Accounts(tel) : \A j \in Accounts(tel) : i <= j

-----------------------------------------------------------------------------
Registered_never(tel) == FALSE
Registered(tel) == Accounts(tel) # {}

RegisterRq_exists(s) ==
  /\ At(s, "RegisterRq", "exists")
  /\ IF Registered(Rq(s).tel) THEN SendData(s, "user_is_exist")
     ELSE Goto(s, "insert") /\ UNCHANGED reply
  /\ UNCHANGED <<main, m_NetPackMap, faults, accountVars>>

RegisterRq_insert(s) ==
  /\ At(s, "RegisterRq", "insert")
  /\ IF UniqueTel /\ Accounts(Rq(s).tel) # {}
     THEN SendData(s, "register_error") /\ UNCHANGED t_user
     ELSE /\ t_user' = Append(t_user, [u_tel |-> Rq(s).tel, u_password |-> Rq(s).password])
          /\ Goto(s, "selectId") /\ UNCHANGED reply
  /\ UNCHANGED <<main, m_NetPackMap, faults, homes, m_mapIdToUserinfo, heap>>

NewId_next(tel) == Len(t_user) + 1
NewId(tel) == FirstId(tel)

RegisterRq_selectId(s) ==
  /\ At(s, "RegisterRq", "selectId")
  /\ run' = [run EXCEPT ![s].step = "mkdir", ![s].id = NewId(Rq(s).tel)]
  /\ UNCHANGED <<main, m_NetPackMap, reply, faults, accountVars>>

(* A directory that exists is an error, and its account stays.              *)
Mkdir_existOk(id) == TRUE
Mkdir(id) == id \notin homes

RegisterRq_mkdir(s) ==
  /\ At(s, "RegisterRq", "mkdir")
  /\ LET id == run[s].id
     IN  /\ homes' = homes \cup {id}
         /\ IF Mkdir(id) THEN Goto(s, "reply") /\ UNCHANGED reply
            ELSE SendData(s, "register_error")
  /\ UNCHANGED <<main, m_NetPackMap, faults, t_user, m_mapIdToUserinfo, heap>>

RegisterRq_reply(s) ==
  /\ At(s, "RegisterRq", "reply")
  /\ SendData(s, "register_success")
  /\ UNCHANGED <<main, m_NetPackMap, faults, accountVars>>

(* Whatever fails, the answer is an error and what was done stays.          *)
RegisterRq_fails(s) ==
  /\ \E step \in {"exists", "insert", "selectId", "mkdir"} : At(s, "RegisterRq", step)
  /\ Fault("register") /\ SendData(s, "register_error")
  /\ UNCHANGED <<main, m_NetPackMap, accountVars>>

-----------------------------------------------------------------------------
LoginRq_select(s) ==
  /\ At(s, "LoginRq", "select")
  /\ IF Accounts(Rq(s).tel) = {} THEN SendData(s, "user_not_exist")
     ELSE IF t_user[FirstId(Rq(s).tel)].u_password # Rq(s).password
          THEN SendData(s, "password_error")
          ELSE /\ run' = [run EXCEPT ![s].step = "find", ![s].id = FirstId(Rq(s).tel)]
               /\ UNCHANGED reply
  /\ UNCHANGED <<main, m_NetPackMap, faults, accountVars>>

(* A select that fails leaves an empty list, which means no such user.      *)
LoginRq_fails(s) ==
  /\ At(s, "LoginRq", "select")
  /\ Fault("login") /\ SendData(s, "user_not_exist")
  /\ UNCHANGED <<main, m_NetPackMap, accountVars>>

Found_any(id) == DOMAIN m_mapIdToUserinfo
Found(id) == DOMAIN m_mapIdToUserinfo \cap {id}

LoginRq_find(s) ==
  /\ At(s, "LoginRq", "find")
  /\ LET found == Found(run[s].id)
     IN  IF found # {}
         THEN /\ \E i \in found : run' = [run EXCEPT ![s].step = "write", ![s].info = m_mapIdToUserinfo[i]]
              /\ UNCHANGED heap
         ELSE /\ heap' = Append(heap, [userid |-> 0, clientfd |-> "none"])
              /\ run' = [run EXCEPT ![s].step = "write", ![s].info = Len(heap) + 1]
  /\ UNCHANGED <<main, m_NetPackMap, reply, faults, t_user, homes, m_mapIdToUserinfo>>

(* No lock covers the object: another login of the user may write it too.   *)
LoginRq_write(s) ==
  /\ At(s, "LoginRq", "write")
  /\ heap' = [heap EXCEPT ![run[s].info] = [userid |-> run[s].id, clientfd |-> Rq(s).client]]
  /\ Goto(s, "publish")
  /\ UNCHANGED <<main, m_NetPackMap, reply, faults, t_user, homes, m_mapIdToUserinfo>>

LoginRq_insert(s) ==
  /\ At(s, "LoginRq", "publish")
  /\ m_mapIdToUserinfo' = [i \in DOMAIN m_mapIdToUserinfo \cup {run[s].id} |->
                             IF i = run[s].id THEN run[s].info ELSE m_mapIdToUserinfo[i]]
  /\ SendData(s, "login_success")
  /\ UNCHANGED <<main, m_NetPackMap, faults, t_user, homes, heap>>

-----------------------------------------------------------------------------
RegisterRq(s) ==
  \/ RegisterRq_exists(s) \/ RegisterRq_insert(s) \/ RegisterRq_selectId(s)
  \/ RegisterRq_mkdir(s) \/ RegisterRq_reply(s)
LoginRq(s) ==
  \/ LoginRq_select(s) \/ LoginRq_find(s) \/ LoginRq_write(s) \/ LoginRq_insert(s)

NobodyOnline == m_mapIdToUserinfo' = [i \in {} |-> 0] /\ heap' = <<>>

AccountsInit ==
  /\ t_user = t_user_0 /\ homes = 1..Len(t_user_0)
  /\ m_mapIdToUserinfo = [i \in {} |-> 0] /\ heap = <<>>
=============================================================================
