------------------------------ MODULE Messages ------------------------------
(***************************************************************************)
(* The newMessage handler: store the message, echo it to the sender, hand  *)
(* it to the other member of the chat if online and mark it transmitted.   *)
(***************************************************************************)
EXTENDS Sessions

\* Would the schema refuse the messages row?
refusesMessage(uid, cid) ==
  SchemaKeys /\ (uid = NoUser \/ cid \notin DOMAIN chatlist)

\* The chat id is the client's; nothing asks whether the caller is a member.
NewMessage(c, cid) ==
  LET uid == Caller(c) IN
  /\ Receives(c)
  /\ Len(messages) < MaxMessages
  /\ \/ /\ ~refusesMessage(uid, cid)
        /\ newMessage(uid, cid)
        /\ task' = [Idle EXCEPT !.at = "msg.echo", !.hdl = c, !.uid = uid,
                                !.cid = cid, !.mid = Len(messages) + 1]
        /\ UNCHANGED <<procVars, historyVars>>
     \/ refusesMessage(uid, cid) /\ Die

\* The rows of the other members.  The code looks them up before the insert;
\* nothing changes chatlist in between.
PeerRows ==
  IF task.cid \in DOMAIN chatlist THEN getPeersOfChat(task.uid, task.cid) ELSE {}

\* getMessage joins the author's row, whose absence kills the process; then the
\* echo, and a branch on the number of other members: one, several, none.
MsgEcho ==
  /\ task.at = "msg.echo"
  /\ \/ /\ task.uid # NoUser
        /\ seen' = [seen EXCEPT ![task.hdl] = @ \cup {task.mid}]
        /\ \/ \E i \in PeerRows :
                /\ PeerRows = {i}
                /\ task' = [task EXCEPT !.at = "msg.direct", !.answered = TRUE,
                                        !.fid = chatlist[task.cid][i]]
           \/ /\ \E i, j \in PeerRows : i # j
              /\ task' = [task EXCEPT !.at = "msg.room", !.answered = TRUE,
                                      !.todo = getAllOnlineUsersOfChatroom(task.cid)]
           \/ PeerRows = {} /\ Reply(task.hdl)
        /\ UNCHANGED <<procVars, authed, listed, dbVars>>
     \/ task.uid = NoUser /\ Die

\* Mutant: pushed to every client.
HandToAll(h) ==
  seen' = [c \in Conn |-> IF CanSend(c) THEN seen[c] \cup {task.mid} ELSE seen[c]]

\* The message goes out on connection h.
HandTo(h) == seen' = [seen EXCEPT ![h] = @ \cup {task.mid}]

\* Mutant: marked whether or not there was anybody to hand it to.
MsgDirectFlagsAlways ==
  /\ task.at = "msg.direct"
  /\ Goto("msg.flag")
  /\ UNCHANGED <<procVars, historyVars, dbVars>>

\* One other member: hand it over if online.
MsgDirect ==
  /\ task.at = "msg.direct"
  /\ \/ /\ task.fid # NoUser /\ ~online[task.fid]
        /\ Finish
        /\ UNCHANGED <<procVars, historyVars, dbVars>>
     \/ /\ task.fid # NoUser /\ online[task.fid]
        /\ \E h \in get_hdl_from_session(sessionid[task.fid]) :
             CanSend(h) /\ HandTo(h)
        /\ Goto("msg.flag")
        /\ UNCHANGED <<procVars, authed, listed, dbVars>>
     \/ /\ task.fid # NoUser => online[task.fid] /\ MayThrow(task.fid)
        /\ Die

MsgFlag ==
  /\ task.at = "msg.flag"
  /\ setMessageTransmitted(task.mid)
  /\ Finish
  /\ UNCHANGED <<procVars, historyVars>>

\* Several other members: each one online, the sender included; never flagged.
MsgRoom(v) ==
  /\ task.at = "msg.room" /\ v \in task.todo
  /\ \/ /\ \E h \in get_hdl_from_session(sessionid[v]) : CanSend(h) /\ HandTo(h)
        /\ task' = [task EXCEPT !.todo = @ \ {v}]
        /\ UNCHANGED <<procVars, authed, listed, dbVars>>
     \/ MayThrow(v) /\ Die

MsgRoomDone ==
  /\ task.at = "msg.room" /\ task.todo = {}
  /\ Finish
  /\ UNCHANGED <<procVars, historyVars, dbVars>>
=============================================================================
