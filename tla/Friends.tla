------------------------------ MODULE Friends ------------------------------
(***************************************************************************)
(* The friendship handlers of on_message: addFriend, acceptFriend (with    *)
(* createChat, whose three inserts are three transactions) and the two     *)
(* that delete, whose SQL lacks a parenthesis and always fails.            *)
(***************************************************************************)
EXTENDS Sessions

\* getUserID(email): the account of an address, if there is one.
getUserID(email) == IF email \in registered THEN email ELSE NoUser

\* friendRequest.  A row may be inserted for a caller without an account unless
\* the schema refuses it, and that exception is not caught.
AddFriend(c, email) ==
  LET uid == Caller(c)
      allowed == getUserID(email) # NoUser /\ mayRequest(uid, email)
  IN
  /\ Receives(c)
  /\ \/ /\ ~allowed
        /\ Reply(c)
        /\ UNCHANGED <<procVars, historyVars, dbVars>>
     \/ /\ allowed /\ (SchemaKeys => uid # NoUser)
        /\ insertFriendRequest(uid, email)
        /\ task' = [Idle EXCEPT !.at = "add.push", !.hdl = c, !.uid = uid, !.fid = email]
        /\ UNCHANGED <<procVars, historyVars>>
     \/ allowed /\ SchemaKeys /\ uid = NoUser /\ Die

\* Push to the asked user, then the answer, which only this branch gives.
AddFriendPush ==
  /\ task.at = "add.push"
  /\ \/ /\ ~online[task.fid]
        /\ Finish
        /\ UNCHANGED <<procVars, historyVars, dbVars>>
     \/ /\ online[task.fid] /\ MaySend(task.fid)
        /\ Reply(task.hdl)
        /\ UNCHANGED <<procVars, historyVars, dbVars>>
     \/ online[task.fid] /\ MayThrow(task.fid) /\ Die

-----------------------------------------------------------------------------
\* answer = true: mark the request accepted and say so.  Nothing asks whether
\* there is a request, who made it, or whether it was accepted before.
AcceptFriend(c, email) ==
  /\ Receives(c)
  /\ Len(chatlist) < MaxChats
  /\ acceptFriendRequest(Caller(c), getUserID(email))
  /\ task' = [Idle EXCEPT !.at = "accept.chat", !.hdl = c, !.answered = TRUE,
                          !.uid = Caller(c), !.fid = getUserID(email)]
  /\ UNCHANGED <<procVars, historyVars>>

\* createChat, first insert: the chat.
AcceptChat ==
  /\ task.at = "accept.chat"
  /\ insertChat
  /\ task' = [task EXCEPT !.at = "accept.self", !.cid = Len(chatlist) + 1]
  /\ UNCHANGED <<procVars, historyVars>>

\* Mutant: createChat forgets the other user's row.
AcceptSelfOnly ==
  /\ task.at = "accept.self"
  /\ insertChatlist(task.uid, task.cid)
  /\ Goto("accept.push")
  /\ UNCHANGED <<procVars, historyVars>>

\* createChat, second insert: the caller's row.
AcceptSelf ==
  /\ task.at = "accept.self"
  /\ \/ /\ ~refusesChatlist(task.uid, task.cid)
        /\ insertChatlist(task.uid, task.cid)
        /\ Goto("accept.peer")
        /\ UNCHANGED <<procVars, historyVars>>
     \/ refusesChatlist(task.uid, task.cid) /\ Die

\* createChat, third insert: the other user's row.
AcceptPeer ==
  /\ task.at = "accept.peer"
  /\ \/ /\ ~refusesChatlist(task.fid, task.cid)
        /\ insertChatlist(task.fid, task.cid)
        /\ Goto("accept.push")
        /\ UNCHANGED <<procVars, historyVars>>
     \/ refusesChatlist(task.fid, task.cid) /\ Die

\* The new friend and chat go to the caller, and to the other user if online;
\* userOnline(-1) reads the first row of an empty result.
AcceptPush ==
  /\ task.at = "accept.push"
  /\ \/ /\ task.fid # NoUser
        /\ ~online[task.fid] \/ MaySend(task.fid)
        /\ Finish
        /\ UNCHANGED <<procVars, historyVars, dbVars>>
     \/ /\ task.fid # NoUser => online[task.fid] /\ MayThrow(task.fid)
        /\ Die

-----------------------------------------------------------------------------
\* answer = false, and removeFriend: look both users up, then delete.
DeclineFriend(c, email) ==
  /\ Receives(c)
  /\ task' = [Idle EXCEPT !.at = "decline.delete", !.hdl = c,
                          !.uid = Caller(c), !.fid = getUserID(email)]
  /\ UNCHANGED <<procVars, historyVars, dbVars>>

RemoveFriend(c, email) ==
  /\ Receives(c)
  /\ task' = [Idle EXCEPT !.at = "remove.delete", !.hdl = c,
                          !.uid = Caller(c), !.fid = getUserID(email)]
  /\ UNCHANGED <<procVars, historyVars, dbVars>>

\* removeRequest and removeFriend: the DELETE ends before its last parenthesis,
\* PostgreSQL rejects it and the exception leaves on_message.
removeRequest == task.at = "decline.delete" /\ Die
removeFriend  == task.at = "remove.delete" /\ Die
=============================================================================
