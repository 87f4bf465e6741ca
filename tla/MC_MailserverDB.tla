---------------------------- MODULE MC_MailserverDB ----------------------------
(***************************************************************************)
(* Inputs for MailserverDB.  One mailserver id, given with an address or  *)
(* with a nil one.  Two gap ids in two chats; the AddGaps lists have two  *)
(* elements so that a statement can fail after another has run.  Topics  *)
(* over two pubsub topics: p1 with content topics t1 and t2, p2 with t1.  *)
(* AddTopic stores last_request 1 and SetTopics inserts Day = 2, so a     *)
(* reset of a kept topic's last_request shows.                             *)
(***************************************************************************)
EXTENDS MailserverDB

MCMailserverInputs == {[id |-> "m1", addr |-> "a1"], [id |-> "m1", addr |-> "nil"]}
MCGapLists == {<< [id |-> "g1", chat |-> "c1"], [id |-> "g2", chat |-> "c2"] >>}
MCGapIDLists == {<< >>, << "g1" >>}
MCChatIDs == {"c1", "c2"}
MCTopicInputs == {[ps |-> "p1", ct |-> "t1", lastRequest |-> 1],
                  [ps |-> "p2", ct |-> "t1", lastRequest |-> 1]}
MCTopicLists == {<< [ps |-> "p1", ct |-> "t1", lastRequest |-> 1],
                    [ps |-> "p1", ct |-> "t2", lastRequest |-> 1] >>}
MCFilterLists == {<< >>, << [ps |-> "p1", ct |-> "t1"] >>,
                  << [ps |-> "p1", ct |-> "t2"], [ps |-> "p2", ct |-> "t1"] >>}
MCRangeInputs == {[chat |-> "c1", lo |-> 1]}
MCRangeLists == {<< [chat |-> "c1", lo |-> 2], [chat |-> "c2", lo |-> 2] >>}

AllFailures == {"begin", "exec", "select", "commit"}
=============================================================================
