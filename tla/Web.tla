-------------------------------- MODULE Web ---------------------------------
(* What of simplusd meets a browser or a notification provider: the HTTP   *)
(* server, the histories it serves in pages, and notifications.  They      *)
(* share no state in the models.                                           *)
EXTENDS HttpApi, HistoryPages, Notifications

(* A Feishu binding in progress has its goroutine, channels are            *)
(* authorised by their own generation, and an edit keeps the last          *)
(* delivery (binding.go, service.go); what a tab with a stream shows out   *)
(* of date it is told of, and the answers it gets are true (httpapi,       *)
(* Hub); a history read page by page has everything once (pagination,      *)
(* ListSMSPage, ListCallsPage).                                            *)
WebIsSafe ==
  /\ BindingIsSafe /\ DeliveriesAreKept
  /\ HttpTypeOK /\ HttpIsSafe
  /\ PageTypeOK /\ PagesAreTrue
=============================================================================
