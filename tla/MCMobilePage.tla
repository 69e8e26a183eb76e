---------------------------- MODULE MCMobilePage ----------------------------
(* A small instance of the phone's page for TLC: a gallery with a photo of  *)
(* exactly the page's limit, one a byte larger and a file that is no photo; *)
(* captures and crops that are small; forms at the slack of the server's    *)
(* limit and a byte beyond it.                                              *)
EXTENDS MobilePage

LimitGallery == {500, PageLimit, PageLimit + 1}
SlackFramings == {FramingSlack, FramingSlack + 1}
============================================================================
