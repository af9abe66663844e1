---------------------------- MODULE MCClipboard ----------------------------
(* Clipboard on a small instance: an image, a text and a page that offers   *)
(* both.                                                                    *)
EXTENDS Clipboard

MCContents == {"photo", "note", "article"}
MCOffers ==
  [x \in MCContents |->
     CASE x = "photo" -> {"image"} [] x = "note" -> {"text"} [] OTHER -> {"image", "text"}]
=============================================================================
