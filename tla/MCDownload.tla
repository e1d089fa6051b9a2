------------------------------ MODULE MCDownload ------------------------------
(* More targets than requests, so that the redirect limit is met by chains *)
(* that never come back to a target.                                       *)
EXTENDS Download

MCUrls == 1..(MaxRedirects + 2)
===============================================================================
